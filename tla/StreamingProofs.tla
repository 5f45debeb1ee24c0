-------------------------- MODULE StreamingProofs --------------------------
(* Streaming for any queues, clients, requests and numbers of starts: each of *)
(* the four has an invariant of its own, which its steps keep, and the        *)
(* properties of the bundle follow from the four invariants.                  *)
EXTENDS Streaming, TLAPS, SequenceTheorems, WellFoundedInduction

-----------------------------------------------------------------------------
(* Camera: what each step of open has taken, and what cleanup may take. *)

\* What open has taken when it gets to a step, the flip callback apart.
Sensors == {"sensor", "vi", "callbacks"}
PipesUp == Sensors \cup {"dev", "pipe", "pipe_started"}
IspUp == PipesUp \cup {"ae", "awb", "isp"}
ChannelsUp == IspUp \cup {"thread", "vi_chn", "vi_pool"}
StreamsUp == ChannelsUp \cup {"grp", "stream_chn", "stream_pool"}
InfersUp == StreamsUp \cup (IF infer THEN {"infer_chn", "infer_pool"} ELSE {})

OpenTook ==
    /\ pc = "init_sensor" \/ (pc = "idle" /\ ~opened) => flags = {}
    /\ pc \in {"init_system", "start_sensor"} => flags = {"sensor"}
    /\ pc \in {"start_mipi", "start_vi_dev"} => flags = Sensors
    /\ pc = "start_vi_pipe" => flags = Sensors \cup {"dev"}
    /\ pc = "init_isp" => flags = PipesUp
    /\ pc = "start_isp" => flags = IspUp
    /\ pc = "start_vi_channel" => flags = IspUp \cup {"thread"}
    /\ pc = "init_vpss" => flags = ChannelsUp
    /\ pc = "setup_stream" => flags = ChannelsUp \cup {"grp"}
    /\ pc = "setup_infer" => flags = StreamsUp /\ infer
    /\ pc = "start_grp" => flags = InfersUp
    /\ pc = "bind" => flags = InfersUp \cup {"grp_started"}
    /\ pc = "idle" /\ opened => flags = InfersUp \cup {"grp_started", "bound"}
    /\ pc \in {"init_vpss", "setup_stream", "setup_infer", "start_grp", "bind"} \/ (pc = "idle" /\ opened)
         => "flip" \in held
    /\ pc \notin {"idle", "isp_exit", "isp_join", "undo"} => ~opened

\* The members and the driver agree, but for what cleanup is about to clear; the
\* thread of the ISP is there as long as it is not joined.
FlagsAreTrue ==
    /\ pc # "isp_join" => held \ {"flip"} = flags
    /\ pc = "isp_join" => held \ {"flip"} = flags \ {"isp"} /\ "thread" \in flags
    /\ pc = "undo" => flags \cap {"isp", "thread"} = {}
    /\ isp # "none" <=> "thread" \in held

\* What each facility needs, and what the thread of the ISP does.
Supported ==
    /\ "bound" \in held => {"vi_chn", "grp_started"} \subseteq held
    /\ "infer_pool" \in held => "infer_chn" \in held
    /\ "stream_pool" \in held => "stream_chn" \in held
    /\ "vi_pool" \in held => "vi_chn" \in held
    /\ {"infer_chn", "stream_chn", "grp_started"} \cap held # {} => "grp" \in held
    /\ "vi_chn" \in held => "pipe_started" \in held
    /\ "pipe_started" \in held => "pipe" \in held
    /\ "pipe" \in held => "dev" \in held
    /\ "dev" \in held => "vi" \in held
    /\ "thread" \in held => {"pipe_started", "ae", "awb", "callbacks"} \subseteq held

CameraInv == Camera!TypeOK /\ OpenTook /\ FlagsAreTrue /\ Supported

\* A camera nobody has opened.
LEMMA InitCamera == Camera!Init => CameraInv
<1> SUFFICES ASSUME Camera!Init PROVE CameraInv
  OBVIOUS
<1>1. lent \in 0 .. Depth
  BY ChannelsLend DEF Camera!Init, Camera!CameraAssumption
<1>2. {opened, foreign} \subseteq BOOLEAN
  BY DEF Camera!Init
<1> QED
  BY <1>1, <1>2 DEF Camera!Init, CameraInv, Camera!TypeOK, OpenTook, FlagsAreTrue, Supported

\* The facilities as a set.
LEMMA AllFacilities ==
  Camera!ToSet(Camera!Facilities) =
                      {"sensor", "vi", "callbacks", "dev", "pipe", "pipe_started", "ae", "awb", "isp",
                       "thread", "flip", "vi_chn", "vi_pool", "grp", "stream_chn", "stream_pool", "infer_chn",
                       "infer_pool", "grp_started", "bound"}
BY DEF Camera!ToSet, Camera!Facilities

\* What the driver gives before the call that fails: nothing, the first of one, two or
\* three, the first two of three, or all.
LEMMA FirstElements ==
  ASSUME NEW S, NEW s \in Seq(S), NEW n \in 0 .. Len(s)
  PROVE  Camera!ToSet(SubSeq(s, 1, n)) = {s[i] : i \in 1 .. n}
<1>1. /\ SubSeq(s, 1, n) \in Seq(S) /\ Len(SubSeq(s, 1, n)) = n
      /\ \A i \in 1 .. n : SubSeq(s, 1, n)[i] = s[i]
  BY SubSeqProperties
<1>2. DOMAIN SubSeq(s, 1, n) = 1 .. n
  BY <1>1
<1> QED
  BY <1>1, <1>2 DEF Camera!ToSet

LEMMA FirstOfNone ==
  ASSUME NEW n \in 0 .. Len(<<>>)
  PROVE  n = 0 /\ Camera!ToSet(SubSeq(<<>>, 1, n)) = {}
<1>1. n = 0
  OBVIOUS
<1>2. SubSeq(<<>>, 1, 0) = <<>>
  BY SubSeqEmpty
<1> QED
  BY <1>1, <1>2 DEF Camera!ToSet

LEMMA FirstOfOne ==
  ASSUME NEW a, NEW n \in 0 .. Len(<<a>>)
  PROVE  \/ n = 0 /\ Camera!ToSet(SubSeq(<<a>>, 1, n)) = {}
         \/ n = 1 /\ Camera!ToSet(SubSeq(<<a>>, 1, n)) = {a}
<1>1. n \in 0 .. 1
  OBVIOUS
<1>2. <<a>> \in Seq({a})
  OBVIOUS
<1>3. Camera!ToSet(SubSeq(<<a>>, 1, n)) = {<<a>>[i] : i \in 1 .. n}
  BY <1>2, FirstElements
<1> QED
  BY <1>1, <1>3

LEMMA FirstOfTwo ==
  ASSUME NEW a, NEW b, NEW n \in 0 .. Len(<<a, b>>)
  PROVE  \/ n = 0 /\ Camera!ToSet(SubSeq(<<a, b>>, 1, n)) = {}
         \/ n = 1 /\ Camera!ToSet(SubSeq(<<a, b>>, 1, n)) = {a}
         \/ n = 2 /\ Camera!ToSet(SubSeq(<<a, b>>, 1, n)) = {a, b}
<1>1. n \in 0 .. 2
  OBVIOUS
<1>2. <<a, b>> \in Seq({a, b})
  OBVIOUS
<1>3. Camera!ToSet(SubSeq(<<a, b>>, 1, n)) = {<<a, b>>[i] : i \in 1 .. n}
  BY <1>2, FirstElements
<1> QED
  BY <1>1, <1>3

LEMMA FirstOfThree ==
  ASSUME NEW a, NEW b, NEW c, NEW n \in 0 .. Len(<<a, b, c>>)
  PROVE  \/ n = 0 /\ Camera!ToSet(SubSeq(<<a, b, c>>, 1, n)) = {}
         \/ n = 1 /\ Camera!ToSet(SubSeq(<<a, b, c>>, 1, n)) = {a}
         \/ n = 2 /\ Camera!ToSet(SubSeq(<<a, b, c>>, 1, n)) = {a, b}
         \/ n = 3 /\ Camera!ToSet(SubSeq(<<a, b, c>>, 1, n)) = {a, b, c}
<1>1. n \in 0 .. 3
  OBVIOUS
<1>2. <<a, b, c>> \in Seq({a, b, c})
  OBVIOUS
<1>3. Camera!ToSet(SubSeq(<<a, b, c>>, 1, n)) = {<<a, b, c>>[i] : i \in 1 .. n}
  BY <1>2, FirstElements
<1> QED
  BY <1>1, <1>3

\* Each step of open leaves what it should, whether or not the driver gave everything.
LEMMA OpeningSteps ==
  ASSUME CameraInv, Camera!Opening
  PROVE  CameraInv'
<1> USE DEF CameraInv, OpenTook, FlagsAreTrue, Supported,
            Camera!config, Sensors, PipesUp, IspUp, ChannelsUp, StreamsUp, InfersUp
<1>1. ASSUME Camera!InitSensor PROVE CameraInv'
  <2>1. \/ pc' = "idle" /\ UNCHANGED <<flags, held>>
        \/ /\ held' = held \cup {"sensor"} /\ flags' = flags \cup {"sensor"}
           /\ pc' \in {"init_system", "isp_exit"}
    <3>1. CASE Camera!Gets(<<"sensor">>, TRUE, "init_system") /\ "sensor" \in held'
      <4>1. PICK n \in 0 .. Len(<<"sensor">>) :
              /\ held' = held \cup Camera!ToSet(SubSeq(<<"sensor">>, 1, n))
              /\ flags' = flags \cup (Camera!ToSet(SubSeq(<<"sensor">>, 1, n)) \ {"flip"})
              /\ pc' \in {"init_system", "isp_exit"}
        BY <3>1 DEF Camera!Gets
      <4>2. "sensor" \notin held
        BY <1>1 DEF Camera!InitSensor
      <4> QED
        BY <3>1, <4>1, <4>2, FirstOfOne
    <3> QED
      BY <1>1, <3>1 DEF Camera!InitSensor
  <2>2. Camera!TypeOK'
    BY <1>1, <2>1, AllFacilities DEF Camera!InitSensor, Camera!TypeOK
  <2>3. OpenTook' /\ FlagsAreTrue' /\ Supported'
    BY <1>1, <2>1 DEF Camera!InitSensor
  <2> QED
    BY <2>2, <2>3
<1>2. ASSUME Camera!InitSystem PROVE CameraInv'
  <2>1. PICK n \in 0 .. Len(<<>>) :
          /\ held' = held \cup Camera!ToSet(SubSeq(<<>>, 1, n))
          /\ flags' = flags \cup (Camera!ToSet(SubSeq(<<>>, 1, n)) \ {"flip"})
          /\ \/ n = Len(<<>>) /\ pc' = "start_sensor"
             \/ pc' = "isp_exit"
    BY <1>2 DEF Camera!InitSystem, Camera!Gets
  <2>2. \E got \in {{}} :
          /\ held' = held \cup got /\ flags' = flags \cup (got \ {"flip"})
          /\ \/ got = {} /\ pc' = "start_sensor"
             \/ pc' = "isp_exit"
    BY <2>1, FirstOfNone
  <2>3. Camera!TypeOK'
    BY <1>2, <2>2, AllFacilities DEF Camera!InitSystem, Camera!TypeOK
  <2>4. OpenTook'
    BY <1>2, <2>2 DEF Camera!InitSystem
  <2>5. FlagsAreTrue' /\ Supported'
    BY <1>2, <2>2 DEF Camera!InitSystem
  <2> QED
    BY <2>3, <2>4, <2>5
<1>3. ASSUME Camera!StartSensor PROVE CameraInv'
  <2>1. PICK n \in 0 .. Len(<<"vi", "callbacks">>) :
          /\ held' = held \cup Camera!ToSet(SubSeq(<<"vi", "callbacks">>, 1, n))
          /\ flags' = flags \cup (Camera!ToSet(SubSeq(<<"vi", "callbacks">>, 1, n)) \ {"flip"})
          /\ \/ n = Len(<<"vi", "callbacks">>) /\ pc' = "start_mipi"
             \/ pc' = "isp_exit"
    BY <1>3 DEF Camera!StartSensor, Camera!Gets
  <2>2. \E got \in {{}, {"vi"}, {"vi", "callbacks"}} :
          /\ held' = held \cup got /\ flags' = flags \cup (got \ {"flip"})
          /\ \/ got = {"vi", "callbacks"} /\ pc' = "start_mipi"
             \/ pc' = "isp_exit"
    BY <2>1, FirstOfTwo
  <2>3. Camera!TypeOK'
    BY <1>3, <2>2, AllFacilities DEF Camera!StartSensor, Camera!TypeOK
  <2>4. OpenTook'
    BY <1>3, <2>2 DEF Camera!StartSensor
  <2>5. FlagsAreTrue' /\ Supported'
    BY <1>3, <2>2 DEF Camera!StartSensor
  <2> QED
    BY <2>3, <2>4, <2>5
<1>4. ASSUME Camera!StartMipi PROVE CameraInv'
  <2>1. PICK n \in 0 .. Len(<<>>) :
          /\ held' = held \cup Camera!ToSet(SubSeq(<<>>, 1, n))
          /\ flags' = flags \cup (Camera!ToSet(SubSeq(<<>>, 1, n)) \ {"flip"})
          /\ \/ n = Len(<<>>) /\ pc' = "start_vi_dev"
             \/ pc' = "isp_exit"
    BY <1>4 DEF Camera!StartMipi, Camera!Gets
  <2>2. \E got \in {{}} :
          /\ held' = held \cup got /\ flags' = flags \cup (got \ {"flip"})
          /\ \/ got = {} /\ pc' = "start_vi_dev"
             \/ pc' = "isp_exit"
    BY <2>1, FirstOfNone
  <2>3. Camera!TypeOK'
    BY <1>4, <2>2, AllFacilities DEF Camera!StartMipi, Camera!TypeOK
  <2>4. OpenTook'
    BY <1>4, <2>2 DEF Camera!StartMipi
  <2>5. FlagsAreTrue' /\ Supported'
    BY <1>4, <2>2 DEF Camera!StartMipi
  <2> QED
    BY <2>3, <2>4, <2>5
<1>5. ASSUME Camera!StartViDev PROVE CameraInv'
  <2>1. PICK n \in 0 .. Len(<<"dev">>) :
          /\ held' = held \cup Camera!ToSet(SubSeq(<<"dev">>, 1, n))
          /\ flags' = flags \cup (Camera!ToSet(SubSeq(<<"dev">>, 1, n)) \ {"flip"})
          /\ \/ n = Len(<<"dev">>) /\ pc' = "start_vi_pipe"
             \/ pc' = "isp_exit"
    BY <1>5 DEF Camera!StartViDev, Camera!Gets
  <2>2. \E got \in {{}, {"dev"}} :
          /\ held' = held \cup got /\ flags' = flags \cup (got \ {"flip"})
          /\ \/ got = {"dev"} /\ pc' = "start_vi_pipe"
             \/ pc' = "isp_exit"
    BY <2>1, FirstOfOne
  <2>3. Camera!TypeOK'
    BY <1>5, <2>2, AllFacilities DEF Camera!StartViDev, Camera!TypeOK
  <2>4. OpenTook'
    BY <1>5, <2>2 DEF Camera!StartViDev
  <2>5. FlagsAreTrue' /\ Supported'
    BY <1>5, <2>2 DEF Camera!StartViDev
  <2> QED
    BY <2>3, <2>4, <2>5
<1>6. ASSUME Camera!StartViPipe PROVE CameraInv'
  <2>1. PICK n \in 0 .. Len(<<"pipe", "pipe_started">>) :
          /\ held' = held \cup Camera!ToSet(SubSeq(<<"pipe", "pipe_started">>, 1, n))
          /\ flags' = flags \cup (Camera!ToSet(SubSeq(<<"pipe", "pipe_started">>, 1, n)) \ {"flip"})
          /\ \/ n = Len(<<"pipe", "pipe_started">>) /\ pc' = "init_isp"
             \/ pc' = "isp_exit"
    BY <1>6 DEF Camera!StartViPipe, Camera!Gets
  <2>2. \E got \in {{}, {"pipe"}, {"pipe", "pipe_started"}} :
          /\ held' = held \cup got /\ flags' = flags \cup (got \ {"flip"})
          /\ \/ got = {"pipe", "pipe_started"} /\ pc' = "init_isp"
             \/ pc' = "isp_exit"
    BY <2>1, FirstOfTwo
  <2>3. Camera!TypeOK'
    BY <1>6, <2>2, AllFacilities DEF Camera!StartViPipe, Camera!TypeOK
  <2>4. OpenTook'
    BY <1>6, <2>2 DEF Camera!StartViPipe
  <2>5. FlagsAreTrue' /\ Supported'
    BY <1>6, <2>2 DEF Camera!StartViPipe
  <2> QED
    BY <2>3, <2>4, <2>5
<1>7. ASSUME Camera!InitIsp PROVE CameraInv'
  <2>1. PICK n \in 0 .. Len(<<"ae", "awb", "isp">>) :
          /\ held' = held \cup Camera!ToSet(SubSeq(<<"ae", "awb", "isp">>, 1, n))
          /\ flags' = flags \cup (Camera!ToSet(SubSeq(<<"ae", "awb", "isp">>, 1, n)) \ {"flip"})
          /\ \/ n = Len(<<"ae", "awb", "isp">>) /\ pc' = "start_isp"
             \/ pc' = "isp_exit"
    BY <1>7 DEF Camera!InitIsp, Camera!Gets
  <2>2. \E got \in {{}, {"ae"}, {"ae", "awb"}, {"ae", "awb", "isp"}} :
          /\ held' = held \cup got /\ flags' = flags \cup (got \ {"flip"})
          /\ \/ got = {"ae", "awb", "isp"} /\ pc' = "start_isp"
             \/ pc' = "isp_exit"
    BY <2>1, FirstOfThree
  <2>3. Camera!TypeOK'
    BY <1>7, <2>2, AllFacilities DEF Camera!InitIsp, Camera!TypeOK
  <2>4. OpenTook'
    BY <1>7, <2>2 DEF Camera!InitIsp
  <2>5. FlagsAreTrue' /\ Supported'
    BY <1>7, <2>2 DEF Camera!InitIsp
  <2> QED
    BY <2>3, <2>4, <2>5
<1>8. ASSUME Camera!StartIsp PROVE CameraInv'
  <2>1. PICK n \in 0 .. Len(<<"thread">>) :
          /\ held' = held \cup Camera!ToSet(SubSeq(<<"thread">>, 1, n))
          /\ flags' = flags \cup (Camera!ToSet(SubSeq(<<"thread">>, 1, n)) \ {"flip"})
          /\ \/ n = Len(<<"thread">>) /\ pc' = "start_vi_channel"
             \/ pc' = "isp_exit"
    BY <1>8 DEF Camera!StartIsp, Camera!Gets
  <2>2. \E got \in {{}, {"thread"}} :
          /\ held' = held \cup got /\ flags' = flags \cup (got \ {"flip"})
          /\ \/ got = {"thread"} /\ pc' = "start_vi_channel"
             \/ pc' = "isp_exit"
    BY <2>1, FirstOfOne
  <2>3. Camera!TypeOK'
    BY <1>8, <2>2, AllFacilities DEF Camera!StartIsp, Camera!TypeOK
  <2>4. OpenTook'
    BY <1>8, <2>2 DEF Camera!StartIsp
  <2>5. FlagsAreTrue' /\ Supported'
    BY <1>8, <2>2 DEF Camera!StartIsp
  <2> QED
    BY <2>3, <2>4, <2>5
<1>9. ASSUME Camera!StartViChannel PROVE CameraInv'
  <2>1. PICK n \in 0 .. Len(<<"flip", "vi_chn", "vi_pool">>) :
          /\ held' = held \cup Camera!ToSet(SubSeq(<<"flip", "vi_chn", "vi_pool">>, 1, n))
          /\ flags' = flags \cup (Camera!ToSet(SubSeq(<<"flip", "vi_chn", "vi_pool">>, 1, n)) \ {"flip"})
          /\ \/ n = Len(<<"flip", "vi_chn", "vi_pool">>) /\ pc' = "init_vpss"
             \/ pc' = "isp_exit"
    BY <1>9 DEF Camera!StartViChannel, Camera!Gets
  <2>2. \E got \in {{}, {"flip"}, {"flip", "vi_chn"}, {"flip", "vi_chn", "vi_pool"}} :
          /\ held' = held \cup got /\ flags' = flags \cup (got \ {"flip"})
          /\ \/ got = {"flip", "vi_chn", "vi_pool"} /\ pc' = "init_vpss"
             \/ pc' = "isp_exit"
    BY <2>1, FirstOfThree
  <2>3. Camera!TypeOK'
    BY <1>9, <2>2, AllFacilities DEF Camera!StartViChannel, Camera!TypeOK
  <2>4. OpenTook'
    BY <1>9, <2>2 DEF Camera!StartViChannel
  <2>5. FlagsAreTrue' /\ Supported'
    BY <1>9, <2>2 DEF Camera!StartViChannel
  <2> QED
    BY <2>3, <2>4, <2>5
<1>10. ASSUME Camera!InitVpss PROVE CameraInv'
  <2>1. PICK n \in 0 .. Len(<<"grp">>) :
          /\ held' = held \cup Camera!ToSet(SubSeq(<<"grp">>, 1, n))
          /\ flags' = flags \cup (Camera!ToSet(SubSeq(<<"grp">>, 1, n)) \ {"flip"})
          /\ \/ n = Len(<<"grp">>) /\ pc' = "setup_stream"
             \/ pc' = "isp_exit"
    BY <1>10 DEF Camera!InitVpss, Camera!Gets
  <2>2. \E got \in {{}, {"grp"}} :
          /\ held' = held \cup got /\ flags' = flags \cup (got \ {"flip"})
          /\ \/ got = {"grp"} /\ pc' = "setup_stream"
             \/ pc' = "isp_exit"
    BY <2>1, FirstOfOne
  <2>3. Camera!TypeOK'
    BY <1>10, <2>2, AllFacilities DEF Camera!InitVpss, Camera!TypeOK
  <2>4. OpenTook'
    BY <1>10, <2>2 DEF Camera!InitVpss
  <2>5. FlagsAreTrue' /\ Supported'
    BY <1>10, <2>2 DEF Camera!InitVpss
  <2> QED
    BY <2>3, <2>4, <2>5
<1>11. ASSUME Camera!SetupStream PROVE CameraInv'
  <2>1. PICK n \in 0 .. Len(<<"stream_chn", "stream_pool">>) :
          /\ held' = held \cup Camera!ToSet(SubSeq(<<"stream_chn", "stream_pool">>, 1, n))
          /\ flags' = flags \cup (Camera!ToSet(SubSeq(<<"stream_chn", "stream_pool">>, 1, n)) \ {"flip"})
          /\ \/ n = Len(<<"stream_chn", "stream_pool">>) /\ pc' = (IF infer THEN "setup_infer" ELSE "start_grp")
             \/ pc' = "isp_exit"
    BY <1>11 DEF Camera!SetupStream, Camera!Gets
  <2>2. \E got \in {{}, {"stream_chn"}, {"stream_chn", "stream_pool"}} :
          /\ held' = held \cup got /\ flags' = flags \cup (got \ {"flip"})
          /\ \/ got = {"stream_chn", "stream_pool"} /\ pc' = (IF infer THEN "setup_infer" ELSE "start_grp")
             \/ pc' = "isp_exit"
    BY <2>1, FirstOfTwo
  <2>3. Camera!TypeOK'
    BY <1>11, <2>2, AllFacilities DEF Camera!SetupStream, Camera!TypeOK
  <2>4. OpenTook'
    BY <1>11, <2>2 DEF Camera!SetupStream
  <2>5. FlagsAreTrue' /\ Supported'
    BY <1>11, <2>2 DEF Camera!SetupStream
  <2> QED
    BY <2>3, <2>4, <2>5
<1>12. ASSUME Camera!SetupInfer PROVE CameraInv'
  <2>1. PICK n \in 0 .. Len(<<"infer_chn", "infer_pool">>) :
          /\ held' = held \cup Camera!ToSet(SubSeq(<<"infer_chn", "infer_pool">>, 1, n))
          /\ flags' = flags \cup (Camera!ToSet(SubSeq(<<"infer_chn", "infer_pool">>, 1, n)) \ {"flip"})
          /\ \/ n = Len(<<"infer_chn", "infer_pool">>) /\ pc' = "start_grp"
             \/ pc' = "isp_exit"
    BY <1>12 DEF Camera!SetupInfer, Camera!Gets
  <2>2. \E got \in {{}, {"infer_chn"}, {"infer_chn", "infer_pool"}} :
          /\ held' = held \cup got /\ flags' = flags \cup (got \ {"flip"})
          /\ \/ got = {"infer_chn", "infer_pool"} /\ pc' = "start_grp"
             \/ pc' = "isp_exit"
    BY <2>1, FirstOfTwo
  <2>3. Camera!TypeOK'
    BY <1>12, <2>2, AllFacilities DEF Camera!SetupInfer, Camera!TypeOK
  <2>4. OpenTook'
    BY <1>12, <2>2 DEF Camera!SetupInfer
  <2>5. FlagsAreTrue' /\ Supported'
    BY <1>12, <2>2 DEF Camera!SetupInfer
  <2> QED
    BY <2>3, <2>4, <2>5
<1>13. ASSUME Camera!StartGrp PROVE CameraInv'
  <2>1. PICK n \in 0 .. Len(<<"grp_started">>) :
          /\ held' = held \cup Camera!ToSet(SubSeq(<<"grp_started">>, 1, n))
          /\ flags' = flags \cup (Camera!ToSet(SubSeq(<<"grp_started">>, 1, n)) \ {"flip"})
          /\ \/ n = Len(<<"grp_started">>) /\ pc' = "bind"
             \/ pc' = "isp_exit"
    BY <1>13 DEF Camera!StartGrp, Camera!Gets
  <2>2. \E got \in {{}, {"grp_started"}} :
          /\ held' = held \cup got /\ flags' = flags \cup (got \ {"flip"})
          /\ \/ got = {"grp_started"} /\ pc' = "bind"
             \/ pc' = "isp_exit"
    BY <2>1, FirstOfOne
  <2>3. Camera!TypeOK'
    BY <1>13, <2>2, AllFacilities DEF Camera!StartGrp, Camera!TypeOK
  <2>4. OpenTook'
    BY <1>13, <2>2 DEF Camera!StartGrp
  <2>5. FlagsAreTrue' /\ Supported'
    BY <1>13, <2>2 DEF Camera!StartGrp
  <2> QED
    BY <2>3, <2>4, <2>5
<1>14. ASSUME Camera!BindViVpss PROVE CameraInv'
  <2>1. PICK n \in 0 .. Len(<<"bound">>) :
          /\ held' = held \cup Camera!ToSet(SubSeq(<<"bound">>, 1, n))
          /\ flags' = flags \cup (Camera!ToSet(SubSeq(<<"bound">>, 1, n)) \ {"flip"})
          /\ \/ n = Len(<<"bound">>) /\ pc' = "idle"
             \/ pc' = "isp_exit"
    BY <1>14 DEF Camera!BindViVpss, Camera!Gets
  <2>2. \E got \in {{}, {"bound"}} :
          /\ held' = held \cup got /\ flags' = flags \cup (got \ {"flip"})
          /\ \/ got = {"bound"} /\ pc' = "idle"
             \/ pc' = "isp_exit"
    BY <2>1, FirstOfOne
  <2>3. Camera!TypeOK'
    BY <1>14, <2>2, AllFacilities DEF Camera!BindViVpss, Camera!TypeOK
  <2>4. OpenTook'
    <3>1. "bound" \notin held /\ "flip" \in held /\ pc = "bind"
      BY <1>14 DEF Camera!BindViVpss
    <3>2. opened' = ("bound" \in held')
      BY <1>14 DEF Camera!BindViVpss
    <3>3. infer' = infer
      BY <1>14 DEF Camera!BindViVpss
    <3>4. CASE held' = held /\ flags' = flags /\ pc' = "isp_exit"
      BY <3>4
    <3>5. CASE held' = held \cup {"bound"} /\ flags' = flags \cup {"bound"} /\ pc' \in {"idle", "isp_exit"}
      <4>1. opened'
        BY <3>2, <3>5
      <4> QED
        BY <4>1, <3>1, <3>3, <3>5
    <3> QED
      BY <2>2, <3>1, <3>4, <3>5
  <2>5. FlagsAreTrue' /\ Supported'
    BY <1>14, <2>2 DEF Camera!BindViVpss
  <2> QED
    BY <2>3, <2>4, <2>5
<1> QED
  BY <1>1, <1>2, <1>3, <1>4, <1>5, <1>6, <1>7, <1>8, <1>9, <1>10, <1>11, <1>12, <1>13, <1>14
     DEF Camera!Opening

\* What runs between open and cleanup, and beside them.
LEMMA OtherSteps ==
  ASSUME CameraInv, 
         Camera!OpenCamera \/ Camera!Release \/ Camera!IspThread \/ Camera!ReadFrame \/ Camera!ReturnFrame
           \/ (\E v \in Pads : Camera!SetInferPadValue(v)) \/ Camera!NewCamera
  PROVE  CameraInv'
<1> USE DEF CameraInv, Camera!TypeOK, OpenTook, FlagsAreTrue, Supported,
            Camera!config, Sensors, PipesUp, IspUp, ChannelsUp, StreamsUp, InfersUp
<1>1. CASE Camera!OpenCamera
  BY <1>1 DEF Camera!OpenCamera
<1>2. CASE Camera!Release
  BY <1>2 DEF Camera!Release
<1>3. CASE Camera!IspRuns
  BY <1>3 DEF Camera!IspRuns
<1>4. CASE Camera!IspEnds
  BY <1>4 DEF Camera!IspEnds
<1>5. CASE Camera!ReadFrame
  <2>1. lent' \in 0 .. Depth
    BY <1>5, ChannelsLend DEF Camera!ReadFrame, Camera!CameraAssumption
  <2> QED
    BY <1>5, <2>1 DEF Camera!ReadFrame
<1>6. CASE Camera!ReturnFrame
  <2>1. lent' \in 0 .. Depth
    BY <1>6, ChannelsLend DEF Camera!ReturnFrame, Camera!CameraAssumption
  <2> QED
    BY <1>6, <2>1 DEF Camera!ReturnFrame
<1>7. ASSUME NEW v \in Pads, Camera!SetInferPadValue(v) PROVE CameraInv'
  BY <1>7 DEF Camera!SetInferPadValue
<1>8. CASE Camera!NewCamera
  BY <1>8 DEF Camera!NewCamera
<1> QED
  BY <1>1, <1>2, <1>3, <1>4, <1>5, <1>6, <1>7, <1>8 DEF Camera!IspThread

(* One step of cleanup: what stands on the facility that goes comes before it *)
(* in the order, so it is gone.                                               *)
LEMMA UndoKeepsSupport ==
  ASSUME CameraInv, Camera!UndoStep
  PROVE  CameraInv'
<1> DEFINE S == Camera!UndoOrder
<1>1. PICK i \in DOMAIN Camera!UndoOrder :
        /\ Camera!UndoOrder[i] \in flags
        /\ \A j \in 1 .. i - 1 : Camera!UndoOrder[j] \notin flags
        /\ flags' = flags \ {Camera!UndoOrder[i]}
        /\ held' = held \ (IF Camera!UndoOrder[i] = "vi_chn" THEN {"vi_chn", "flip"} ELSE {Camera!UndoOrder[i]})
  BY DEF Camera!UndoStep
<1>2. i \in 1 .. 17
  BY <1>1 DEF Camera!UndoOrder
<1>3. pc = "undo" /\ pc' = "undo" /\ UNCHANGED <<Camera!config, chnPad, opened, foreign, isp, lent>>
  BY DEF Camera!UndoStep
<1>4. Camera!TypeOK' /\ OpenTook' /\ FlagsAreTrue'
  BY <1>1, <1>3 DEF CameraInv, Camera!TypeOK, OpenTook, FlagsAreTrue, Camera!config
<1>5. Supported'
  BY <1>1, <1>2, <1>3 DEF Camera!UndoOrder, CameraInv, FlagsAreTrue, Supported
<1> QED
  BY <1>4, <1>5 DEF CameraInv

\* Cleanup, step by step.
LEMMA CleaningSteps ==
  ASSUME CameraInv, Camera!Cleaning
  PROVE  CameraInv'
<1> USE DEF CameraInv, Camera!TypeOK, OpenTook, FlagsAreTrue, Supported,
            Camera!config, Sensors, PipesUp, IspUp, ChannelsUp, StreamsUp, InfersUp
<1>1. CASE Camera!ExitIsp
  BY <1>1 DEF Camera!ExitIsp
<1>2. CASE Camera!JoinIsp
  BY <1>2 DEF Camera!JoinIsp
<1>3. CASE Camera!CleanupEnds
  <2>1. pc = "undo" /\ flags = {} /\ pc' = "idle" /\ ~opened'
    BY <1>3 DEF Camera!CleanupEnds
  <2>2. UNCHANGED <<infer, pad, chnPad, flags, held, foreign, isp, lent>>
    BY <1>3 DEF Camera!CleanupEnds
  <2>3. {opened, foreign}' \subseteq BOOLEAN
    BY <1>3 DEF Camera!CleanupEnds
  <2>4. Camera!TypeOK'
    BY <2>1, <2>2, <2>3
  <2>5. OpenTook'
    BY <2>1, <2>2
  <2> QED
    BY <2>1, <2>2, <2>4, <2>5
<1> QED
  BY <1>1, <1>2, <1>3, UndoKeepsSupport DEF Camera!Cleaning

\* Every step of the camera keeps its invariant.
LEMMA CameraStep ==
  ASSUME CameraInv, Camera!Next
  PROVE  CameraInv'
BY OpeningSteps, OtherSteps, CleaningSteps DEF Camera!Next

\* What the invariant is for.
LEMMA CameraInvImplies == CameraInv => Camera!NothingStandsOnAir /\ Camera!AllOrNothing
<1> SUFFICES ASSUME CameraInv PROVE Camera!NothingStandsOnAir /\ Camera!AllOrNothing
  OBVIOUS
<1>1. ASSUME NEW x \in DOMAIN Camera!StandsOn, x \in held \/ (x = "runs" /\ isp = "running")
      PROVE  Camera!StandsOn[x] \subseteq held
  <2>1. x = "runs" => "thread" \in held
    BY <1>1, AllFacilities DEF CameraInv, Camera!TypeOK, FlagsAreTrue
  <2> QED
    BY <1>1, <2>1 DEF Camera!StandsOn, CameraInv, Supported
<1>2. Camera!AllOrNothing
  BY AllFacilities
     DEF Camera!AllOrNothing, CameraInv, Camera!TypeOK, OpenTook, FlagsAreTrue, Sensors, PipesUp, IspUp,
         ChannelsUp, StreamsUp, InfersUp
<1> QED
  BY <1>1, <1>2 DEF Camera!NothingStandsOnAir

\* The invariant holds while the camera runs.
THEOREM CameraInvariant == Spec => [](which = "camera" => CameraInv)
<1> DEFINE Inv == which = "camera" => CameraInv
<1>1. Init => Inv
  BY InitCamera DEF Init
<1>2. ASSUME Inv, [Next]_vars PROVE Inv'
  <2> SUFFICES ASSUME which' = "camera" PROVE CameraInv'
    OBVIOUS
  <2>1. CASE Camera!Next /\ which = "camera"
    BY <1>2, <2>1, CameraStep
  <2>2. CASE UNCHANGED Camera!vars /\ which = "camera"
    BY <1>2, <2>2
       DEF Camera!vars, CameraInv, Camera!TypeOK, OpenTook, FlagsAreTrue, Supported, Sensors, PipesUp, IspUp,
           ChannelsUp, StreamsUp, InfersUp
  <2>3. \/ Camera!Next /\ which = "camera"
        \/ UNCHANGED Camera!vars /\ which = "camera"
    <3>1. CASE Next
      BY <3>1 DEF Next
    <3>2. CASE UNCHANGED vars
      BY <3>2 DEF vars, shared, onlyCamera, Camera!vars
    <3> QED
      BY <1>2, <3>1, <3>2
  <2> QED
    BY <2>1, <2>2, <2>3
<1> QED
  BY <1>1, <1>2, PTL DEF Spec

-----------------------------------------------------------------------------
(* ParallelPipeline: stop() step by step, and the queue of results. *)

\* What is there while stop() is at each of its steps, whatever the threads do
\* meanwhile, and what a start that failed leaves.
TornDown ==
    /\ owner \notin {"idle", "stop"} => ~running
    /\ owner = "stop" => running
    /\ owner = "camera" \/ (owner = "idle" /\ ~running) => stream = "none" /\ infer = "none" /\ audio = "none"
    /\ owner \in {"join", "camera"} \/ (owner = "idle" /\ ~running) => capture = "none" /\ ~pcm
    /\ owner \notin {"idle", "stop", "rtsp"} \/ (owner = "idle" /\ ~running /\ ~unclean) => served = {}
    /\ owner \in {"stop", "rtsp", "shutdown"} \/ (owner = "idle" /\ running) => "initialized" \in venc
    /\ owner \in {"encoder", "stop_audio", "join", "camera"} \/ (owner = "idle" /\ ~running /\ ~unclean)
         => chn = {}
    /\ owner \in {"join", "camera"} \/ (owner = "idle" /\ ~running /\ ~unclean) => "audio" \notin live
    /\ infer # "none" => runs > 0

\* No result is of a run to come.
NoneIsAhead == \A i \in DOMAIN results : results[i].run <= runs

\* What is counted, and what the consumer will get.
Counted ==
    /\ heard \in 0 .. AudioSize /\ pushed \in 0 .. MaxResults /\ runs \in 0 .. MaxRuns
    /\ results \in Seq([run : 1 .. MaxRuns, no : 1 .. MaxResults])

PipelineInv == Pipeline!TypeOK /\ TornDown /\ NoneIsAhead /\ Pipeline!NewestAreKept

\* A new pipeline.
LEMMA InitPipeline == Pipeline!Init => PipelineInv
<1> SUFFICES ASSUME Pipeline!Init PROVE PipelineInv
  OBVIOUS
<1>1. heard \in 0 .. AudioSize /\ pushed \in 0 .. MaxResults /\ runs \in 0 .. MaxRuns
  BY QueuesHold DEF Pipeline!Init, Pipeline!PipelineAssumption
<1>2. Pipeline!TypeOK
  <2>1. results \in Seq([run : 1 .. MaxRuns, no : 1 .. MaxResults])
    BY DEF Pipeline!Init
  <2>2. {running, stopping, pcm, capturing, unclean, broken} \subseteq BOOLEAN
    BY DEF Pipeline!Init
  <2> QED
    BY <1>1, <2>1, <2>2 DEF Pipeline!Init, Pipeline!TypeOK
<1>3. TornDown
  BY DEF Pipeline!Init, TornDown
<1>4. NoneIsAhead /\ Pipeline!NewestAreKept
  BY DEF Pipeline!Init, NoneIsAhead, Pipeline!NewestAreKept
<1> QED
  BY <1>2, <1>3, <1>4 DEF PipelineInv

\* Whatever a start leaves and whatever the threads do, stop() finds what it takes away.
LEMMA StopTearsDown ==
  ASSUME Pipeline!TypeOK, TornDown, Pipeline!Next
  PROVE  TornDown'
<1> USE DEF Pipeline!TypeOK, TornDown,
            Pipeline!threads, Pipeline!encoder, Pipeline!sound, Pipeline!control, Pipeline!unseen
<1>1. ASSUME NEW f \in Pipeline!Failures, NEW h \in {"ok", "stopFails", "bindFails", "recvFails"},
             Pipeline!Start(f, h)
      PROVE  TornDown'
  <2>1. owner = "idle" /\ ~running /\ runs' > 0
    <3>1. runs' = runs + 1
      BY <1>1 DEF Pipeline!Start
    <3> QED
      BY <1>1, <3>1 DEF Pipeline!Start
  <2>2. CASE f \in {"encoder", "bind", "camera", "rtsp"}
    <3>1. /\ owner' = owner /\ ~running' /\ unclean' = unclean
          /\ UNCHANGED <<stream, infer, audio, capture, pcm>>
      BY <1>1, <2>2, <2>1 DEF Pipeline!Start, Pipeline!threads, Pipeline!sound
    <3>2. served' \in {served, {}}
      BY <1>1, <2>2 DEF Pipeline!Start, Pipeline!StartRtsp
    <3>3. chn' = {}
      BY <1>1, <2>2
         DEF Pipeline!Start, Pipeline!Encoded, Pipeline!BindToVpss, Pipeline!InitEncoder,
             Pipeline!CreateChannel, Pipeline!StartRecv, Pipeline!Channel, Pipeline!Shutdown
    <3>4. "audio" \in live' => "audio" \in live
      BY <1>1, <2>2 DEF Pipeline!Start, Pipeline!Built
    <3> QED
      BY <2>1, <3>1, <3>2, <3>3, <3>4
  <2>3. CASE f = "audio"
    <3>1. owner' = owner /\ ~running' /\ unclean'
      BY <1>1, <2>3, <2>1 DEF Pipeline!Start
    <3>2. /\ UNCHANGED <<stream, infer, audio>>
          /\ capture' = "none" /\ ~pcm'
      BY <1>1, <2>3 DEF Pipeline!Start, Pipeline!threads, Pipeline!StartCapture, Pipeline!OpenDevice
    <3> QED
      BY <2>1, <3>1, <3>2
  <2>4. CASE f \in {"ready", "not"}
    <3>1. running' /\ owner' \in {"stop", "idle"}
      BY <1>1, <2>4 DEF Pipeline!Start
    <3>2. "initialized" \in venc'
      BY <1>1, <2>4
         DEF Pipeline!Start, Pipeline!Encoded, Pipeline!BindToVpss, Pipeline!InitEncoder,
             Pipeline!CreateChannel, Pipeline!StartRecv, Pipeline!Channel
    <3> QED
      BY <2>1, <3>1, <3>2
  <2> QED
    BY <2>2, <2>3, <2>4 DEF Pipeline!Failures
<1>2. ASSUME Pipeline!StopSignal PROVE TornDown'
  BY <1>2 DEF Pipeline!StopSignal
<1>3. ASSUME Pipeline!StopRtsp PROVE TornDown'
  BY <1>3 DEF Pipeline!StopRtsp, Pipeline!TakeAway
<1>4. ASSUME Pipeline!ShutdownEncoder PROVE TornDown'
  BY <1>4 DEF Pipeline!ShutdownEncoder, Pipeline!Shutdown, Pipeline!Channel
<1>5. ASSUME Pipeline!ResetEncoder PROVE TornDown'
  BY <1>5 DEF Pipeline!ResetEncoder, Pipeline!TakeAway
<1>6. ASSUME Pipeline!StopCapture PROVE TornDown'
  BY <1>6 DEF Pipeline!StopCapture
<1>7. ASSUME Pipeline!CloseCapture PROVE TornDown'
  BY <1>7 DEF Pipeline!CloseCapture, Pipeline!TakeAway
<1>8. ASSUME Pipeline!Join PROVE TornDown'
  BY <1>8 DEF Pipeline!Join
<1>9. ASSUME Pipeline!ReleaseCamera PROVE TornDown'
  BY <1>9 DEF Pipeline!ReleaseCamera, Pipeline!TakeAway
<1>10. ASSUME Pipeline!StreamTop PROVE TornDown'
  BY <1>10 DEF Pipeline!StreamTop, Pipeline!Enter
<1>11. ASSUME Pipeline!GetNoStream PROVE TornDown'
  BY <1>11 DEF Pipeline!GetNoStream
<1>12. ASSUME Pipeline!GetStream PROVE TornDown'
  BY <1>12 DEF Pipeline!GetStream
<1>13. ASSUME Pipeline!SendVideo PROVE TornDown'
  BY <1>13 DEF Pipeline!SendVideo
<1>14. ASSUME Pipeline!EnterRelease PROVE TornDown'
  BY <1>14 DEF Pipeline!EnterRelease
<1>15. ASSUME Pipeline!ReleaseStream PROVE TornDown'
  BY <1>15 DEF Pipeline!ReleaseStream
<1>16. ASSUME Pipeline!InferTop PROVE TornDown'
  BY <1>16 DEF Pipeline!InferTop, Pipeline!Enter
<1>17. ASSUME NEW got \in BOOLEAN, Pipeline!ReadCamera(got) PROVE TornDown'
  BY <1>17 DEF Pipeline!ReadCamera
<1>18. ASSUME Pipeline!PushResult PROVE TornDown'
  BY <1>18 DEF Pipeline!PushResult
<1>19. ASSUME Pipeline!NoResult PROVE TornDown'
  BY <1>19 DEF Pipeline!NoResult
<1>20. ASSUME Pipeline!AudioTop PROVE TornDown'
  BY <1>20 DEF Pipeline!AudioTop
<1>21. ASSUME Pipeline!GetNoFrame PROVE TornDown'
  BY <1>21 DEF Pipeline!GetNoFrame
<1>22. ASSUME Pipeline!GetFrame PROVE TornDown'
  BY <1>22 DEF Pipeline!GetFrame
<1>23. ASSUME Pipeline!SendAudio PROVE TornDown'
  BY <1>23 DEF Pipeline!SendAudio
<1>24. ASSUME Pipeline!CaptureChunk PROVE TornDown'
  BY <1>24 DEF Pipeline!CaptureChunk
<1>25. ASSUME Pipeline!CaptureEnds PROVE TornDown'
  BY <1>25 DEF Pipeline!CaptureEnds
<1>26. ASSUME Pipeline!PopResult PROVE TornDown'
  BY <1>26 DEF Pipeline!PopResult
<1> QED
  BY <1>1, <1>2, <1>3, <1>4, <1>5, <1>6, <1>7, <1>8, <1>9, <1>10, <1>11, <1>12, <1>13, <1>14, <1>15, <1>16,
     <1>17, <1>18, <1>19, <1>20, <1>21, <1>22, <1>23, <1>24, <1>25, <1>26
     DEF Pipeline!Next, Pipeline!OwnerStep, Pipeline!Stream, Pipeline!Infer, Pipeline!Audio

\* The types of what is not counted.
LEMMA PipelineTypes ==
  ASSUME Pipeline!TypeOK, Counted', Pipeline!Next
  PROVE  Pipeline!TypeOK'
<1> USE DEF Pipeline!TypeOK, Counted,
            Pipeline!threads, Pipeline!encoder, Pipeline!sound, Pipeline!control, Pipeline!unseen
<1>1. ASSUME NEW f \in Pipeline!Failures, NEW h \in {"ok", "stopFails", "bindFails", "recvFails"},
             Pipeline!Start(f, h)
      PROVE  Pipeline!TypeOK'
  <2>1. {running, stopping, pcm, capturing, unclean, broken}' \subseteq BOOLEAN
    BY <1>1 DEF Pipeline!Start, Pipeline!StartCapture, Pipeline!OpenDevice
  <2>2. live' \subseteq Pipeline!Objects /\ served' \subseteq {"context", "session", "listener"}
    BY <1>1 DEF Pipeline!Start, Pipeline!Built, Pipeline!Objects, Pipeline!StartRtsp
  <2>3. /\ chn' \subseteq {"made", "receiving", "bound"}
        /\ venc' \subseteq {"initialized", "receiving", "bound", "acquired"}
    BY <1>1
       DEF Pipeline!Start, Pipeline!Encoded, Pipeline!BindToVpss, Pipeline!InitEncoder,
           Pipeline!CreateChannel, Pipeline!StartRecv, Pipeline!Channel, Pipeline!Shutdown
  <2>4. /\ owner' \in {"idle", "stop"} /\ stream' \in {stream, "top"} /\ infer' \in {infer, "top"}
        /\ audio' \in {audio, "top"} /\ capture' \in {capture, "none", "reading"}
    BY <1>1 DEF Pipeline!Start, Pipeline!StartCapture
  <2> QED
    BY <2>1, <2>2, <2>3, <2>4
<1>2. ASSUME Pipeline!StopSignal PROVE Pipeline!TypeOK'
  BY <1>2 DEF Pipeline!StopSignal
<1>3. ASSUME Pipeline!StopRtsp PROVE Pipeline!TypeOK'
  BY <1>3 DEF Pipeline!StopRtsp, Pipeline!TakeAway
<1>4. ASSUME Pipeline!ShutdownEncoder PROVE Pipeline!TypeOK'
  BY <1>4 DEF Pipeline!ShutdownEncoder, Pipeline!Shutdown, Pipeline!Channel
<1>5. ASSUME Pipeline!ResetEncoder PROVE Pipeline!TypeOK'
  BY <1>5 DEF Pipeline!ResetEncoder, Pipeline!TakeAway
<1>6. ASSUME Pipeline!StopCapture PROVE Pipeline!TypeOK'
  BY <1>6 DEF Pipeline!StopCapture
<1>7. ASSUME Pipeline!CloseCapture PROVE Pipeline!TypeOK'
  BY <1>7 DEF Pipeline!CloseCapture, Pipeline!TakeAway
<1>8. ASSUME Pipeline!Join PROVE Pipeline!TypeOK'
  BY <1>8 DEF Pipeline!Join
<1>9. ASSUME Pipeline!ReleaseCamera PROVE Pipeline!TypeOK'
  BY <1>9 DEF Pipeline!ReleaseCamera, Pipeline!TakeAway
<1>10. ASSUME Pipeline!StreamTop PROVE Pipeline!TypeOK'
  BY <1>10 DEF Pipeline!StreamTop, Pipeline!Enter
<1>11. ASSUME Pipeline!GetNoStream PROVE Pipeline!TypeOK'
  BY <1>11 DEF Pipeline!GetNoStream
<1>12. ASSUME Pipeline!GetStream PROVE Pipeline!TypeOK'
  BY <1>12 DEF Pipeline!GetStream
<1>13. ASSUME Pipeline!SendVideo PROVE Pipeline!TypeOK'
  BY <1>13 DEF Pipeline!SendVideo
<1>14. ASSUME Pipeline!EnterRelease PROVE Pipeline!TypeOK'
  BY <1>14 DEF Pipeline!EnterRelease
<1>15. ASSUME Pipeline!ReleaseStream PROVE Pipeline!TypeOK'
  BY <1>15 DEF Pipeline!ReleaseStream
<1>16. ASSUME Pipeline!InferTop PROVE Pipeline!TypeOK'
  BY <1>16 DEF Pipeline!InferTop, Pipeline!Enter
<1>17. ASSUME NEW got \in BOOLEAN, Pipeline!ReadCamera(got) PROVE Pipeline!TypeOK'
  BY <1>17 DEF Pipeline!ReadCamera
<1>18. ASSUME Pipeline!PushResult PROVE Pipeline!TypeOK'
  BY <1>18 DEF Pipeline!PushResult
<1>19. ASSUME Pipeline!NoResult PROVE Pipeline!TypeOK'
  BY <1>19 DEF Pipeline!NoResult
<1>20. ASSUME Pipeline!AudioTop PROVE Pipeline!TypeOK'
  BY <1>20 DEF Pipeline!AudioTop
<1>21. ASSUME Pipeline!GetNoFrame PROVE Pipeline!TypeOK'
  BY <1>21 DEF Pipeline!GetNoFrame
<1>22. ASSUME Pipeline!GetFrame PROVE Pipeline!TypeOK'
  BY <1>22 DEF Pipeline!GetFrame
<1>23. ASSUME Pipeline!SendAudio PROVE Pipeline!TypeOK'
  BY <1>23 DEF Pipeline!SendAudio
<1>24. ASSUME Pipeline!CaptureChunk PROVE Pipeline!TypeOK'
  BY <1>24 DEF Pipeline!CaptureChunk
<1>25. ASSUME Pipeline!CaptureEnds PROVE Pipeline!TypeOK'
  BY <1>25 DEF Pipeline!CaptureEnds
<1>26. ASSUME Pipeline!PopResult PROVE Pipeline!TypeOK'
  BY <1>26 DEF Pipeline!PopResult
<1> QED
  BY <1>1, <1>2, <1>3, <1>4, <1>5, <1>6, <1>7, <1>8, <1>9, <1>10, <1>11, <1>12, <1>13, <1>14, <1>15, <1>16,
     <1>17, <1>18, <1>19, <1>20, <1>21, <1>22, <1>23, <1>24, <1>25, <1>26
     DEF Pipeline!Next, Pipeline!OwnerStep, Pipeline!Stream, Pipeline!Infer, Pipeline!Audio

\* A result is appended behind the newest ones, and the oldest one goes.
LEMMA ResultsAreKept ==
  ASSUME Counted, TornDown, NoneIsAhead, Pipeline!NewestAreKept, Pipeline!Next
  PROVE  (Counted /\ NoneIsAhead /\ Pipeline!NewestAreKept)'
<1> USE DEF Counted,
            Pipeline!threads, Pipeline!encoder, Pipeline!sound, Pipeline!control, Pipeline!unseen
<1>1. ASSUME NEW f \in Pipeline!Failures, NEW h \in {"ok", "stopFails", "bindFails", "recvFails"},
             Pipeline!Start(f, h)
      PROVE  (Counted /\ NoneIsAhead /\ Pipeline!NewestAreKept)'
  <2>1. /\ ~running /\ runs < MaxRuns /\ runs' = runs + 1 /\ results' = results
        /\ pushed' \in {pushed, 0} /\ heard' \in {heard, 0}
    BY <1>1
       DEF Pipeline!Start, Pipeline!Failures, Pipeline!Objects, Pipeline!Built, Pipeline!Encoded,
           Pipeline!BindToVpss, Pipeline!InitEncoder, Pipeline!CreateChannel, Pipeline!StartRecv,
           Pipeline!Channel, Pipeline!Shutdown, Pipeline!StartRtsp, Pipeline!StartCapture, Pipeline!OpenDevice
  <2>2. runs' \in 0 .. MaxRuns /\ runs \in Nat /\ runs < runs'
    BY <2>1, QueuesHold DEF Pipeline!PipelineAssumption
  <2>3. ASSUME NEW i \in DOMAIN results'
        PROVE  results'[i].run <= runs' /\ results'[i].run # runs'
    <3>1. i \in DOMAIN results /\ results'[i] = results[i]
      BY <2>1
    <3>2. results[i] \in [run : 1 .. MaxRuns, no : 1 .. MaxResults]
      <4>1. results \in Seq([run : 1 .. MaxRuns, no : 1 .. MaxResults]) /\ i \in 1 .. Len(results)
        BY <3>1
      <4> QED
        BY ONLY <4>1, ElementOfSeq
    <3>3. results[i].run \in 1 .. MaxRuns
      BY <3>2
    <3>4. results[i].run <= runs
      BY <3>1 DEF NoneIsAhead
    <3> QED
      BY <2>2, <3>1, <3>3, <3>4
  <2>4. Counted'
    BY <2>1, <2>2, QueuesHold DEF Pipeline!PipelineAssumption
  <2> QED
    BY <2>3, <2>4 DEF NoneIsAhead, Pipeline!NewestAreKept
<1>2. ASSUME Pipeline!StopSignal PROVE (Counted /\ NoneIsAhead /\ Pipeline!NewestAreKept)'
  BY <1>2 DEF Pipeline!StopSignal, NoneIsAhead, Pipeline!NewestAreKept
<1>3. ASSUME Pipeline!StopRtsp PROVE (Counted /\ NoneIsAhead /\ Pipeline!NewestAreKept)'
  BY <1>3 DEF Pipeline!StopRtsp, Pipeline!TakeAway, NoneIsAhead, Pipeline!NewestAreKept
<1>4. ASSUME Pipeline!ShutdownEncoder PROVE (Counted /\ NoneIsAhead /\ Pipeline!NewestAreKept)'
  BY <1>4 DEF Pipeline!ShutdownEncoder, Pipeline!Shutdown, Pipeline!Channel, NoneIsAhead, Pipeline!NewestAreKept
<1>5. ASSUME Pipeline!ResetEncoder PROVE (Counted /\ NoneIsAhead /\ Pipeline!NewestAreKept)'
  BY <1>5 DEF Pipeline!ResetEncoder, Pipeline!TakeAway, NoneIsAhead, Pipeline!NewestAreKept
<1>6. ASSUME Pipeline!StopCapture PROVE (Counted /\ NoneIsAhead /\ Pipeline!NewestAreKept)'
  BY <1>6 DEF Pipeline!StopCapture, NoneIsAhead, Pipeline!NewestAreKept
<1>7. ASSUME Pipeline!CloseCapture PROVE (Counted /\ NoneIsAhead /\ Pipeline!NewestAreKept)'
  <2>0. heard' = 0
    BY <1>7 DEF Pipeline!CloseCapture
  <2>1. heard' \in 0 .. AudioSize
    BY <2>0, QueuesHold DEF Pipeline!PipelineAssumption
  <2> QED
    BY <1>7, <2>1 DEF Pipeline!CloseCapture, Pipeline!TakeAway, NoneIsAhead, Pipeline!NewestAreKept
<1>8. ASSUME Pipeline!Join PROVE (Counted /\ NoneIsAhead /\ Pipeline!NewestAreKept)'
  BY <1>8 DEF Pipeline!Join, NoneIsAhead, Pipeline!NewestAreKept
<1>9. ASSUME Pipeline!ReleaseCamera PROVE (Counted /\ NoneIsAhead /\ Pipeline!NewestAreKept)'
  BY <1>9 DEF Pipeline!ReleaseCamera, Pipeline!TakeAway, NoneIsAhead, Pipeline!NewestAreKept
<1>10. ASSUME Pipeline!StreamTop PROVE (Counted /\ NoneIsAhead /\ Pipeline!NewestAreKept)'
  BY <1>10 DEF Pipeline!StreamTop, Pipeline!Enter, NoneIsAhead, Pipeline!NewestAreKept
<1>11. ASSUME Pipeline!GetNoStream PROVE (Counted /\ NoneIsAhead /\ Pipeline!NewestAreKept)'
  BY <1>11 DEF Pipeline!GetNoStream, NoneIsAhead, Pipeline!NewestAreKept
<1>12. ASSUME Pipeline!GetStream PROVE (Counted /\ NoneIsAhead /\ Pipeline!NewestAreKept)'
  BY <1>12 DEF Pipeline!GetStream, NoneIsAhead, Pipeline!NewestAreKept
<1>13. ASSUME Pipeline!SendVideo PROVE (Counted /\ NoneIsAhead /\ Pipeline!NewestAreKept)'
  BY <1>13 DEF Pipeline!SendVideo, NoneIsAhead, Pipeline!NewestAreKept
<1>14. ASSUME Pipeline!EnterRelease PROVE (Counted /\ NoneIsAhead /\ Pipeline!NewestAreKept)'
  BY <1>14 DEF Pipeline!EnterRelease, NoneIsAhead, Pipeline!NewestAreKept
<1>15. ASSUME Pipeline!ReleaseStream PROVE (Counted /\ NoneIsAhead /\ Pipeline!NewestAreKept)'
  BY <1>15 DEF Pipeline!ReleaseStream, NoneIsAhead, Pipeline!NewestAreKept
<1>16. ASSUME Pipeline!InferTop PROVE (Counted /\ NoneIsAhead /\ Pipeline!NewestAreKept)'
  BY <1>16 DEF Pipeline!InferTop, Pipeline!Enter, NoneIsAhead, Pipeline!NewestAreKept
<1>17. ASSUME NEW got \in BOOLEAN, Pipeline!ReadCamera(got)
       PROVE  (Counted /\ NoneIsAhead /\ Pipeline!NewestAreKept)'
  BY <1>17 DEF Pipeline!ReadCamera, NoneIsAhead, Pipeline!NewestAreKept
<1>18. ASSUME Pipeline!PushResult PROVE (Counted /\ NoneIsAhead /\ Pipeline!NewestAreKept)'
  <2>1. /\ infer = "holding" /\ pushed < MaxResults /\ pushed' = pushed + 1 
        /\ runs' = runs /\ running' = running /\ heard' = heard
    BY <1>18 DEF Pipeline!PushResult
  <2>2. runs \in 1 .. MaxRuns
    <3>1. runs > 0
      BY <2>1 DEF TornDown
    <3> QED
      BY <3>1
  <2>3. pushed' \in 1 .. MaxResults
    BY <2>1, QueuesHold DEF Pipeline!PipelineAssumption
  <2> DEFINE kept == IF Len(results) >= QueueSize THEN Tail(results) ELSE results
             gone == IF Len(results) >= QueueSize THEN 1 ELSE 0
             new == [run |-> runs, no |-> pushed']
  <2>4. /\ kept \in Seq([run : 1 .. MaxRuns, no : 1 .. MaxResults]) /\ Len(kept) = Len(results) - gone
        /\ \A i \in 1 .. Len(kept) : kept[i] = results[i + gone]
    <3>1. CASE Len(results) >= QueueSize
      <4>1. results # <<>>
        BY <3>1, QueuesHold DEF Pipeline!PipelineAssumption
      <4> QED
        BY <3>1, <4>1
    <3>2. CASE ~(Len(results) >= QueueSize)
      BY <3>2
    <3> QED
      BY <3>1, <3>2
  <2>5. gone \in {0, 1}
    OBVIOUS
  <2>6. new \in [run : 1 .. MaxRuns, no : 1 .. MaxResults]
    BY <2>2, <2>3
  <2>7. results' = Append(kept, new)
    BY <1>18 DEF Pipeline!PushResult
  <2> HIDE DEF kept, gone
  <2>8. /\ results' \in Seq([run : 1 .. MaxRuns, no : 1 .. MaxResults]) /\ Len(results') = Len(kept) + 1
        /\ \A i \in 1 .. Len(kept) : results'[i] = results[i + gone]
        /\ results'[Len(kept) + 1] = new
    BY <2>4, <2>6, <2>7
  <2>9. ASSUME NEW i \in DOMAIN results'
        PROVE  /\ results'[i].run <= runs
               /\ results'[i].run = runs /\ running => results'[i].no = pushed' - Len(results') + i
    <3>1. i \in 1 .. Len(kept) + 1 /\ Len(kept) \in Nat
      BY <2>4, <2>8
    <3>2. CASE i = Len(kept) + 1
      <4>1. results'[i] = new /\ new.run = runs /\ new.no = pushed'
        BY <3>2, <2>8
      <4> QED
        BY <4>1, <3>1, <3>2, <2>2, <2>3, <2>8
    <3>3. CASE i \in 1 .. Len(kept)
      <4>0. Len(results) \in Nat /\ DOMAIN results = 1 .. Len(results)
        OBVIOUS
      <4>1. Len(kept) = Len(results) - gone
        BY <2>4
      <4>2. i + gone \in 1 .. Len(results)
        BY ONLY <3>3, <4>1, <2>5, <4>0
      <4>3. results'[i] = results[i + gone] /\ i + gone \in DOMAIN results
        BY <3>3, <2>8, <4>2, <4>0
      <4>4. pushed' - Len(results') + i = pushed - Len(results) + (i + gone)
        <5>1. pushed' = pushed + 1 /\ pushed \in Nat
          BY <2>1
        <5>2. Len(results') = Len(kept) + 1
          BY <2>8
        <5> QED
          BY ONLY <5>1, <5>2, <4>0, <4>1, <2>5, <3>1
      <4> QED
        BY <4>3, <4>4 DEF NoneIsAhead, Pipeline!NewestAreKept
    <3> QED
      BY <3>1, <3>2, <3>3
  <2>10. Counted'
    BY <2>1, <2>2, <2>3, <2>8 DEF Counted
  <2>11. NoneIsAhead' /\ Pipeline!NewestAreKept'
    BY <2>1, <2>9 DEF NoneIsAhead, Pipeline!NewestAreKept
  <2> QED
    BY <2>10, <2>11
<1>19. ASSUME Pipeline!NoResult PROVE (Counted /\ NoneIsAhead /\ Pipeline!NewestAreKept)'
  BY <1>19 DEF Pipeline!NoResult, NoneIsAhead, Pipeline!NewestAreKept
<1>20. ASSUME Pipeline!AudioTop PROVE (Counted /\ NoneIsAhead /\ Pipeline!NewestAreKept)'
  BY <1>20 DEF Pipeline!AudioTop, NoneIsAhead, Pipeline!NewestAreKept
<1>21. ASSUME Pipeline!GetNoFrame PROVE (Counted /\ NoneIsAhead /\ Pipeline!NewestAreKept)'
  BY <1>21 DEF Pipeline!GetNoFrame, NoneIsAhead, Pipeline!NewestAreKept
<1>22. ASSUME Pipeline!GetFrame PROVE (Counted /\ NoneIsAhead /\ Pipeline!NewestAreKept)'
  <2>1. heard' = heard - 1 /\ heard > 0
    BY <1>22 DEF Pipeline!GetFrame
  <2>2. heard' \in 0 .. AudioSize
    BY <2>1, QueuesHold DEF Pipeline!PipelineAssumption
  <2> QED
    BY <1>22, <2>2 DEF Pipeline!GetFrame, NoneIsAhead, Pipeline!NewestAreKept
<1>23. ASSUME Pipeline!SendAudio PROVE (Counted /\ NoneIsAhead /\ Pipeline!NewestAreKept)'
  BY <1>23 DEF Pipeline!SendAudio, NoneIsAhead, Pipeline!NewestAreKept
<1>24. ASSUME Pipeline!CaptureChunk PROVE (Counted /\ NoneIsAhead /\ Pipeline!NewestAreKept)'
  <2>1. heard' \in {heard, IF heard < AudioSize THEN heard + 1 ELSE heard}
    BY <1>24 DEF Pipeline!CaptureChunk
  <2>2. heard' \in 0 .. AudioSize
    BY <2>1, QueuesHold DEF Pipeline!PipelineAssumption
  <2> QED
    BY <1>24, <2>2 DEF Pipeline!CaptureChunk, NoneIsAhead, Pipeline!NewestAreKept
<1>25. ASSUME Pipeline!CaptureEnds PROVE (Counted /\ NoneIsAhead /\ Pipeline!NewestAreKept)'
  BY <1>25 DEF Pipeline!CaptureEnds, NoneIsAhead, Pipeline!NewestAreKept
<1>26. ASSUME Pipeline!PopResult PROVE (Counted /\ NoneIsAhead /\ Pipeline!NewestAreKept)'
  <2>1. /\ results # <<>> /\ results' = Tail(results)
        /\ runs' = runs /\ running' = running /\ pushed' = pushed /\ heard' = heard
    BY <1>26 DEF Pipeline!PopResult
  <2>2. /\ results' \in Seq([run : 1 .. MaxRuns, no : 1 .. MaxResults]) /\ Len(results') = Len(results) - 1
        /\ \A i \in 1 .. Len(results') : results'[i] = results[i + 1] /\ i + 1 \in DOMAIN results
        /\ DOMAIN results' = 1 .. Len(results')
    BY <2>1
  <2>3. \A i \in DOMAIN results' : pushed' - Len(results') + i = pushed - Len(results) + (i + 1)
    BY <2>1, <2>2
  <2>4. NoneIsAhead'
    BY <2>1, <2>2 DEF NoneIsAhead
  <2>5. ASSUME NEW i \in DOMAIN results', results'[i].run = runs', running'
        PROVE  results'[i].no = pushed' - Len(results') + i
    <3>1. results[i + 1].no = pushed - Len(results) + (i + 1)
      BY <2>1, <2>2, <2>5 DEF Pipeline!NewestAreKept
    <3> QED
      BY <2>2, <2>3, <3>1
  <2>6. Counted'
    BY <2>1, <2>2
  <2> QED
    BY <2>4, <2>5, <2>6 DEF Pipeline!NewestAreKept
<1> QED
  BY <1>1, <1>2, <1>3, <1>4, <1>5, <1>6, <1>7, <1>8, <1>9, <1>10, <1>11, <1>12, <1>13, <1>14, <1>15, <1>16,
     <1>17, <1>18, <1>19, <1>20, <1>21, <1>22, <1>23, <1>24, <1>25, <1>26
     DEF Pipeline!Next, Pipeline!OwnerStep, Pipeline!Stream, Pipeline!Infer, Pipeline!Audio

\* Every step of the pipeline keeps its invariant.
LEMMA PipelineStep ==
  ASSUME PipelineInv, Pipeline!Next
  PROVE  PipelineInv'
<1>1. Counted
  BY DEF PipelineInv, Pipeline!TypeOK, Counted
<1>2. TornDown'
  BY StopTearsDown DEF PipelineInv
<1>3. Counted' /\ NoneIsAhead' /\ Pipeline!NewestAreKept'
  BY <1>1, ResultsAreKept DEF PipelineInv
<1>4. Pipeline!TypeOK'
  BY <1>3, PipelineTypes DEF PipelineInv
<1> QED
  BY <1>2, <1>3, <1>4 DEF PipelineInv

\* What the invariant is for.
LEMMA PipelineInvImplies == PipelineInv => Pipeline!NothingIsLeft
BY DEF PipelineInv, TornDown, Pipeline!NothingIsLeft

\* The invariant holds while the pipeline runs.
THEOREM PipelineInvariant == Spec => [](which = "pipeline" => PipelineInv)
<1> DEFINE Inv == which = "pipeline" => PipelineInv
<1>1. Init => Inv
  BY InitPipeline DEF Init
<1>2. ASSUME Inv, [Next]_vars PROVE Inv'
  <2> SUFFICES ASSUME which' = "pipeline" PROVE PipelineInv'
    OBVIOUS
  <2>1. CASE Pipeline!Next /\ which = "pipeline"
    BY <1>2, <2>1, PipelineStep
  <2>2. CASE UNCHANGED Pipeline!vars /\ which = "pipeline"
    <3>1. Pipeline!TypeOK'
      <4>1. {running, stopping, pcm, capturing, unclean, broken}' \subseteq BOOLEAN
        BY <1>2, <2>2 DEF Pipeline!vars, PipelineInv, Pipeline!TypeOK
      <4>2. UNCHANGED <<results, Pipeline!vars>>
        BY <2>2 DEF Pipeline!vars
      <4>3. results' \in Seq([run : 1 .. MaxRuns, no : 1 .. MaxResults])
        BY <1>2, <2>2, <4>2 DEF PipelineInv, Pipeline!TypeOK
      <4> QED
        BY <1>2, <2>2, <4>1, <4>3 DEF Pipeline!vars, PipelineInv, Pipeline!TypeOK
    <3>2. TornDown'
      BY <1>2, <2>2 DEF Pipeline!vars, PipelineInv, TornDown
    <3>3. NoneIsAhead' /\ Pipeline!NewestAreKept'
      BY <1>2, <2>2 DEF Pipeline!vars, PipelineInv, NoneIsAhead, Pipeline!NewestAreKept
    <3> QED
      BY <2>2, <3>1, <3>2, <3>3 DEF PipelineInv
  <2>3. \/ Pipeline!Next /\ which = "pipeline"
        \/ UNCHANGED Pipeline!vars /\ which = "pipeline"
    <3>1. CASE Next
      BY <3>1 DEF Next
    <3>2. CASE UNCHANGED vars
      BY <3>2 DEF vars, shared, onlyPipeline, Pipeline!vars
    <3> QED
      BY <1>2, <3>1, <3>2
  <2> QED
    BY <2>1, <2>2, <2>3
<1> QED
  BY <1>1, <1>2, PTL DEF Spec

-----------------------------------------------------------------------------
(* StreamNode: the node, the transport and the queue between their threads. *)

\* A set of numbers that is not empty has a smallest one.
LEMMA SmallestIndex ==
  ASSUME NEW I \in SUBSET Nat, I # {}
  PROVE  \E i \in I : \A j \in I : i <= j
<1>0. PICK i \in I : \A j \in I : ~ (<<j, i>> \in OpToRel(<, Nat))
  BY NatLessThanWellFounded, WFMin
<1>1. ASSUME NEW j \in I PROVE i <= j
  <2>1. <<j, i>> \notin OpToRel(<, Nat)
    BY <1>0
  <2>2. ~ (j < i)
    BY <2>1, <1>0 DEF OpToRel
  <2> QED BY <2>2
<1> QED BY <1>1

\* The node, step by step of its owner: what is there, and whether the encode
\* thread is.
NodeIs ==
    /\ owner # "idle" => on
    /\ owner = "idle" /\ ~on => ~running /\ objects = {} /\ ~channel
    /\ owner = "idle" /\ running => thread # "ended" /\ thread # "none" /\ on
    /\ owner = "idle" /\ ~running => thread = "none"
    /\ owner = "callback" => channel
    /\ owner = "join" => thread # "none"
    /\ owner \notin {"idle", "join"} => ~running /\ thread = "none"
    /\ thread = "ended" => ~running
    /\ thread # "none" => channel
    /\ channel => "encoder" \in objects
    /\ "rtsp" \in objects => owner \in {"callback", "join"} \/ (owner = "idle" /\ running)

\* The transport: its manager and its I/O thread, and whether a node has it.
TransportIs ==
    /\ manager => channel /\ "ws" \in objects
    /\ owner \notin {"ws_join", "encoder"} => (serving <=> manager)
    /\ owner = "callback" /\ "ws" \in objects => manager
    /\ owner = "ws_join" => manager /\ ~serving
    /\ owner = "encoder" => ~manager /\ ~serving /\ "ws" \notin objects
    /\ io = "none" <=> ~manager
    /\ io = "ended" => ~serving
    /\ callback => manager
    /\ thread = "waking" => manager
    /\ ~manager => \A c \in Clients : client[c] = Stream!Away

StreamInv == Stream!TypeOK /\ NodeIs /\ TransportIs

\* An empty queue has its type.
LEMMA EmptyFits == <<>> \in Seq({"key", "delta"}) /\ Len(<<>>) <= Depth
<1>1. Depth \in Nat
  BY QueuesHold DEF Stream!StreamAssumption
<1> QED
  BY <1>1

\* A new node and a new transport.
LEMMA InitStream == Stream!Init => StreamInv
<1> SUFFICES ASSUME Stream!Init PROVE StreamInv
  OBVIOUS
<1>1. Stream!TypeOK
  <2>1. queue \in Seq({"key", "delta"}) /\ Len(queue) <= Depth
    BY EmptyFits DEF Stream!Init
  <2>2. client \in [Clients -> {Stream!Away, "asked", "unasked", "watching"}]
    BY DEF Stream!Init
  <2> QED
    BY <2>1, <2>2 DEF Stream!Init, Stream!TypeOK
<1>2. NodeIs /\ TransportIs
  BY DEF Stream!Init, NodeIs, TransportIs
<1> QED
  BY <1>1, <1>2 DEF StreamInv

\* A frame is added to a queue that has room, or in the place of another one.

LEMMA EnqueuedFits ==
  ASSUME queue \in Seq({"key", "delta"}), Len(queue) <= Depth, NEW f \in {"key", "delta"}
  PROVE  Stream!Enqueued(f) \in Seq({"key", "delta"}) /\ Len(Stream!Enqueued(f)) <= Depth
<1>0. Depth \in Nat /\ Depth > 0 /\ Len(queue) \in Nat
  BY QueuesHold DEF Stream!StreamAssumption
<1>1. CASE Len(queue) < Depth
  BY <1>0, <1>1 DEF Stream!Enqueued
<1>2. CASE ~(Len(queue) < Depth) /\ f = "delta"
  BY <1>0, <1>2 DEF Stream!Enqueued
<1>3. CASE ~(Len(queue) < Depth) /\ f # "delta"
  <2> DEFINE I == {i \in 1 .. Len(queue) : queue[i] = "delta"}
             first == Stream!SelectInSeq(queue, LAMBDA g : g = "delta")
  <2>1. CASE \E i \in DOMAIN queue : queue[i] = "delta"
    <3>1. I # {} /\ I \in SUBSET Nat
      BY <2>1
    <3>2. first \in 1 .. Len(queue)
      <4>1. first = Stream!Min(I)
        BY <3>1 DEF Stream!SelectInSeq
      <4>2. \E x \in I : \A y \in I : x <= y
        BY <3>1, SmallestIndex
      <4> QED BY <4>1, <4>2 DEF Stream!Min
    <3> HIDE DEF first
    <3>3. /\ Stream!RemoveAt(queue, first) \in Seq({"key", "delta"})
          /\ Len(Stream!RemoveAt(queue, first)) = Len(queue) - 1
      <4> DEFINE before == SubSeq(queue, 1, first - 1)
                 after == SubSeq(queue, first + 1, Len(queue))
      <4>1. first \in Nat /\ first >= 1 /\ first <= Len(queue)
        BY <3>2, <1>0
      <4>2. before \in Seq({"key", "delta"}) /\ Len(before) = first - 1
        BY <4>1, <1>0, SubSeqProperties
      <4>3. after \in Seq({"key", "delta"}) /\ Len(after) = Len(queue) - first
        BY <4>1, <1>0, SubSeqProperties
      <4> HIDE DEF before, after
      <4>4. before \o after \in Seq({"key", "delta"}) /\ Len(before \o after) = Len(queue) - 1
        BY ONLY <4>1, <4>2, <4>3, <1>0, ConcatProperties
      <4> QED BY <4>4 DEF Stream!RemoveAt, before, after
    <3>4. Stream!Enqueued(f) = Append(Stream!RemoveAt(queue, first), f)
      BY <2>1, <1>3 DEF Stream!Enqueued, first
    <3> QED BY <3>3, <3>4, <1>0
  <2>2. CASE ~(\E i \in DOMAIN queue : queue[i] = "delta")
    <3>1. Stream!Enqueued(f) = Append(Tail(queue), f)
      BY <2>2, <1>3 DEF Stream!Enqueued
    <3>2. queue # <<>>
      BY <1>0, <1>3
    <3> QED BY <3>1, <3>2, <1>0
  <2> QED BY <2>1, <2>2
<1> QED BY <1>1, <1>2, <1>3

\* Every step of the stream keeps its invariant.
LEMMA StreamStep ==
  ASSUME StreamInv, Stream!Next
  PROVE  StreamInv'
<1> USE DEF StreamInv, Stream!TypeOK, NodeIs, TransportIs, Stream!Away, Stream!node, Stream!transport
<1>1. ASSUME NEW f \in Stream!Failures, Stream!Start(f) PROVE StreamInv'
  <2>1. queue' \in Seq({"key", "delta"}) /\ Len(queue') <= Depth
    BY <1>1, EmptyFits
       DEF Stream!Start, Stream!Failed, Stream!StartTransport, Stream!NoTransport, Stream!Failures
  <2>2. client' \in [Clients -> {Stream!Away, "asked", "unasked", "watching"}]
    BY <1>1
       DEF Stream!Start, Stream!Failed, Stream!StartTransport, Stream!NoTransport, Stream!Failures,
           Stream!Seen
  <2> QED
    BY <1>1, <2>1, <2>2
       DEF Stream!Start, Stream!Failed, Stream!StartTransport, Stream!NoTransport, Stream!Failures
<1>2. ASSUME Stream!StartThread PROVE StreamInv'
  BY <1>2 DEF Stream!StartThread
<1>3. ASSUME Stream!Stop PROVE StreamInv'
  BY <1>3 DEF Stream!Stop
<1>4. ASSUME Stream!Join PROVE StreamInv'
  BY <1>4 DEF Stream!Join
<1>5. ASSUME Stream!StopTransport PROVE StreamInv'
  BY <1>5 DEF Stream!StopTransport
<1>6. ASSUME Stream!CloseTransport PROVE StreamInv'
  <2>1. queue' \in Seq({"key", "delta"}) /\ Len(queue') <= Depth
    BY <1>6, EmptyFits DEF Stream!CloseTransport
  <2>2. client' \in [Clients -> {Stream!Away, "asked", "unasked", "watching"}]
    BY <1>6 DEF Stream!CloseTransport, Stream!Seen
  <2> QED
    BY <1>6, <2>1, <2>2 DEF Stream!CloseTransport
<1>7. ASSUME Stream!CloseEncoder PROVE StreamInv'
  BY <1>7 DEF Stream!CloseEncoder
<1>8. ASSUME Stream!Begin PROVE StreamInv'
  BY <1>8 DEF Stream!Begin
<1>9. ASSUME Stream!Top PROVE StreamInv'
  BY <1>9 DEF Stream!Top
<1>10. ASSUME Stream!Enqueue PROVE StreamInv'
  <2>1. queue' \in Seq({"key", "delta"}) /\ Len(queue') <= Depth
    BY <1>10, EnqueuedFits DEF Stream!Enqueue
  <2> QED
    BY <1>10, <2>1 DEF Stream!Enqueue
<1>11. ASSUME Stream!Wake PROVE StreamInv'
  BY <1>11 DEF Stream!Wake
<1>12. ASSUME Stream!ReleaseStream PROVE StreamInv'
  BY <1>12 DEF Stream!ReleaseStream
<1>13. ASSUME Stream!GetNothing PROVE StreamInv'
  BY <1>13 DEF Stream!GetNothing
<1>14. ASSUME NEW f \in {"key", "delta"}, Stream!GetStream(f) PROVE StreamInv'
  BY <1>14 DEF Stream!GetStream
<1>15. ASSUME Stream!PollEnds PROVE StreamInv'
  BY <1>15 DEF Stream!PollEnds
<1>16. ASSUME Stream!Drain PROVE StreamInv'
  <2>1. queue' \in Seq({"key", "delta"}) /\ Len(queue') <= Depth
    BY <1>16, EmptyFits DEF Stream!Drain
  <2>2. client' \in [Clients -> {Stream!Away, "asked", "unasked", "watching"}]
    BY <1>16 DEF Stream!Drain, Stream!Seen
  <2> QED
    BY <1>16, <2>1, <2>2 DEF Stream!Drain
<1>17. ASSUME NEW c \in Clients, Stream!ClientOpens(c) PROVE StreamInv'
  BY <1>17 DEF Stream!ClientOpens
<1>18. ASSUME NEW c \in Clients, Stream!ClientCloses(c) PROVE StreamInv'
  BY <1>18 DEF Stream!ClientCloses
<1> QED
  BY <1>1, <1>2, <1>3, <1>4, <1>5, <1>6, <1>7, <1>8, <1>9, <1>10, <1>11, <1>12, <1>13, <1>14, <1>15, <1>16,
     <1>17, <1>18 DEF Stream!Next, Stream!OwnerStep, Stream!Encode, Stream!GetAny, Stream!IoStep

\* What the invariant is for.
LEMMA StreamInvImplies == StreamInv => Stream!UsersHaveTheirObjects /\ Stream!NothingIsLeft
<1>1. StreamInv => Stream!UsersHaveTheirObjects
  BY DEF StreamInv, NodeIs, TransportIs, Stream!TypeOK, Stream!UsersHaveTheirObjects
<1>2. StreamInv => Stream!NothingIsLeft
  BY DEF StreamInv, NodeIs, TransportIs, Stream!NothingIsLeft, Stream!Open
<1> QED
  BY <1>1, <1>2

\* The invariant holds while the stream runs.
THEOREM StreamInvariant == Spec => [](which = "stream" => StreamInv)
<1> DEFINE Inv == which = "stream" => StreamInv
<1>1. Init => Inv
  BY InitStream DEF Init
<1>2. ASSUME Inv, [Next]_vars PROVE Inv'
  <2> SUFFICES ASSUME which' = "stream" PROVE StreamInv'
    OBVIOUS
  <2>1. CASE Stream!Next /\ which = "stream"
    BY <1>2, <2>1, StreamStep
  <2>2. CASE UNCHANGED Stream!vars /\ which = "stream"
    BY <1>2, <2>2 DEF Stream!vars, StreamInv, Stream!TypeOK, NodeIs, TransportIs
  <2>3. \/ Stream!Next /\ which = "stream"
        \/ UNCHANGED Stream!vars /\ which = "stream"
    <3>1. CASE Next
      BY <3>1 DEF Next
    <3>2. CASE UNCHANGED vars
      BY <3>2 DEF vars, shared, onlyStream, Stream!vars
    <3> QED
      BY <1>2, <3>1, <3>2
  <2> QED
    BY <2>1, <2>2, <2>3
<1> QED
  BY <1>1, <1>2, PTL DEF Spec

-----------------------------------------------------------------------------
(* NodeServer: the order in which stop takes the server apart. *)

\* What is there while stop is at each of its steps: an object goes only after
\* everybody who uses it.
Assembled ==
    /\ owner = "idle" /\ running => mosq /\ executor /\ loop = "up"
    /\ owner = "idle" /\ ~running => ~mosq /\ ~executor /\ loop = "none"
    /\ owner = "join" => mosq /\ executor /\ loop \in {"up", "ended"}
    /\ owner \in {"cancel", "executor", "hung"} => mosq /\ executor /\ loop = "none"
    /\ owner \in {"nodes", "client"} => mosq /\ ~executor /\ loop = "none"
    /\ owner # "idle" => ~running

\* The worker has nothing to do without the executor, and no node or thread of a
\* node is there from destroyAll on.
Quiet ==
    /\ ~executor => worker = Server!Rest
    /\ owner = "client" \/ (owner = "idle" /\ ~running) => nodes = {} /\ ~talker

ServerInv == Server!TypeOK /\ Assembled /\ Quiet

\* A new server.
LEMMA InitServer == Server!Init => ServerInv
<1> SUFFICES ASSUME Server!Init PROVE ServerInv
  OBVIOUS
<1>1. Server!TypeOK
  <2>1. runs \in 0 .. MaxRuns /\ tasks \in Seq(Requests)
    BY RequestsAreKnown DEF Server!Init, Server!ServerAssumption
  <2>2. worker \in [request : Requests \cup {NoRequest},
                    at : {"waiting", "handling", "response", "publishing"}]
    BY DEF Server!Init, Server!Rest
  <2>3. {running, mosq, executor, link, connected, talker} \subseteq BOOLEAN
    BY DEF Server!Init
  <2> QED
    BY <2>1, <2>2, <2>3 DEF Server!Init, Server!TypeOK
<1>2. Assembled /\ Quiet
  BY DEF Server!Init, Assembled, Quiet
<1> QED
  BY <1>1, <1>2 DEF ServerInv

\* start() and stop().
LEMMA ServerOwnerStep ==
  ASSUME ServerInv, (\E ok \in BOOLEAN : Server!Start(ok)) \/ Server!Stop \/ Server!OwnerStep
  PROVE  ServerInv'
<1> USE DEF ServerInv, Server!TypeOK, Assembled, Quiet
<1>1. ASSUME NEW ok \in BOOLEAN, Server!Start(ok) PROVE ServerInv'
  <2>1. runs' \in 0 .. MaxRuns
    BY <1>1, RequestsAreKnown DEF Server!Start, Server!ServerAssumption
  <2> QED
    BY <1>1, <2>1 DEF Server!Start
<1>2. CASE Server!Stop
  BY <1>2 DEF Server!Stop
<1>3. CASE Server!JoinLoop
  BY <1>3 DEF Server!JoinLoop
<1>4. CASE Server!Cancel
  BY <1>4 DEF Server!Cancel
<1>5. CASE Server!ResetExecutor
  BY <1>5 DEF Server!ResetExecutor
<1>6. CASE Server!DestroyNodes
  BY <1>6 DEF Server!DestroyNodes
<1>7. CASE Server!DestroyClient
  BY <1>7 DEF Server!DestroyClient
<1> QED
  BY <1>1, <1>2, <1>3, <1>4, <1>5, <1>6, <1>7 DEF Server!OwnerStep

\* The loop thread.
LEMMA ServerLoopStep ==
  ASSUME ServerInv,
         Server!OnConnect \/ Server!OnDisconnect \/ Server!Reconnect \/ Server!LoopEnds
           \/ \E r \in Requests : Server!OnMessage(r)
  PROVE  ServerInv'
<1> USE DEF ServerInv, Server!TypeOK, Assembled, Quiet, Server!Rest, Server!server
<1>1. CASE Server!OnConnect
  BY <1>1 DEF Server!OnConnect
<1>2. CASE Server!OnDisconnect
  BY <1>2 DEF Server!OnDisconnect
<1>3. CASE Server!Reconnect
  BY <1>3 DEF Server!Reconnect
<1>4. CASE Server!LoopEnds
  BY <1>4 DEF Server!LoopEnds
<1>5. ASSUME NEW r \in Requests, Server!OnMessage(r) PROVE ServerInv'
  BY <1>5 DEF Server!OnMessage
<1> QED
  BY <1>1, <1>2, <1>3, <1>4, <1>5

\* The worker, and the threads of the nodes.
LEMMA ServerWorkerStep ==
  ASSUME ServerInv, Server!WorkerStep \/ Server!Event \/ Server!EventEnds
  PROVE  ServerInv'
<1> USE DEF ServerInv, Server!TypeOK, Assembled, Quiet, Server!Rest, Server!server
<1>1. CASE Server!Take
  BY <1>1 DEF Server!Take
<1>2. ASSUME NEW r \in Requests, NEW done \in Server!Done, Server!Handle(r, done) PROVE ServerInv'
  BY <1>2 DEF Server!Handle, Server!Handling
<1>7. ASSUME NEW r \in Requests, Server!HandleMalformed(r) PROVE ServerInv'
  BY <1>7 DEF Server!HandleMalformed
<1>3. CASE Server!Respond
  BY <1>3 DEF Server!Respond
<1>4. CASE Server!Publish
  BY <1>4 DEF Server!Publish
<1>5. CASE Server!Event
  BY <1>5 DEF Server!Event
<1>6. CASE Server!EventEnds
  BY <1>6 DEF Server!EventEnds
<1> QED
  BY <1>1, <1>2, <1>3, <1>4, <1>5, <1>6, <1>7 DEF Server!WorkerStep

\* Every step of the server keeps its invariant.
LEMMA ServerStep ==
  ASSUME ServerInv, Server!Next
  PROVE  ServerInv'
BY ServerOwnerStep, ServerLoopStep, ServerWorkerStep DEF Server!Next

\* What the invariant is for.
LEMMA ServerInvImplies == ServerInv => Server!UsersHaveTheirObjects /\ Server!NothingIsLeft
<1>1. ServerInv => Server!UsersHaveTheirObjects
  BY DEF ServerInv, Server!TypeOK, Assembled, Quiet, Server!Rest, Server!UsersHaveTheirObjects
<1>2. ServerInv => Server!NothingIsLeft
  BY DEF ServerInv, Assembled, Quiet, Server!NothingIsLeft
<1> QED
  BY <1>1, <1>2

\* The invariant holds while the server runs.
THEOREM ServerInvariant == Spec => [](which = "server" => ServerInv)
<1> DEFINE Inv == which = "server" => ServerInv
<1>1. Init => Inv
  BY InitServer DEF Init
<1>2. ASSUME Inv, [Next]_vars PROVE Inv'
  <2> SUFFICES ASSUME which' = "server" PROVE ServerInv'
    OBVIOUS
  <2>1. CASE Server!Next /\ which = "server"
    BY <1>2, <2>1, ServerStep
  <2>2. CASE UNCHANGED Server!vars /\ which = "server"
    BY <1>2, <2>2 DEF Server!vars, ServerInv, Server!TypeOK, Assembled, Quiet, Server!Rest
  <2>3. \/ Server!Next /\ which = "server"
        \/ UNCHANGED Server!vars /\ which = "server"
    <3>1. CASE Next
      BY <3>1 DEF Next
    <3>2. CASE UNCHANGED vars
      BY <3>2 DEF vars, shared, onlyServer, Server!vars
    <3> QED
      BY <1>2, <3>1, <3>2
  <2> QED
    BY <2>1, <2>2, <2>3
<1> QED
  BY <1>1, <1>2, PTL DEF Spec

-----------------------------------------------------------------------------
(* All of them. *)

(* Every variable of the camera, the pipeline, the stream and the server keeps  *)
(* its type, and no queue exceeds its size.                                    *)
THEOREM TypesHold == Spec => []TypeOK
<1>1. /\ (which = "camera" => CameraInv) => (which = "camera" => Camera!TypeOK)
      /\ (which = "pipeline" => PipelineInv) => (which = "pipeline" => Pipeline!TypeOK)
      /\ (which = "stream" => StreamInv) => (which = "stream" => Stream!TypeOK)
      /\ (which = "server" => ServerInv) => (which = "server" => Server!TypeOK)
  BY DEF CameraInv, PipelineInv, StreamInv, ServerInv
<1>2. /\ which = "camera" => Camera!TypeOK
      /\ which = "pipeline" => Pipeline!TypeOK
      /\ which = "stream" => Stream!TypeOK
      /\ which = "server" => Server!TypeOK
      => TypeOK
  BY DEF TypeOK
<1> QED
  BY <1>1, <1>2, CameraInvariant, PipelineInvariant, StreamInvariant, ServerInvariant, PTL

(* Whatever fails and whatever the threads are doing: the cleanup of a camera   *)
(* takes nothing from under what stands on it, onStop of a node that streams   *)
(* and stop() of the server take no object from the thread that is inside it.  *)
THEOREM NobodyLosesWhatHeUses == Spec => []NothingInUseIsTaken
<1>1. /\ (which = "camera" => CameraInv) => (which = "camera" => Camera!NothingStandsOnAir)
      /\ (which = "stream" => StreamInv) => (which = "stream" => Stream!UsersHaveTheirObjects)
      /\ (which = "server" => ServerInv) => (which = "server" => Server!UsersHaveTheirObjects)
  BY CameraInvImplies, StreamInvImplies, ServerInvImplies
<1>2. /\ which = "camera" => Camera!NothingStandsOnAir
      /\ which = "stream" => Stream!UsersHaveTheirObjects
      /\ which = "server" => Server!UsersHaveTheirObjects
      => NothingInUseIsTaken
  BY DEF NothingInUseIsTaken
<1> QED
  BY <1>1, <1>2, CameraInvariant, StreamInvariant, ServerInvariant, PTL

(* After a stop, and after an open or a start that failed at any of its steps,  *)
(* nothing that was started, opened or bound is left, but for what the modules *)
(* name: the flip callback of a camera, the start of a pipeline whose audio    *)
(* failed.                                                                     *)
THEOREM StopsLeaveNothing == Spec => []NothingIsLeft
<1>1. /\ (which = "camera" => CameraInv) => (which = "camera" => Camera!AllOrNothing)
      /\ (which = "pipeline" => PipelineInv) => (which = "pipeline" => Pipeline!NothingIsLeft)
      /\ (which = "stream" => StreamInv) => (which = "stream" => Stream!NothingIsLeft)
      /\ (which = "server" => ServerInv) => (which = "server" => Server!NothingIsLeft)
  BY CameraInvImplies, PipelineInvImplies, StreamInvImplies, ServerInvImplies
<1>2. /\ which = "camera" => Camera!AllOrNothing
      /\ which = "pipeline" => Pipeline!NothingIsLeft
      /\ which = "stream" => Stream!NothingIsLeft
      /\ which = "server" => Server!NothingIsLeft
      => NothingIsLeft
  BY DEF NothingIsLeft
<1> QED
  BY <1>1, <1>2, CameraInvariant, PipelineInvariant, StreamInvariant, ServerInvariant, PTL

(* However the inference thread, the consumer and stop() interleave, and however *)
(* often the queue is full: the results of this run that are in it are the       *)
(* newest ones without a gap.                                                    *)
THEOREM ConsumersGetTheNewest == Spec => []NewestAreKept
<1>1. (which = "pipeline" => PipelineInv) => NewestAreKept
  BY DEF PipelineInv, NewestAreKept
<1> QED
  BY <1>1, PipelineInvariant, PTL
=============================================================================
