---------------------------- MODULE DevicesProofs ----------------------------
(* The devices beside the video memory, for any of them: the frame limit, the *)
(* JPEG decoder, the VPSS and the inference sessions.                         *)
EXTENDS VideoMemoryProofs

-----------------------------------------------------------------------------
(* FrameSkipping: the limit on the rate                                     *)

Limits == INSTANCE FrameSkippingProofs

\* FrameSkippingProofs is about the same FrameSkipping as Devices.
LEMMA SameSkipping ==
  /\ Skipping!SkippingAssumption => Limits!SkippingAssumption
  /\ Skipping!Init <=> Limits!Init
  /\ [Skipping!Next]_Skipping!vars <=> [Limits!Next]_Limits!vars
  BY DEF Skipping!MaxStreak, Limits!MaxStreak, Skipping!Second, Limits!Second, Skipping!QuarterSecond,
         Limits!QuarterSecond, Skipping!MaxExponent, Limits!MaxExponent, Skipping!vars, Limits!vars,
         Skipping!history, Limits!history, Skipping!Least, Limits!Least, Skipping!Most, Limits!Most,
         Skipping!Minus, Limits!Minus, Skipping!Clamp, Limits!Clamp, Skipping!Doublings,
         Limits!Doublings, Skipping!Doubled, Limits!Doubled, Skipping!Init, Limits!Init, Skipping!Elapse,
         Limits!Elapse, Skipping!NextStreak, Limits!NextStreak, Skipping!Used, Limits!Used,
         Skipping!NobufThreshold, Limits!NobufThreshold, Skipping!NodeCooldown, Limits!NodeCooldown,
         Skipping!PipelineCooldown, Limits!PipelineCooldown, Skipping!NodeNobuf, Limits!NodeNobuf,
         Skipping!PipelineNobuf, Limits!PipelineNobuf, Skipping!SkipFrame, Limits!SkipFrame,
         Skipping!Smooth, Limits!Smooth, Skipping!Whole, Limits!Whole, Skipping!Granted,
         Limits!Granted, Skipping!ReadThrows, Limits!ReadThrows, Skipping!ProcessingThrows,
         Limits!ProcessingThrows, Skipping!UseFrameNode, Limits!UseFrameNode,
         Skipping!UseFramePipeline, Limits!UseFramePipeline, Skipping!VpssNobuf, Limits!VpssNobuf,
         Skipping!SetInterval, Limits!SetInterval, Skipping!ReopenCamera, Limits!ReopenCamera,
         Skipping!Next, Limits!Next, Skipping!SkippingAssumption, Limits!SkippingAssumption

LEMMA InitSkipping == Skipping!Init => Limits!IInv
  BY SkippingIsWithinReason, Limits!InitIInv
     DEF Skipping!SkippingAssumption, Limits!SkippingAssumption, Skipping!Init, Limits!Init,
         Skipping!MaxStreak, Limits!MaxStreak, Skipping!Second, Limits!Second, Skipping!Whole, Limits!Whole,
         Skipping!Granted, Limits!Granted, Skipping!Least, Limits!Least

LEMMA NextSkipping == ASSUME Limits!IInv, [Skipping!Next]_Skipping!vars PROVE Limits!IInv'
<1>1. Limits!SkippingAssumption /\ [Limits!Next]_Limits!vars
  BY SkippingIsWithinReason, SameSkipping
<1> QED
  BY <1>1, Limits!NextIInv

\* While frames are skipped, the invariant of FrameSkippingProofs holds.
THEOREM SkippingInvariant == Spec => [](which = "skipping" => Limits!IInv)
<1> DEFINE Inv == which = "skipping" => Limits!IInv
<1>1. Init => Inv
  BY InitSkipping DEF Init
<1>2. ASSUME Inv, [Next]_vars PROVE Inv'
  <2> SUFFICES ASSUME which' = "skipping" PROVE Limits!IInv'
    OBVIOUS
  <2>1. which = "skipping" /\ [Skipping!Next]_Skipping!vars
    <3>1. CASE Next
      BY <3>1 DEF Next
    <3>2. CASE UNCHANGED vars
      BY <3>2 DEF vars, onlySkipping, Skipping!vars
    <3> QED
      BY <1>2, <3>1, <3>2
  <2> QED
    BY <1>2, <2>1, NextSkipping
<1> QED
  BY <1>1, <1>2, PTL DEF Spec

(* No loop that skips frames, of a node or of the pipeline, uses one sooner   *)
(* after the last than it grants: after an interval, which the node's backoff *)
(* truncates to milliseconds, at most after a second.                         *)
THEOREM LimitHolds == Spec => []LimitIsObeyed
<1>1. (which = "skipping" => Limits!IInv) => LimitIsObeyed
  BY DEF LimitIsObeyed, Limits!IInv, Limits!LimitIsObeyed, Skipping!LimitIsObeyed
<1> QED
  BY <1>1, SkippingInvariant, PTL

-----------------------------------------------------------------------------
(* JpegDecoder: the channel, its pictures and their holders                 *)

Channels == [channel : {"none", "created", "receiving"}, generation : {0, 1},
             decoded : Seq(Jpeg!Pictures), lent : SUBSET Jpeg!Pictures, size : [Jpeg!Decoders -> Nat]]

\* One decoder has the channel, and all its pictures are those of the channel as
\* it is now.
ChannelOK(c) ==
    /\ c \in Channels
    /\ c.channel # "receiving" => c.decoded = <<>> /\ c.lent = {}
    /\ c.channel = "receiving" <=> \E d \in Jpeg!Decoders : c.size[d] # 0
    /\ \A d, e \in Jpeg!Decoders : c.size[d] # 0 /\ c.size[e] # 0 => d = e
    /\ \A i \in DOMAIN c.decoded : c.decoded[i].generation = c.generation
    /\ \A p \in c.lent : p.generation = c.generation

\* k is what c became when decoder d had to be initialized: it is c, or empty
\* and of nobody but d.
Renewed(c, k, d) ==
    /\ ChannelOK(k)
    /\ \A e \in Jpeg!Decoders \ {d} : k.size[e] = c.size[e]
    /\ k = c \/ (k.decoded = <<>> /\ k.lent = {} /\ \A e \in Jpeg!Decoders \ {d} : c.size[e] = 0)

LEMMA CleanupRenews ==
  ASSUME NEW c, ChannelOK(c), NEW d \in Jpeg!Decoders
  PROVE  Renewed(c, Jpeg!Cleanup(c, d), d) /\ Jpeg!Cleanup(c, d).size[d] = 0
<1> DEFINE k == Jpeg!Cleanup(c, d)
<1>1. CASE c.size[d] = 0
  BY <1>1 DEF Jpeg!Cleanup, Renewed
<1>2. CASE c.size[d] # 0
  <2>1. \A e \in Jpeg!Decoders \ {d} : c.size[e] = 0
    BY <1>2 DEF ChannelOK
  <2>2. k = [channel |-> "none", generation |-> c.generation, decoded |-> <<>>, lent |-> {},
             size |-> [c.size EXCEPT ![d] = 0]]
    BY <1>2 DEF Jpeg!Cleanup
  <2>3. k \in Channels /\ \A e \in Jpeg!Decoders : k.size[e] = 0
    <3> DEFINE none == [c.size EXCEPT ![d] = 0]
    <3>1. none \in [Jpeg!Decoders -> Nat] /\ \A e \in Jpeg!Decoders : none[e] = 0
      BY <2>1 DEF ChannelOK, Channels
    <3>2. c.generation \in {0, 1}
      BY DEF ChannelOK, Channels
    <3>3. k = [channel |-> "none", generation |-> c.generation, decoded |-> <<>>, lent |-> {}, size |-> none]
      BY <2>2
    <3>4. <<>> \in Seq(Jpeg!Pictures)
      OBVIOUS
    <3> HIDE DEF none, k
    <3>5. k \in Channels
      BY <3>1, <3>2, <3>3, <3>4 DEF Channels
    <3>6. k.size = none
      BY <3>3
    <3> QED
      BY <3>1, <3>5, <3>6
  <2>4. k.channel = "none" /\ k.decoded = <<>> /\ k.lent = {}
    BY <2>2
  <2> HIDE DEF k
  <2>5. ChannelOK(k)
    BY <2>3, <2>4 DEF ChannelOK
  <2>6. Renewed(c, k, d) /\ k.size[d] = 0
    BY <2>1, <2>3, <2>4, <2>5 DEF Renewed
  <2> QED
    BY <2>6 DEF k
<1> QED
  BY <1>1, <1>2

LEMMA InitRenews ==
  ASSUME NEW c, ChannelOK(c), NEW d \in Jpeg!Decoders, NEW s \in Nat \ {0}, NEW k \in Jpeg!InitDecoder(c, d, s)
  PROVE  Renewed(c, k, d)
<1>1. CASE k = c
  BY <1>1 DEF Renewed
<1> DEFINE created == [c EXCEPT !.channel = "created", !.generation = 1 - @]
           receiving == [created EXCEPT !.channel = "receiving", !.size[d] = s]
<1>2. CASE k # c
  <2>1. c.size[d] = 0 /\ c.channel = "none" /\ k \in {created, receiving}
    <3>1. c.size[d] = 0
      BY <1>2 DEF Jpeg!InitDecoder
    <3>2. PICK b \in Jpeg!Configure(c) :
            k \in IF b.channel = "created" /\ b.generation # c.generation THEN Jpeg!StartReceiving(b, d, s) ELSE {b}
      BY <3>1 DEF Jpeg!InitDecoder
    <3>3. c.channel = "none" /\ b = created
      <4>1. ASSUME b = c PROVE FALSE
        BY <1>2, <3>2, <4>1
      <4> QED
        BY <3>2, <4>1 DEF Jpeg!Configure
    <3>4. created.size = c.size
      BY DEF ChannelOK, Channels
    <3>5. Jpeg!Cleanup(created, d) = created
      BY <3>1, <3>4 DEF Jpeg!Cleanup
    <3> HIDE DEF created
    <3>6. k \in {created, receiving}
      BY <3>2, <3>3, <3>5 DEF Jpeg!StartReceiving
    <3> QED
      BY <3>1, <3>3, <3>6
  <2>2. c.decoded = <<>> /\ c.lent = {} /\ \A e \in Jpeg!Decoders : c.size[e] = 0
    BY <2>1 DEF ChannelOK
  <2>3. created \in Channels /\ created.channel = "created" /\ created.decoded = <<>> /\ created.lent = {}
        /\ created.size = c.size
    <3>1. c \in Channels /\ 1 - c.generation \in {0, 1}
      BY DEF ChannelOK, Channels
    <3> QED
      BY <2>2, <3>1 DEF Channels
  <2>4. receiving \in Channels /\ receiving.channel = "receiving" /\ receiving.decoded = <<>> /\ receiving.lent = {}
        /\ receiving.size = [c.size EXCEPT ![d] = s]
    <3> HIDE DEF created
    <3> QED
      BY <2>3 DEF Channels
  <2> HIDE DEF created, receiving
  <2>5. CASE k = created
    BY <2>2, <2>3, <2>5 DEF Renewed, ChannelOK
  <2>6. CASE k = receiving
    BY <2>2, <2>3, <2>4, <2>6 DEF Renewed, ChannelOK, Channels
  <2> QED
    BY <2>1, <2>5, <2>6
<1> QED
  BY <1>1, <1>2

LEMMA EnsureRenews ==
  ASSUME NEW c, ChannelOK(c), NEW d \in Jpeg!Decoders, NEW s \in Nat \ {0}, NEW k \in Jpeg!EnsureInitialized(c, d, s)
  PROVE  Renewed(c, k, d)
<1> DEFINE b == IF c.size[d] >= s THEN c ELSE Jpeg!Cleanup(c, d)
<1>1. Renewed(c, b, d)
  BY CleanupRenews DEF Renewed
<1>2. k \in Jpeg!InitDecoder(b, d, s)
  BY DEF Jpeg!EnsureInitialized
<1> HIDE DEF b
<1>3. Renewed(b, k, d)
  BY <1>1, <1>2, InitRenews DEF Renewed
<1> QED
  BY <1>1, <1>3 DEF Renewed

\* A call of decoder d leaves the channel in order, and takes the oldest picture or none.
LEMMA DecodeTakesTheOldest ==
  ASSUME NEW c, ChannelOK(c), NEW d \in Jpeg!Decoders, c.size[d] # 0, NEW i \in DOMAIN ImageSize,
         NEW o \in Jpeg!Decode(c, i)
  PROVE  LET sent == Append(c.decoded, [image |-> i, generation |-> c.generation])
         IN  /\ ChannelOK(o.after) /\ o.after.size = c.size
             /\ \/ o.picture = NoPicture /\ o.after.lent = c.lent /\ o.after.decoded \in {c.decoded, sent}
                \/ /\ o.picture = Head(sent) /\ o.picture \in Jpeg!Pictures
                   /\ o.after.lent = c.lent \cup {o.picture} /\ o.after.decoded = Tail(sent)
<1> DEFINE p == [image |-> i, generation |-> c.generation]
           seq == Append(c.decoded, p)
           sent == [c EXCEPT !.decoded = seq]
           fetched == [sent EXCEPT !.decoded = Tail(@), !.lent = @ \cup {Head(seq)}]
<1>1. p \in Jpeg!Pictures /\ c \in Channels /\ c.channel = "receiving"
  BY DEF ChannelOK, Channels, Jpeg!Pictures
<1>2. seq \in Seq(Jpeg!Pictures) /\ \A j \in DOMAIN seq : seq[j].generation = c.generation
  BY <1>1 DEF ChannelOK, Channels
<1>3. /\ Head(seq) \in Jpeg!Pictures /\ Head(seq).generation = c.generation
      /\ Tail(seq) \in Seq(Jpeg!Pictures) /\ \A j \in DOMAIN Tail(seq) : Tail(seq)[j].generation = c.generation
  BY <1>1, <1>2 DEF Channels
<1>4. \/ o = [after |-> c, picture |-> NoPicture]
      \/ o = [after |-> sent, picture |-> NoPicture]
      \/ o = [after |-> fetched, picture |-> Head(seq)]
  BY <1>1 DEF Jpeg!Decode, Channels
<1> HIDE DEF p, seq
<1>5. /\ sent \in Channels /\ sent.channel = c.channel /\ sent.generation = c.generation /\ sent.size = c.size
      /\ sent.lent = c.lent /\ sent.decoded = seq
  BY <1>1, <1>2 DEF Channels
<1> HIDE DEF sent
<1>6. /\ fetched \in Channels /\ fetched.channel = c.channel /\ fetched.generation = c.generation
      /\ fetched.size = c.size /\ fetched.lent = c.lent \cup {Head(seq)} /\ fetched.decoded = Tail(seq)
  BY <1>3, <1>5 DEF Channels
<1> HIDE DEF fetched
<1>7. ChannelOK(sent)
  BY <1>1, <1>2, <1>5 DEF ChannelOK
<1>8. ChannelOK(fetched)
  BY <1>1, <1>3, <1>6 DEF ChannelOK
<1>9. CASE o = [after |-> c, picture |-> NoPicture]
  BY <1>9
<1>10. CASE o = [after |-> sent, picture |-> NoPicture]
  BY <1>5, <1>7, <1>10 DEF seq, p
<1>11. CASE o = [after |-> fetched, picture |-> Head(seq)]
  BY <1>3, <1>6, <1>8, <1>11 DEF seq, p
<1> QED
  BY <1>4, <1>9, <1>10, <1>11

\* Callers hold what the channel lends, and their pictures are those of their images.
JpegInv ==
    /\ ChannelOK(Jpeg!State)
    /\ loaded \in (DOMAIN ImageSize) \cup {NoPicture} /\ asked \in (DOMAIN ImageSize) \cup {NoPicture}
    /\ held \in [Jpeg!Decoders -> Jpeg!Pictures \cup {NoPicture}]
    /\ prealloc \in Nat /\ block \in BOOLEAN /\ late \in BOOLEAN
    /\ \A d \in Jpeg!Decoders : held[d] # NoPicture => held[d] \in lent /\ size[d] # 0
    /\ \A p \in lent : \E d \in Jpeg!Decoders : held[d] = p
    /\ size["source"] # 0 => \A i \in DOMAIN decoded : decoded[i].image = loaded
    /\ decoded # <<>> => late = TRUE
    /\ Jpeg!PicturesAreOwn

LEMMA JpegInvImplies == JpegInv => Jpeg!TypeOK /\ Jpeg!CallersHoldLivePictures /\ Jpeg!PicturesAreOwn
  BY DEF JpegInv, ChannelOK, Channels, Jpeg!State, Jpeg!TypeOK, Jpeg!CallersHoldLivePictures

LEMMA BecomesIs ==
  ASSUME NEW k \in Channels, Jpeg!Becomes(k)
  PROVE  /\ Jpeg!State' = k
         /\ channel' = k.channel /\ generation' = k.generation /\ decoded' = k.decoded
         /\ lent' = k.lent /\ size' = k.size
  BY DEF Channels, Jpeg!Becomes, Jpeg!State

LEMMA InitJpeg == Jpeg!Init => JpegInv
<1> SUFFICES ASSUME Jpeg!Init PROVE JpegInv
  OBVIOUS
<1>1. size \in [Jpeg!Decoders -> Nat] /\ \A d \in Jpeg!Decoders : size[d] = 0
  BY DEF Jpeg!Init
<1>2. Jpeg!State \in Channels
  BY <1>1 DEF Jpeg!Init, Channels, Jpeg!State
<1>3. ChannelOK(Jpeg!State)
  BY <1>1, <1>2 DEF Jpeg!Init, ChannelOK, Jpeg!State
<1>4. held \in [Jpeg!Decoders -> Jpeg!Pictures \cup {NoPicture}] /\ \A d \in Jpeg!Decoders : held[d] = NoPicture
  BY DEF Jpeg!Init
<1>5. block \in BOOLEAN
  BY DEF Jpeg!Init
<1>6. late \in BOOLEAN
  BY DEF Jpeg!Init
<1>7. Jpeg!PicturesAreOwn
  BY <1>4 DEF Jpeg!PicturesAreOwn, Jpeg!SourcesShowTheirImage, Jpeg!LoaderShowsItsImage, Jpeg!Decoders
<1>8. loaded = NoPicture /\ asked = NoPicture /\ prealloc = 0 /\ decoded = <<>> /\ lent = {}
  BY DEF Jpeg!Init
<1> QED
  BY <1>1, <1>3, <1>4, <1>5, <1>6, <1>7, <1>8 DEF JpegInv, Jpeg!Decoders

LEMMA ReturnKeeps ==
  ASSUME NEW c, ChannelOK(c), NEW p
  PROVE  /\ ChannelOK(Jpeg!ReturnPicture(c, p))
         /\ Jpeg!ReturnPicture(c, p).size = c.size /\ Jpeg!ReturnPicture(c, p).decoded = c.decoded
         /\ Jpeg!ReturnPicture(c, p).lent = c.lent \ {p}
<1> DEFINE k == Jpeg!ReturnPicture(c, p)
<1>1. /\ k \in Channels /\ k.size = c.size /\ k.decoded = c.decoded /\ k.lent = c.lent \ {p}
      /\ k.channel = c.channel /\ k.generation = c.generation
  BY DEF Jpeg!ReturnPicture, ChannelOK, Channels
<1> HIDE DEF k
<1>2. ChannelOK(k)
  BY <1>1 DEF ChannelOK
<1> QED
  BY <1>1, <1>2 DEF k

\* The state of the channel, spelled out.
LEMMA StateIs ==
  /\ Jpeg!State.decoded = decoded /\ Jpeg!State.lent = lent /\ Jpeg!State.size = size
  /\ Jpeg!State.channel = channel /\ Jpeg!State.generation = generation
  BY DEF Jpeg!State

\* open and close: the source's caller has released its frame.
LEMMA CleanSource ==
  ASSUME JpegInv, held["source"] = NoPicture, Jpeg!Becomes(Jpeg!Cleanup(Jpeg!State, "source")),
         UNCHANGED <<held, prealloc, block, asked, late>>, loaded' \in (DOMAIN ImageSize) \cup {NoPicture}
  PROVE  JpegInv'
<1> DEFINE k == Jpeg!Cleanup(Jpeg!State, "source")
<1>1. Renewed(Jpeg!State, k, "source") /\ k.size["source"] = 0
  BY CleanupRenews DEF JpegInv, Jpeg!Decoders
<1> HIDE DEF k
<1>2. k \in Channels
  BY <1>1 DEF Renewed, ChannelOK
<1>3. Jpeg!State' = k /\ decoded' = k.decoded /\ lent' = k.lent /\ size' = k.size
  BY <1>2, BecomesIs DEF k
<1>4. /\ size'["source"] = 0 /\ size'["loader"] = size["loader"]
      /\ (lent' = lent /\ decoded' = decoded) \/ (lent' = {} /\ decoded' = <<>> /\ size["loader"] = 0)
  BY <1>1, <1>3, StateIs DEF Renewed, Jpeg!Decoders
<1>5. ChannelOK(Jpeg!State')
  BY <1>1, <1>3 DEF Renewed
<1>6. \A d \in Jpeg!Decoders : held'[d] # NoPicture => held'[d] \in lent' /\ size'[d] # 0
  BY <1>4 DEF JpegInv, Jpeg!Decoders
<1>7. \A p \in lent' : \E d \in Jpeg!Decoders : held'[d] = p
  BY <1>4 DEF JpegInv
<1>8. Jpeg!PicturesAreOwn'
  BY DEF JpegInv, Jpeg!PicturesAreOwn, Jpeg!SourcesShowTheirImage, Jpeg!LoaderShowsItsImage
<1>9. decoded' # <<>> => late' = TRUE
  BY <1>4 DEF JpegInv
<1> QED
  BY <1>4, <1>5, <1>6, <1>7, <1>8, <1>9 DEF JpegInv

LEMMA ReadSourceKeeps == ASSUME JpegInv, Jpeg!ReadSource PROVE JpegInv'
<1>1. /\ loaded \in DOMAIN ImageSize /\ held["source"] = NoPicture /\ UNCHANGED <<loaded, prealloc, block, asked>>
      /\ ImageSize[loaded] \in Nat \ {0} /\ NoPicture \notin Jpeg!Pictures
  BY ImagesAreKnown DEF JpegInv, Jpeg!ReadSource, Jpeg!JpegAssumption
<1>2. PICK c \in Jpeg!EnsureInitialized(Jpeg!State, "source", ImageSize[loaded]) :
        IF c.size["source"] = 0
        THEN Jpeg!Becomes(c) /\ UNCHANGED <<held, late>>
        ELSE \E o \in Jpeg!Decode(c, loaded) : Jpeg!Deliver("source", o)
  BY DEF Jpeg!ReadSource
<1>3. Renewed(Jpeg!State, c, "source") /\ ChannelOK(c) /\ c \in Channels
  BY <1>1, EnsureRenews DEF JpegInv, Jpeg!Decoders, Renewed, ChannelOK
<1>4. /\ c.size["loader"] = size["loader"]
      /\ (c.lent = lent /\ c.decoded = decoded /\ c.size = size)
         \/ (c.lent = {} /\ c.decoded = <<>> /\ size["loader"] = 0)
  BY <1>3, StateIs DEF Renewed, Jpeg!Decoders
<1>5. held["loader"] # NoPicture => size["loader"] # 0 /\ held["loader"] \in lent
  BY DEF JpegInv, Jpeg!Decoders
<1>6. CASE c.size["source"] = 0
  <2>1. /\ Jpeg!State' = c /\ decoded' = c.decoded /\ lent' = c.lent /\ size' = c.size /\ UNCHANGED <<held, late>>
    BY <1>2, <1>3, <1>6, BecomesIs
  <2>2. ChannelOK(Jpeg!State')
    BY <1>3, <2>1
  <2>3. \A d \in Jpeg!Decoders : held'[d] # NoPicture => held'[d] \in lent' /\ size'[d] # 0
    BY <1>1, <1>4, <1>5, <2>1 DEF Jpeg!Decoders
  <2>4. \A p \in lent' : \E d \in Jpeg!Decoders : held'[d] = p
    BY <1>4, <2>1 DEF JpegInv
  <2>5. decoded' # <<>> => late' = TRUE
    BY <1>4, <2>1 DEF JpegInv
  <2>6. Jpeg!PicturesAreOwn'
    BY <1>1, <2>1 DEF JpegInv, Jpeg!PicturesAreOwn, Jpeg!SourcesShowTheirImage, Jpeg!LoaderShowsItsImage
  <2> QED
    BY <1>1, <1>6, <2>1, <2>2, <2>3, <2>4, <2>5, <2>6 DEF JpegInv
<1>7. CASE c.size["source"] # 0
  <2> DEFINE sent == Append(c.decoded, [image |-> loaded, generation |-> c.generation])
  <2>1. PICK o \in Jpeg!Decode(c, loaded) : Jpeg!Deliver("source", o)
    BY <1>2, <1>7
  <2>2. /\ ChannelOK(o.after) /\ o.after.size = c.size
        /\ \/ o.picture = NoPicture /\ o.after.lent = c.lent /\ o.after.decoded \in {c.decoded, sent}
           \/ /\ o.picture = Head(sent) /\ o.picture \in Jpeg!Pictures
              /\ o.after.lent = c.lent \cup {o.picture} /\ o.after.decoded = Tail(sent)
    BY <1>1, <1>3, <1>7, <2>1, DecodeTakesTheOldest DEF Jpeg!Decoders
  <2>3. o.after \in Channels
    BY <2>2 DEF ChannelOK
  <2>4. /\ Jpeg!State' = o.after /\ decoded' = o.after.decoded /\ lent' = o.after.lent /\ size' = c.size
        /\ held' = [held EXCEPT !["source"] = o.picture]
        /\ late' = (late \/ Len(o.after.decoded) > 0)
    BY <2>1, <2>2, <2>3, BecomesIs DEF Jpeg!Deliver
  <2>5. ChannelOK(Jpeg!State')
    BY <2>2, <2>4
  <2>6. /\ held' \in [Jpeg!Decoders -> Jpeg!Pictures \cup {NoPicture}]
        /\ held'["source"] = o.picture /\ held'["loader"] = held["loader"]
    BY <2>2, <2>4 DEF JpegInv, Jpeg!Decoders
  <2>7. held["loader"] = NoPicture /\ c.lent = {}
    <3>1. size["loader"] = 0
      BY <1>3, <1>4, <1>7 DEF ChannelOK, Jpeg!Decoders
    <3>2. held["loader"] = NoPicture
      BY <1>5, <3>1
    <3>3. \A p \in lent : p \in Jpeg!Pictures /\ (p = held["loader"] \/ p = held["source"])
      BY StateIs DEF JpegInv, ChannelOK, Channels, Jpeg!Decoders
    <3>4. lent = {}
      BY <1>1, <3>2, <3>3
    <3> QED
      BY <1>4, <3>2, <3>4
  <2>8. \A d \in Jpeg!Decoders : held'[d] # NoPicture => held'[d] \in lent' /\ size'[d] # 0
    BY <1>7, <2>2, <2>4, <2>6, <2>7 DEF Jpeg!Decoders
  <2>9. \A p \in lent' : \E d \in Jpeg!Decoders : held'[d] = p
    BY <2>2, <2>4, <2>6, <2>7 DEF Jpeg!Decoders
  <2>10. c.decoded \in Seq(Jpeg!Pictures) /\ \A i \in DOMAIN c.decoded : c.decoded[i].image = loaded
    <3>1. c.decoded = <<>> \/ (c.decoded = decoded /\ size["source"] # 0)
      BY <1>4, <1>7
    <3> QED
      BY <1>3, <3>1 DEF JpegInv, Channels
  <2>11. sent \in Seq(Jpeg!Pictures) /\ \A i \in DOMAIN sent : sent[i].image = loaded
    BY <1>1, <1>3, <2>10 DEF Channels, Jpeg!Pictures
  <2>12. sent # <<>> /\ Head(sent).image = loaded /\ \A i \in DOMAIN Tail(sent) : Tail(sent)[i].image = loaded
    BY <2>10, <2>11
  <2> HIDE DEF sent
  <2>13. \A i \in DOMAIN decoded' : decoded'[i].image = loaded'
    BY <1>1, <2>2, <2>4, <2>10, <2>11, <2>12
  <2>14. late' \in BOOLEAN /\ (late => late')
    BY <2>4 DEF JpegInv
  <2>15. decoded' # <<>> => late' = TRUE
    <3>1. o.after.decoded \in Seq(Jpeg!Pictures)
      BY <2>3 DEF Channels
    <3>2. Len(o.after.decoded) > 0 <=> o.after.decoded # <<>>
      BY <3>1
    <3>3. late' = TRUE \/ late' = FALSE
      BY <2>14
    <3> QED
      BY <2>4, <3>2, <3>3
  <2>16. Jpeg!PicturesAreOwn'
    <3>1. held'["source"] # NoPicture => held'["source"].image = loaded'
      BY <1>1, <2>2, <2>6, <2>12
    <3>2. held'["loader"] = NoPicture
      BY <2>6, <2>7
    <3> QED
      BY <3>1, <3>2 DEF Jpeg!PicturesAreOwn, Jpeg!SourcesShowTheirImage, Jpeg!LoaderShowsItsImage
  <2> QED
    BY <1>1, <2>5, <2>6, <2>8, <2>9, <2>13, <2>14, <2>15, <2>16 DEF JpegInv
<1> QED
  BY <1>6, <1>7

LEMMA ReleaseSourceKeeps == ASSUME JpegInv, Jpeg!ReleaseSourceFrame PROVE JpegInv'
<1> DEFINE c == Jpeg!ReturnPicture(Jpeg!State, held["source"])
<1>1. /\ held["source"] # NoPicture /\ Jpeg!Becomes(c) /\ UNCHANGED <<loaded, prealloc, block, asked, late>>
      /\ held' = [held EXCEPT !["source"] = NoPicture]
  BY DEF Jpeg!ReleaseSourceFrame
<1>2. ChannelOK(c) /\ c.size = size /\ c.decoded = decoded /\ c.lent = lent \ {held["source"]}
  BY ReturnKeeps, StateIs DEF JpegInv
<1> HIDE DEF c
<1>3. c \in Channels
  BY <1>2 DEF ChannelOK
<1>4. Jpeg!State' = c /\ size' = size /\ decoded' = decoded /\ lent' = lent \ {held["source"]}
  BY <1>1, <1>2, <1>3, BecomesIs
<1>5. /\ held' \in [Jpeg!Decoders -> Jpeg!Pictures \cup {NoPicture}]
      /\ held'["source"] = NoPicture /\ held'["loader"] = held["loader"]
  BY <1>1 DEF JpegInv, Jpeg!Decoders
<1>6. held["loader"] = NoPicture
  <2>1. size["source"] # 0
    BY <1>1 DEF JpegInv, Jpeg!Decoders
  <2>2. size["loader"] = 0
    BY <2>1, StateIs DEF JpegInv, ChannelOK, Jpeg!Decoders
  <2> QED
    BY <2>2 DEF JpegInv, Jpeg!Decoders
<1>7. lent' = {}
  BY <1>4, <1>6, StateIs, ImagesAreKnown DEF JpegInv, ChannelOK, Channels, Jpeg!Decoders, Jpeg!JpegAssumption
<1>8. \A d \in Jpeg!Decoders : held'[d] = NoPicture
  BY <1>5, <1>6 DEF Jpeg!Decoders
<1>9. Jpeg!PicturesAreOwn'
  BY <1>5, <1>6 DEF Jpeg!PicturesAreOwn, Jpeg!SourcesShowTheirImage, Jpeg!LoaderShowsItsImage
<1> QED
  BY <1>1, <1>2, <1>4, <1>5, <1>7, <1>8, <1>9 DEF JpegInv

\* The loader's calls begin by returning its picture.
LEMMA LastReleasedKeeps ==
  ASSUME JpegInv
  PROVE  LET c == Jpeg!LastReleased(Jpeg!State)
         IN  /\ ChannelOK(c) /\ c.size = size /\ c.decoded = decoded
             /\ \A p \in c.lent : p \in lent /\ held["source"] = p
             /\ held["source"] # NoPicture => held["source"] \in c.lent
<1> DEFINE c == Jpeg!LastReleased(Jpeg!State)
<1>0. NoPicture \notin Jpeg!Pictures
  BY ImagesAreKnown DEF Jpeg!JpegAssumption
<1>1. /\ ChannelOK(c) /\ c.size = size /\ c.decoded = decoded
      /\ c.lent = IF held["loader"] = NoPicture THEN lent ELSE lent \ {held["loader"]}
  <2>1. ChannelOK(Jpeg!State)
    BY DEF JpegInv
  <2>2. CASE held["loader"] = NoPicture
    BY <2>1, <2>2, StateIs DEF Jpeg!LastReleased
  <2>3. CASE held["loader"] # NoPicture
    <3>1. c = Jpeg!ReturnPicture(Jpeg!State, held["loader"])
      BY <2>3 DEF Jpeg!LastReleased
    <3> HIDE DEF c
    <3> QED
      BY <2>1, <2>3, <3>1, ReturnKeeps, StateIs
  <2> QED
    BY <2>2, <2>3
<1>2. \A p \in lent : p # NoPicture /\ (p = held["source"] \/ p = held["loader"])
  BY <1>0, StateIs DEF JpegInv, ChannelOK, Channels, Jpeg!Decoders
<1>3. held["source"] = NoPicture \/ held["loader"] = NoPicture
  <2> SUFFICES ASSUME held["source"] # NoPicture, held["loader"] # NoPicture PROVE FALSE
    OBVIOUS
  <2>1. size["source"] # 0 /\ size["loader"] # 0
    BY DEF JpegInv, Jpeg!Decoders
  <2> QED
    BY <2>1, StateIs DEF JpegInv, ChannelOK, Jpeg!Decoders
<1>4. held["source"] # NoPicture => held["source"] \in lent
  BY DEF JpegInv, Jpeg!Decoders
<1> HIDE DEF c
<1>5. (\A p \in c.lent : p \in lent /\ held["source"] = p) /\ (held["source"] # NoPicture => held["source"] \in c.lent)
  BY <1>1, <1>2, <1>3, <1>4
<1> QED
  BY <1>1, <1>5 DEF c

LEMMA ReleaseLoaderKeeps ==
  ASSUME JpegInv, Jpeg!Becomes(Jpeg!LastReleased(Jpeg!State)), held' = [held EXCEPT !["loader"] = NoPicture],
         prealloc' \in Nat, block' \in BOOLEAN, UNCHANGED <<loaded, asked, late>>
  PROVE  JpegInv'
<1> DEFINE c == Jpeg!LastReleased(Jpeg!State)
<1>1. /\ ChannelOK(c) /\ c.size = size /\ c.decoded = decoded
      /\ \A p \in c.lent : p \in lent /\ held["source"] = p
      /\ held["source"] # NoPicture => held["source"] \in c.lent
  BY LastReleasedKeeps
<1>2. Jpeg!Becomes(c)
  OBVIOUS
<1> HIDE DEF c
<1>3. c \in Channels
  BY <1>1 DEF ChannelOK
<1>4. Jpeg!State' = c /\ size' = size /\ decoded' = decoded /\ lent' = c.lent
  BY <1>1, <1>2, <1>3, BecomesIs
<1>5. /\ held' \in [Jpeg!Decoders -> Jpeg!Pictures \cup {NoPicture}]
      /\ held'["loader"] = NoPicture /\ held'["source"] = held["source"]
  BY DEF JpegInv, Jpeg!Decoders
<1>6. \A d \in Jpeg!Decoders : held'[d] # NoPicture => held'[d] \in lent' /\ size'[d] # 0
  BY <1>1, <1>4, <1>5 DEF JpegInv, Jpeg!Decoders
<1>7. \A p \in lent' : \E d \in Jpeg!Decoders : held'[d] = p
  BY <1>1, <1>4, <1>5 DEF Jpeg!Decoders
<1>8. Jpeg!PicturesAreOwn'
  BY <1>5 DEF JpegInv, Jpeg!PicturesAreOwn, Jpeg!SourcesShowTheirImage, Jpeg!LoaderShowsItsImage
<1> QED
  BY <1>1, <1>4, <1>5, <1>6, <1>7, <1>8 DEF JpegInv

LEMMA DestroyLoaderKeeps == ASSUME JpegInv, Jpeg!DestroyLoader PROVE JpegInv'
<1> DEFINE c == Jpeg!LastReleased(Jpeg!State)
           k == Jpeg!Cleanup(c, "loader")
<1>1. /\ ChannelOK(c) /\ c.size = size /\ c.decoded = decoded
      /\ \A p \in c.lent : p \in lent /\ held["source"] = p
      /\ held["source"] # NoPicture => held["source"] \in c.lent
  BY LastReleasedKeeps
<1>2. /\ Jpeg!Becomes(k) /\ held' = [held EXCEPT !["loader"] = NoPicture]
      /\ prealloc' = 0 /\ block' = FALSE /\ UNCHANGED <<loaded, asked, late>>
  BY DEF Jpeg!DestroyLoader
<1> HIDE DEF c
<1>3. Renewed(c, k, "loader") /\ k.size["loader"] = 0
  BY <1>1, CleanupRenews DEF Jpeg!Decoders
<1> HIDE DEF k
<1>4. ChannelOK(k) /\ k \in Channels
  BY <1>3 DEF Renewed, ChannelOK
<1>5. Jpeg!State' = k /\ size' = k.size /\ decoded' = k.decoded /\ lent' = k.lent
  BY <1>2, <1>4, BecomesIs
<1>6. /\ size'["loader"] = 0 /\ size'["source"] = size["source"]
      /\ (lent' = c.lent /\ decoded' = decoded) \/ (lent' = {} /\ decoded' = <<>> /\ size["source"] = 0)
  BY <1>1, <1>3, <1>5 DEF Renewed, Jpeg!Decoders
<1>7. /\ held' \in [Jpeg!Decoders -> Jpeg!Pictures \cup {NoPicture}]
      /\ held'["loader"] = NoPicture /\ held'["source"] = held["source"]
  BY <1>2 DEF JpegInv, Jpeg!Decoders
<1>8. \A d \in Jpeg!Decoders : held'[d] # NoPicture => held'[d] \in lent' /\ size'[d] # 0
  <2>1. held["source"] # NoPicture => size["source"] # 0
    BY DEF JpegInv, Jpeg!Decoders
  <2> QED
    BY <1>1, <1>6, <1>7, <2>1 DEF Jpeg!Decoders
<1>9. \A p \in lent' : \E d \in Jpeg!Decoders : held'[d] = p
  BY <1>1, <1>6, <1>7 DEF Jpeg!Decoders
<1>10. Jpeg!PicturesAreOwn'
  BY <1>2, <1>7 DEF JpegInv, Jpeg!PicturesAreOwn, Jpeg!SourcesShowTheirImage, Jpeg!LoaderShowsItsImage
<1>11. decoded' # <<>> => late' = TRUE
  BY <1>2, <1>6 DEF JpegInv
<1>12. size'["source"] # 0 => \A i \in DOMAIN decoded' : decoded'[i].image = loaded'
  BY <1>2, <1>6 DEF JpegInv
<1>13. block' \in BOOLEAN
  BY <1>2
<1>14. prealloc' \in Nat /\ UNCHANGED <<loaded, asked, late>>
  BY <1>2
<1> QED
  BY <1>4, <1>5, <1>7, <1>8, <1>9, <1>10, <1>11, <1>12, <1>13, <1>14 DEF JpegInv

LEMMA LoadKeeps ==
  ASSUME JpegInv, NEW image \in DOMAIN ImageSize, NEW fast \in BOOLEAN, Jpeg!Load(image, fast)
  PROVE  JpegInv'
<1> DEFINE b == Jpeg!LastReleased(Jpeg!State)
<1>1. /\ ChannelOK(b) /\ b.size = size /\ b.decoded = decoded
      /\ \A p \in b.lent : p \in lent /\ held["source"] = p
      /\ held["source"] # NoPicture => held["source"] \in b.lent
  BY LastReleasedKeeps
<1> HIDE DEF b
<1>2. ImageSize[image] \in Nat \ {0} /\ NoPicture \notin Jpeg!Pictures
  BY ImagesAreKnown DEF Jpeg!JpegAssumption
<1>3. PICK c \in Jpeg!InitDecoder(b, "loader", ImageSize[image])
                 \cup Jpeg!EnsureInitialized(b, "loader", ImageSize[image]) :
        IF c.size["loader"] = 0
        THEN Jpeg!Becomes(c) /\ held' = [held EXCEPT !["loader"] = NoPicture] /\ UNCHANGED late
        ELSE \E o \in Jpeg!Decode(c, image) : Jpeg!Deliver("loader", o)
  <2>1. CASE fast
    BY <2>1 DEF Jpeg!Load, b
  <2>2. CASE ~fast
    BY <2>2 DEF Jpeg!Load, b
  <2> QED
    BY <2>1, <2>2
<1>4. asked' = image /\ UNCHANGED <<loaded, prealloc, block>>
  BY DEF Jpeg!Load
<1>5. Renewed(b, c, "loader") /\ ChannelOK(c) /\ c \in Channels
  BY <1>1, <1>2, <1>3, InitRenews, EnsureRenews DEF Jpeg!Decoders, Renewed, ChannelOK
<1>6. /\ c.size["source"] = size["source"]
      /\ (c.lent = b.lent /\ c.decoded = decoded) \/ (c.lent = {} /\ c.decoded = <<>> /\ size["source"] = 0)
  BY <1>1, <1>5 DEF Renewed, Jpeg!Decoders
<1>7. held["source"] # NoPicture => size["source"] # 0
  BY DEF JpegInv, Jpeg!Decoders
<1>8. CASE c.size["loader"] = 0
  <2>1. /\ Jpeg!State' = c /\ decoded' = c.decoded /\ lent' = c.lent /\ size' = c.size
        /\ held' = [held EXCEPT !["loader"] = NoPicture] /\ UNCHANGED late
    BY <1>3, <1>5, <1>8, BecomesIs
  <2>2. /\ held' \in [Jpeg!Decoders -> Jpeg!Pictures \cup {NoPicture}]
        /\ held'["loader"] = NoPicture /\ held'["source"] = held["source"]
    BY <2>1 DEF JpegInv, Jpeg!Decoders
  <2>3. \A d \in Jpeg!Decoders : held'[d] # NoPicture => held'[d] \in lent' /\ size'[d] # 0
    BY <1>1, <1>6, <1>7, <2>1, <2>2 DEF Jpeg!Decoders
  <2>4. \A p \in lent' : \E d \in Jpeg!Decoders : held'[d] = p
    BY <1>1, <1>6, <2>1, <2>2 DEF Jpeg!Decoders
  <2>5. decoded' # <<>> => late' = TRUE
    BY <1>6, <2>1 DEF JpegInv
  <2>6. size'["source"] # 0 => \A i \in DOMAIN decoded' : decoded'[i].image = loaded'
    BY <1>4, <1>6, <2>1 DEF JpegInv
  <2>7. Jpeg!PicturesAreOwn'
    BY <1>4, <2>2 DEF JpegInv, Jpeg!PicturesAreOwn, Jpeg!SourcesShowTheirImage, Jpeg!LoaderShowsItsImage
  <2> QED
    BY <1>4, <1>5, <2>1, <2>2, <2>3, <2>4, <2>5, <2>6, <2>7 DEF JpegInv
<1>9. CASE c.size["loader"] # 0
  <2> DEFINE p == [image |-> image, generation |-> c.generation]
             sent == Append(c.decoded, p)
  <2>1. PICK o \in Jpeg!Decode(c, image) : Jpeg!Deliver("loader", o)
    BY <1>3, <1>9
  <2>2. /\ ChannelOK(o.after) /\ o.after.size = c.size
        /\ \/ o.picture = NoPicture /\ o.after.lent = c.lent /\ o.after.decoded \in {c.decoded, sent}
           \/ /\ o.picture = Head(sent) /\ o.picture \in Jpeg!Pictures
              /\ o.after.lent = c.lent \cup {o.picture} /\ o.after.decoded = Tail(sent)
    BY <1>5, <1>9, <2>1, DecodeTakesTheOldest DEF Jpeg!Decoders
  <2>3. o.after \in Channels
    BY <2>2 DEF ChannelOK
  <2>4. /\ Jpeg!State' = o.after /\ decoded' = o.after.decoded /\ lent' = o.after.lent /\ size' = c.size
        /\ held' = [held EXCEPT !["loader"] = o.picture]
        /\ late' = (late \/ Len(o.after.decoded) > 0)
    BY <2>1, <2>2, <2>3, BecomesIs DEF Jpeg!Deliver
  <2>5. /\ held' \in [Jpeg!Decoders -> Jpeg!Pictures \cup {NoPicture}]
        /\ held'["loader"] = o.picture /\ held'["source"] = held["source"]
    BY <2>2, <2>4 DEF JpegInv, Jpeg!Decoders
  <2>6. size["source"] = 0 /\ held["source"] = NoPicture /\ c.lent = {}
    <3>1. size["source"] = 0
      BY <1>5, <1>6, <1>9 DEF ChannelOK, Jpeg!Decoders
    <3>2. held["source"] = NoPicture
      BY <1>7, <3>1
    <3>3. \A q \in lent : q # NoPicture
      BY <1>2, StateIs DEF JpegInv, ChannelOK, Channels
    <3> QED
      BY <1>1, <1>6, <3>1, <3>2, <3>3
  <2>7. \A d \in Jpeg!Decoders : held'[d] # NoPicture => held'[d] \in lent' /\ size'[d] # 0
    BY <1>9, <2>2, <2>4, <2>5, <2>6 DEF Jpeg!Decoders
  <2>8. \A q \in lent' : \E d \in Jpeg!Decoders : held'[d] = q
    BY <2>2, <2>4, <2>5, <2>6 DEF Jpeg!Decoders
  <2>9. late' \in BOOLEAN /\ (late => late')
    BY <2>4 DEF JpegInv
  <2>10. decoded' # <<>> => late' = TRUE
    <3>1. o.after.decoded \in Seq(Jpeg!Pictures)
      BY <2>3 DEF Channels
    <3>2. Len(o.after.decoded) > 0 <=> o.after.decoded # <<>>
      BY <3>1
    <3>3. late' = TRUE \/ late' = FALSE
      BY <2>9
    <3> QED
      BY <2>4, <3>2, <3>3
  <2>11. size'["source"] = 0
    BY <1>6, <2>4, <2>6
  <2>12. Jpeg!PicturesAreOwn'
    <3>1. held'["source"] = NoPicture
      BY <2>5, <2>6
    <3>2. ASSUME ~late', held'["loader"] # NoPicture PROVE held'["loader"].image = asked'
      <4>1. decoded = <<>> /\ c.decoded = <<>>
        BY <1>6, <2>9, <3>2 DEF JpegInv
      <4>2. sent = <<p>>
        BY <4>1
      <4>3. held'["loader"] = p
        BY <2>2, <2>5, <3>2, <4>2
      <4> QED
        BY <1>4, <4>3
    <3> QED
      BY <3>1, <3>2 DEF Jpeg!PicturesAreOwn, Jpeg!SourcesShowTheirImage, Jpeg!LoaderShowsItsImage
  <2> QED
    BY <1>4, <2>2, <2>4, <2>5, <2>7, <2>8, <2>9, <2>10, <2>11, <2>12 DEF JpegInv
<1> QED
  BY <1>8, <1>9

LEMMA NextJpeg == ASSUME JpegInv, [Jpeg!Next]_Jpeg!vars PROVE JpegInv'
<1>1. CASE Jpeg!OpenSource
  BY <1>1, CleanSource DEF Jpeg!OpenSource
<1>2. CASE Jpeg!CloseSource
  BY <1>2, CleanSource DEF Jpeg!CloseSource
<1>3. ASSUME NEW s \in {ImageSize[i] : i \in DOMAIN ImageSize}, Jpeg!Preallocate(s) PROVE JpegInv'
  <2>1. s \in Nat
    BY ImagesAreKnown DEF Jpeg!JpegAssumption
  <2> QED
    BY <1>3, <2>1, ReleaseLoaderKeeps DEF Jpeg!Preallocate
<1>4. CASE Jpeg!ReleaseLoader
  BY <1>4, ReleaseLoaderKeeps DEF Jpeg!ReleaseLoader
<1>5. CASE UNCHANGED Jpeg!vars
  <2>1. Jpeg!State' = Jpeg!State
    BY <1>5 DEF Jpeg!vars, Jpeg!State
  <2> QED
    BY <1>5, <2>1 DEF Jpeg!vars, JpegInv, Jpeg!PicturesAreOwn, Jpeg!SourcesShowTheirImage, Jpeg!LoaderShowsItsImage
<1>6. ASSUME NEW i \in DOMAIN ImageSize, Jpeg!Load(i, TRUE) \/ Jpeg!Load(i, FALSE) PROVE JpegInv'
  BY <1>6, LoadKeeps
<1> QED
  BY <1>1, <1>2, <1>3, <1>4, <1>5, <1>6, ReadSourceKeeps, ReleaseSourceKeeps, DestroyLoaderKeeps DEF Jpeg!Next

\* While the decoder runs, its invariant holds.
THEOREM JpegInvariant == Spec => [](which = "jpeg" => JpegInv)
<1> DEFINE Inv == which = "jpeg" => JpegInv
<1>1. Init => Inv
  BY InitJpeg DEF Init
<1>2. ASSUME Inv, [Next]_vars PROVE Inv'
  <2> SUFFICES ASSUME which' = "jpeg" PROVE JpegInv'
    OBVIOUS
  <2>1. which = "jpeg" /\ [Jpeg!Next]_Jpeg!vars
    <3>1. CASE Next
      BY <3>1 DEF Next
    <3>2. CASE UNCHANGED vars
      BY <3>2 DEF vars, onlyJpeg, Jpeg!vars
    <3> QED
      BY <1>2, <3>1, <3>2
  <2> QED
    BY <1>2, <2>1, NextJpeg
<1> QED
  BY <1>1, <1>2, PTL DEF Spec

(* A picture that a caller of the decoder holds is lent by the channel, and   *)
(* each lent picture is held: no re-creation of the channel, failed call or   *)
(* abandoned decoder breaks it.  A source gets the picture of its image, the  *)
(* loader too until a call of it gave up on the hardware too early.           *)
THEOREM PicturesStayAlive == Spec => []CallersHoldLivePictures
<1>1. (which = "jpeg" => JpegInv) => CallersHoldLivePictures
  BY JpegInvImplies DEF CallersHoldLivePictures
<1> QED
  BY <1>1, JpegInvariant, PTL

-----------------------------------------------------------------------------
(* Vpss: calls, groups and mishaps                                          *)

Groups == [input : Inputs \cup {None}, started : BOOLEAN, chn : Outputs \cup {None}, enabled : BOOLEAN,
           crop : BOOLEAN, queue : Seq(Vpss!Results)]
Knowledge == [created : BOOLEAN, started : BOOLEAN, input : Inputs \cup {None}, output : Outputs \cup {None}]
Steps == {"idle", "group", "channel", "send", "get"}

\* What a processor knows of its own call.
CallsKnow ==
    \A p \in Processors :
        /\ pc[p] # "idle" => job[p] \in Jobs
        /\ pc[p] \in {"channel", "send", "get"} => proc[p].created /\ proc[p].input = job[p].input
        /\ pc[p] \in {"send", "get"} => proc[p].output = job[p].output
        /\ proc[p].output # None => proc[p].created /\ proc[p].started

\* What the driver was told is complete.
GroupIsSet ==
    /\ group.started => group.input # None
    /\ group.enabled => group.chn # None /\ group.input # None
    /\ group.crop => group.input # None

\* One processor has the group, and knows it, unless two share it.
OneHasTheGroup ==
    "shared" \notin mishap =>
        /\ \A p, q \in Processors : proc[p].created /\ proc[q].created => p = q
        /\ \A p \in Processors : proc[p].created => group.input = proc[p].input
        /\ group.input # None /\ "kept" \notin mishap => \E p \in Processors : proc[p].created

\* It knows how the channel is set up unless a set-up stopped halfway, and its crop
\* is that of its call unless one was not taken back.  The channel has no picture
\* ready but for a call that fetches one, unless one came late, and then the one
\* that was asked for unless one of the others came between.
ChannelIsKnown ==
    "shared" \notin mishap =>
        /\ "halfway" \notin mishap => \A p \in Processors : proc[p].output # None => group.chn = proc[p].output
        /\ "crop" \notin mishap => \A p \in Processors : pc[p] = "get" => (group.crop <=> job[p].crop)
        /\ "late" \notin mishap /\ group.queue # <<>> =>
               Tail(group.queue) = <<>> /\ \E p \in Processors : pc[p] = "get"
        /\ mishap \subseteq {"kept"} /\ group.queue # <<>> =>
               \E p \in Processors : pc[p] = "get" /\ group.queue = <<Vpss!Asked(p)>>

VpssInv == Vpss!TypeOK /\ CallsKnow /\ GroupIsSet /\ OneHasTheGroup /\ ChannelIsKnown /\ Vpss!CropsEnd

LEMMA InitVpss == Vpss!Init => VpssInv
<1> SUFFICES ASSUME Vpss!Init PROVE VpssInv
  OBVIOUS
<1> USE DEF Vpss!Init, Vpss!NoGroup, Vpss!NewProcessor
<1>1. Vpss!TypeOK
  BY DEF Vpss!TypeOK
<1>2. CallsKnow
  BY DEF CallsKnow
<1>3. GroupIsSet /\ OneHasTheGroup /\ ChannelIsKnown
  BY DEF GroupIsSet, OneHasTheGroup, ChannelIsKnown
<1>4. Vpss!CropsEnd
  BY DEF Vpss!CropsEnd
<1> QED
  BY <1>1, <1>2, <1>3, <1>4 DEF VpssInv

LEMMA VpssTyped ==
  ASSUME VpssInv
  PROVE  /\ group \in Groups /\ proc \in [Processors -> Knowledge] /\ pc \in [Processors -> Steps]
         /\ job \in [Processors -> Jobs \cup {None}] /\ result \in [Processors -> Vpss!Results \cup {None}]
         /\ mishap \subseteq {"shared", "halfway", "crop", "late", "kept"}
  BY DEF VpssInv, Vpss!TypeOK, Groups, Knowledge, Steps

LEMMA VpssTypes ==
  ASSUME group' \in Groups, proc' \in [Processors -> Knowledge], pc' \in [Processors -> Steps],
         job' \in [Processors -> Jobs \cup {None}], result' \in [Processors -> Vpss!Results \cup {None}],
         mishap' \subseteq {"shared", "halfway", "crop", "late", "kept"}
  PROVE  Vpss!TypeOK'
  BY DEF Vpss!TypeOK, Groups, Knowledge, Steps

\* Jobs name inputs and outputs.
LEMMA JobFields == \A j \in Jobs : /\ j.input \in Inputs /\ j.input # None /\ j.output \in Outputs /\ j.output # None
                                   /\ j.crop \in BOOLEAN
  BY JobsAreKnown DEF Vpss!VpssAssumption

\* A group as it is made, and a processor that made it.
LEMMA NewGroup ==
  ASSUME NEW i, NEW g, g = [Vpss!NoGroup EXCEPT !.input = i]
  PROVE  g = [input |-> i, started |-> FALSE, chn |-> None, enabled |-> FALSE, crop |-> FALSE, queue |-> <<>>]
  BY DEF Vpss!NoGroup

LEMMA NewMaker ==
  ASSUME NEW i, NEW k, k = [Vpss!NewProcessor EXCEPT !.created = TRUE, !.input = i]
  PROVE  k = [created |-> TRUE, started |-> FALSE, input |-> i, output |-> None]
  BY DEF Vpss!NewProcessor

\* While nobody shares, a processor in a call is the only one that has the group.
LEMMA OneIsInACall ==
  ASSUME VpssInv, "shared" \notin mishap, NEW p \in Processors, proc[p].created
  PROVE  \A q \in Processors : q # p => ~proc[q].created /\ pc[q] \notin {"channel", "send", "get"} /\ proc[q].output = None
  BY DEF VpssInv, CallsKnow, OneHasTheGroup

LEMMA VpssCall ==
  ASSUME VpssInv, NEW p \in Processors, NEW j \in Jobs, Vpss!Call(p, j)
  PROVE  VpssInv'
<1> USE DEF Vpss!Call, VpssInv
<1>1. Vpss!TypeOK'
  BY DEF Vpss!TypeOK
<1>2. CallsKnow'
  BY DEF CallsKnow, Vpss!TypeOK
<1>3. GroupIsSet' /\ OneHasTheGroup'
  BY DEF GroupIsSet, OneHasTheGroup
<1>4. ChannelIsKnown'
  BY DEF ChannelIsKnown, Vpss!TypeOK, Vpss!Asked
<1>5. Vpss!CropsEnd'
  BY DEF Vpss!CropsEnd, Vpss!TypeOK
<1> QED
  BY <1>1, <1>2, <1>3, <1>4, <1>5

\* A processor that gives the group up leaves none, a new one, or the one there was.
LEMMA GivesUp ==
  ASSUME VpssInv, NEW p \in Processors, pc[p] \in {"idle", "group"},
         group' \in Groups, GroupIsSet',
         group'.crop => group.crop, group'.queue # <<>> => group'.queue = group.queue,
         proc' = [proc EXCEPT ![p] = [created |-> FALSE, started |-> FALSE, input |-> None, output |-> None]],
         pc' = [pc EXCEPT ![p] = "idle"],
         job' \in [Processors -> Jobs \cup {None}], \A q \in Processors : q # p => job'[q] = job[q],
         UNCHANGED result,
         mishap' = Vpss!GivenUp(p)
  PROVE  VpssInv'
<1> DEFINE none == [created |-> FALSE, started |-> FALSE, input |-> None, output |-> None]
<1>1. /\ group \in Groups /\ proc \in [Processors -> Knowledge] /\ pc \in [Processors -> Steps]
      /\ result \in [Processors -> Vpss!Results \cup {None}]
      /\ mishap \subseteq {"shared", "halfway", "crop", "late", "kept"}
  BY VpssTyped
<1>2. /\ proc' \in [Processors -> Knowledge] /\ proc'[p] = none
      /\ \A q \in Processors : q # p => proc'[q] = proc[q]
  <2>1. none \in Knowledge
    BY DEF Knowledge
  <2> HIDE DEF none
  <2> QED
    BY <1>1, <2>1 DEF none
<1>3. pc' \in [Processors -> Steps] /\ pc'[p] = "idle" /\ \A q \in Processors : q # p => pc'[q] = pc[q]
  BY <1>1 DEF Steps
<1>4. /\ mishap' \subseteq {"shared", "halfway", "crop", "late", "kept"}
      /\ group' # Vpss!NoGroup => mishap \subseteq mishap' /\ "kept" \in mishap'
      /\ "shared" \notin mishap' => \A q \in Processors : q # p => ~proc[q].created
  BY <1>1 DEF Vpss!GivenUp, Vpss!Others
<1>5. Vpss!NoGroup.input = None /\ Vpss!NoGroup.crop = FALSE /\ Vpss!NoGroup.queue = <<>>
  BY DEF Vpss!NoGroup
<1>6. ASSUME "shared" \notin mishap'
      PROVE  \A q \in Processors : /\ ~proc'[q].created /\ proc'[q].output = None
                                   /\ pc[q] # "get" /\ pc'[q] # "get"
  <2>1. \A q \in Processors : q # p => ~proc[q].created
    BY <1>4, <1>6
  <2> QED
    BY <1>2, <1>3, <2>1 DEF VpssInv, CallsKnow
<1>7. Vpss!TypeOK'
  BY <1>1, <1>2, <1>3, <1>4, VpssTypes
<1>8. CallsKnow'
  BY <1>2, <1>3 DEF VpssInv, CallsKnow
<1>9. OneHasTheGroup'
  BY <1>4, <1>5, <1>6 DEF OneHasTheGroup
<1>10. ChannelIsKnown'
  <2>1. ASSUME mishap' \cap {"shared", "late"} = {}, group'.queue # <<>> PROVE FALSE
    <3>1. /\ group' # Vpss!NoGroup /\ group.queue # <<>> /\ "shared" \notin mishap'
          /\ "shared" \notin mishap /\ "late" \notin mishap
      BY <1>4, <1>5, <2>1
    <3>2. PICK q \in Processors : pc[q] = "get"
      BY <3>1 DEF VpssInv, ChannelIsKnown
    <3> QED
      BY <1>6, <3>1, <3>2
  <2> QED
    BY <1>6, <2>1 DEF ChannelIsKnown
<1>11. Vpss!CropsEnd'
  <2> SUFFICES ASSUME group'.crop, mishap' \cap {"crop", "shared"} = {} PROVE FALSE
    BY DEF Vpss!CropsEnd
  <2>1. group' # Vpss!NoGroup /\ group.crop /\ mishap \cap {"crop", "shared"} = {}
    BY <1>4, <1>5
  <2>2. PICK q \in Processors : pc[q] = "get"
    BY <2>1 DEF VpssInv, Vpss!CropsEnd
  <2> QED
    BY <1>6, <2>2
<1> QED
  BY <1>7, <1>8, <1>9, <1>10, <1>11 DEF VpssInv

\* What the calls that halt a group leave of it.
LEMMA HaltedGroups ==
  ASSUME VpssInv, NEW g \in Vpss!Halted \cup {group}
  PROVE  /\ g \in Groups /\ g.input = group.input /\ g.chn = group.chn /\ g.crop = group.crop /\ g.queue = group.queue
         /\ g.enabled => group.enabled
         /\ g.started => group.started
<1>1. group \in Groups
  BY VpssTyped
<1>2. CASE g = group
  BY <1>1, <1>2
<1>3. CASE g \in Vpss!Halted
  <2>1. PICK e \in {FALSE, group.enabled}, s \in {FALSE, group.started} :
            g = [group EXCEPT !.enabled = e, !.started = s]
    BY <1>3 DEF Vpss!Halted
  <2> QED
    BY ONLY <1>1, <2>1 DEF Groups
<1> QED
  BY <1>2, <1>3

LEMMA VpssDestroyGroup ==
  ASSUME VpssInv, NEW p \in Processors, Vpss!DestroyGroup(p)
  PROVE  VpssInv'
<1>1. /\ pc[p] = "idle" /\ group' \in {Vpss!NoGroup} \cup Vpss!Halted \cup {group}
      /\ proc' = [proc EXCEPT ![p] = [created |-> FALSE, started |-> FALSE, input |-> None, output |-> None]]
      /\ mishap' = Vpss!GivenUp(p) /\ UNCHANGED <<pc, job, result>>
  BY DEF Vpss!DestroyGroup, Vpss!NewProcessor
<1>2. /\ group' \in Groups /\ GroupIsSet' /\ (group'.crop => group.crop)
      /\ (group'.queue # <<>> => group'.queue = group.queue)
  <2>1. CASE group' = Vpss!NoGroup
    <3>1. Vpss!NoGroup \in Groups
      BY DEF Vpss!NoGroup, Groups
    <3> QED
      BY <2>1, <3>1 DEF Vpss!NoGroup, GroupIsSet
  <2>2. CASE group' \in Vpss!Halted \cup {group}
    BY <2>2, HaltedGroups DEF VpssInv, GroupIsSet
  <2> QED
    BY <1>1, <2>1, <2>2
<1>3. job \in [Processors -> Jobs \cup {None}] /\ pc \in [Processors -> Steps]
  BY VpssTyped
<1>4. pc' = [pc EXCEPT ![p] = "idle"]
  BY <1>1, <1>3
<1> QED
  BY <1>1, <1>2, <1>3, <1>4, GivesUp

\* A group that was made or reset is nobody's but p's, unless others believe it theirs.
LEMMA VpssRenew ==
  ASSUME VpssInv, NEW p \in Processors, pc[p] = "group", Vpss!Renew(p)
  PROVE  VpssInv'
<1> DEFINE new == [created |-> TRUE, started |-> FALSE, input |-> job[p].input, output |-> None]
<1>1. /\ group \in Groups /\ proc \in [Processors -> Knowledge] /\ pc \in [Processors -> Steps]
      /\ job \in [Processors -> Jobs \cup {None}] /\ result \in [Processors -> Vpss!Results \cup {None}]
  BY VpssTyped
<1>2. job[p] \in Jobs /\ job[p].input \in Inputs /\ job[p].input # None
  BY JobFields DEF VpssInv, CallsKnow
<1>3. /\ group' = [input |-> job[p].input, started |-> FALSE, chn |-> None, enabled |-> FALSE, crop |-> FALSE,
                   queue |-> <<>>]
      /\ proc' = [proc EXCEPT ![p] = new] /\ pc' = [pc EXCEPT ![p] = "channel"] /\ UNCHANGED <<job, result>>
      /\ mishap' = IF \E q \in Processors \ {p} : proc[q].created THEN {"shared"} ELSE {}
  <2>1. group' = [input |-> job[p].input, started |-> FALSE, chn |-> None, enabled |-> FALSE, crop |-> FALSE,
                  queue |-> <<>>]
    BY NewGroup DEF Vpss!Renew
  <2>2. [Vpss!NewProcessor EXCEPT !.created = TRUE, !.input = job[p].input] = new
    BY NewMaker
  <2> QED
    BY <2>1, <2>2 DEF Vpss!Renew, Vpss!Others, Vpss!Goes
<1>4. group' \in Groups
  BY <1>2, <1>3 DEF Groups
<1>5. proc' \in [Processors -> Knowledge] /\ proc'[p] = new /\ \A q \in Processors : q # p => proc'[q] = proc[q]
  <2>1. new \in Knowledge
    BY <1>2 DEF Knowledge
  <2> HIDE DEF new
  <2> QED
    BY <1>1, <1>3, <2>1
<1>6. pc' \in [Processors -> Steps] /\ pc'[p] = "channel" /\ \A q \in Processors : q # p => pc'[q] = pc[q]
  BY <1>1, <1>3 DEF Steps
<1>7. mishap' \subseteq {"shared"} /\ ("shared" \notin mishap' => \A q \in Processors : q # p => ~proc[q].created)
  BY <1>3
<1>8. Vpss!TypeOK'
  BY <1>1, <1>3, <1>4, <1>5, <1>6, <1>7, VpssTypes
<1>9. CallsKnow'
  BY <1>2, <1>3, <1>5, <1>6 DEF VpssInv, CallsKnow
<1>10. GroupIsSet' /\ Vpss!CropsEnd'
  BY <1>3 DEF GroupIsSet, Vpss!CropsEnd
<1>11. OneHasTheGroup'
  BY <1>3, <1>5, <1>7 DEF OneHasTheGroup
<1>12. ChannelIsKnown'
  <2> SUFFICES ASSUME "shared" \notin mishap' PROVE \A q \in Processors : proc'[q].output = None /\ pc'[q] # "get"
    BY <1>3 DEF ChannelIsKnown
  <2> QED
    BY <1>5, <1>6, <1>7 DEF VpssInv, CallsKnow
<1> QED
  BY <1>8, <1>9, <1>10, <1>11, <1>12 DEF VpssInv

LEMMA VpssEnsureGroup ==
  ASSUME VpssInv, NEW p \in Processors, Vpss!EnsureGroup(p)
  PROVE  VpssInv'
<1>1. pc[p] = "group" /\ job[p] \in Jobs /\ job[p].input \in Inputs /\ job[p].input # None
  BY JobFields DEF VpssInv, CallsKnow, Vpss!EnsureGroup
<1>2. CASE /\ proc[p].created /\ proc[p].input = job[p].input
           /\ UNCHANGED <<group, proc, mishap>> /\ Vpss!Goes(p, "channel")
  <2> USE <1>1, <1>2 DEF VpssInv, Vpss!Goes
  <2>1. Vpss!TypeOK'
    BY DEF Vpss!TypeOK
  <2>2. CallsKnow'
    BY DEF CallsKnow, Vpss!TypeOK
  <2>3. GroupIsSet' /\ OneHasTheGroup'
    BY DEF GroupIsSet, OneHasTheGroup
  <2>4. ChannelIsKnown'
    BY DEF ChannelIsKnown, Vpss!TypeOK, Vpss!Asked
  <2>5. Vpss!CropsEnd'
    BY DEF Vpss!CropsEnd, Vpss!TypeOK
  <2> QED
    BY <2>1, <2>2, <2>3, <2>4, <2>5
<1>3. CASE Vpss!Renew(p)
  BY <1>1, <1>3, VpssRenew
<1>4. CASE /\ \/ group' \in {Vpss!NoGroup, [Vpss!NoGroup EXCEPT !.input = job[p].input]}
              \/ Vpss!Exists /\ \E g \in Vpss!Halted : group' \in {g, [g EXCEPT !.input = job[p].input]}
           /\ proc' = [proc EXCEPT ![p] = Vpss!NewProcessor]
           /\ mishap' = Vpss!GivenUp(p)
           /\ Vpss!Throws(p)
  <2>1. /\ group' \in Groups /\ GroupIsSet' /\ (group'.crop => group.crop)
        /\ (group'.queue # <<>> => group'.queue = group.queue)
    <3>1. CASE group' = Vpss!NoGroup \/ group' = [Vpss!NoGroup EXCEPT !.input = job[p].input]
      <4>1. PICK i \in Inputs \cup {None} :
                group' = [input |-> i, started |-> FALSE, chn |-> None, enabled |-> FALSE, crop |-> FALSE, queue |-> <<>>]
        BY <1>1, <3>1, NewGroup DEF Vpss!NoGroup
      <4>2. group' \in Groups
        BY <4>1 DEF Groups
      <4> QED
        BY <4>1, <4>2 DEF GroupIsSet
    <3>2. ASSUME NEW g \in Vpss!Halted, group' \in {g, [g EXCEPT !.input = job[p].input]}
          PROVE  /\ group' \in Groups /\ GroupIsSet' /\ (group'.crop => group.crop)
                 /\ (group'.queue # <<>> => group'.queue = group.queue)
      <4>1. /\ g \in Groups /\ g.input = group.input /\ g.chn = group.chn /\ g.crop = group.crop /\ g.queue = group.queue
            /\ (g.enabled => group.enabled) /\ (g.started => group.started)
        BY HaltedGroups
      <4>2. /\ group' \in Groups /\ group'.input \in {group.input, job[p].input} /\ group'.chn = group.chn
            /\ group'.crop = group.crop /\ group'.queue = group.queue
            /\ group'.enabled = g.enabled /\ group'.started = g.started
        BY ONLY <1>1, <3>2, <4>1 DEF Groups
      <4> QED
        BY <1>1, <4>1, <4>2 DEF VpssInv, GroupIsSet
    <3> QED
      BY <1>4, <3>1, <3>2
  <2>2. /\ job' \in [Processors -> Jobs \cup {None}] /\ \A q \in Processors : q # p => job'[q] = job[q]
    BY <1>4, VpssTyped DEF Vpss!Throws, Vpss!Ends
  <2>3. /\ proc' = [proc EXCEPT ![p] = [created |-> FALSE, started |-> FALSE, input |-> None, output |-> None]]
        /\ pc' = [pc EXCEPT ![p] = "idle"] /\ UNCHANGED result /\ mishap' = Vpss!GivenUp(p)
    BY <1>4 DEF Vpss!NewProcessor, Vpss!Throws, Vpss!Ends
  <2> QED
    BY <1>1, <2>1, <2>2, <2>3, GivesUp
<1> QED
  BY <1>1, <1>2, <1>3, <1>4 DEF Vpss!EnsureGroup

\* While the channel is set up, nobody else is in a call unless the group is shared.
LEMMA VpssEnsureChannel ==
  ASSUME VpssInv, NEW p \in Processors, Vpss!EnsureChannel(p)
  PROVE  VpssInv'
<1> DEFINE out == job[p].output
           on == [group EXCEPT !.chn = out, !.enabled = TRUE]
<1>1. /\ group \in Groups /\ proc \in [Processors -> Knowledge] /\ pc \in [Processors -> Steps]
      /\ job \in [Processors -> Jobs \cup {None}] /\ result \in [Processors -> Vpss!Results \cup {None}]
      /\ mishap \subseteq {"shared", "halfway", "crop", "late", "kept"}
  BY VpssTyped
<1>2. /\ pc[p] = "channel" /\ job[p] \in Jobs /\ out \in Outputs /\ out # None
      /\ proc[p].created /\ proc[p].input = job[p].input
  BY JobFields DEF VpssInv, CallsKnow, Vpss!EnsureChannel
<1>3. ASSUME "shared" \notin mishap
      PROVE  \A q \in Processors : pc[q] # "get" /\ (q # p => ~proc[q].created /\ proc[q].output = None)
  BY <1>2, <1>3, OneIsInACall
<1>4. CASE proc[p].started /\ proc[p].output = out /\ UNCHANGED <<group, proc, mishap>> /\ Vpss!Goes(p, "send")
  <2> USE <1>2, <1>4 DEF VpssInv, Vpss!Goes
  <2>1. Vpss!TypeOK'
    BY DEF Vpss!TypeOK
  <2>2. CallsKnow'
    BY DEF CallsKnow, Vpss!TypeOK
  <2>3. GroupIsSet' /\ OneHasTheGroup'
    BY DEF GroupIsSet, OneHasTheGroup
  <2>4. ChannelIsKnown'
    BY DEF ChannelIsKnown, Vpss!TypeOK, Vpss!Asked
  <2>5. Vpss!CropsEnd'
    BY DEF Vpss!CropsEnd, Vpss!TypeOK
  <2> QED
    BY <2>1, <2>2, <2>3, <2>4, <2>5
<1>5. CASE /\ IF Vpss!Exists
              THEN \/ group' = on
                   \/ \E g \in {[group EXCEPT !.enabled = e] : e \in {group.enabled} \cup {b \in {FALSE} : proc[p].started}} :
                          group' \in {g, [g EXCEPT !.chn = out]}
              ELSE UNCHANGED group
           /\ mishap' = Vpss!Halfway(p) /\ Vpss!Throws(p) /\ UNCHANGED proc
  <2>1. /\ group' \in Groups /\ group'.input = group.input /\ group'.crop = group.crop /\ group'.queue = group.queue
        /\ group'.started = group.started
        /\ group'.enabled => (group'.chn # None /\ group'.input # None)
    <3>1. CASE group.input # None /\ group' = on
      BY ONLY <1>1, <1>2, <3>1 DEF Groups
    <3>2. ASSUME group.input # None,
                 NEW g \in {[group EXCEPT !.enabled = e] : e \in {group.enabled} \cup {b \in {FALSE} : proc[p].started}},
                 group' \in {g, [g EXCEPT !.chn = out]}
          PROVE  /\ group' \in Groups /\ group'.input = group.input /\ group'.crop = group.crop
                 /\ group'.queue = group.queue /\ group'.started = group.started
                 /\ group'.enabled => (group'.chn # None /\ group'.input # None)
      <4>1. /\ g \in Groups /\ g.input = group.input /\ g.crop = group.crop /\ g.queue = group.queue
            /\ g.started = group.started /\ g.chn = group.chn /\ (g.enabled => group.enabled)
        BY ONLY <1>1, <3>2 DEF Groups
      <4>2. /\ group' \in Groups /\ group'.input = g.input /\ group'.crop = g.crop /\ group'.queue = g.queue
            /\ group'.started = g.started /\ group'.chn \in {g.chn, out} /\ group'.enabled = g.enabled
        BY ONLY <1>2, <3>2, <4>1 DEF Groups
      <4> QED
        BY <1>2, <3>2, <4>1, <4>2 DEF VpssInv, GroupIsSet
    <3>3. CASE group.input = None /\ UNCHANGED group
      BY <1>1, <3>3 DEF VpssInv, GroupIsSet
    <3> QED
      BY <1>5, <3>1, <3>2, <3>3 DEF Vpss!Exists
  <2>2. /\ pc' \in [Processors -> Steps] /\ job' \in [Processors -> Jobs \cup {None}] /\ UNCHANGED <<proc, result>>
        /\ pc'[p] = "idle" /\ \A q \in Processors : q # p => pc'[q] = pc[q] /\ job'[q] = job[q]
    BY <1>1, <1>5 DEF Vpss!Throws, Vpss!Ends, Steps
  <2>3. /\ mishap \subseteq mishap' /\ mishap' \subseteq mishap \cup {"halfway"}
        /\ proc[p].started => "halfway" \in mishap'
    BY <1>5 DEF Vpss!Halfway
  <2>4. Vpss!TypeOK'
    BY <1>1, <2>1, <2>2, <2>3, VpssTypes
  <2>5. CallsKnow'
    BY <2>2 DEF VpssInv, CallsKnow
  <2>6. GroupIsSet'
    BY <2>1 DEF VpssInv, GroupIsSet
  <2>7. OneHasTheGroup'
    BY <2>1, <2>2, <2>3 DEF VpssInv, OneHasTheGroup
  <2>8. ChannelIsKnown'
    <3> SUFFICES ASSUME "shared" \notin mishap' PROVE ChannelIsKnown'
      BY DEF ChannelIsKnown
    <3>1. \A q \in Processors : pc[q] # "get" /\ pc'[q] # "get"
      BY <1>3, <2>2, <2>3
    <3>2. "halfway" \notin mishap' => \A q \in Processors : proc'[q].output = None
      BY <1>2, <1>3, <2>2, <2>3 DEF VpssInv, CallsKnow
    <3>3. "late" \notin mishap' => group'.queue = <<>>
      BY <2>1, <2>3, <3>1 DEF VpssInv, ChannelIsKnown
    <3> QED
      BY <3>1, <3>2, <3>3 DEF ChannelIsKnown
  <2>9. Vpss!CropsEnd'
    <3> SUFFICES ASSUME group'.crop, mishap' \cap {"crop", "shared"} = {} PROVE FALSE
      BY DEF Vpss!CropsEnd
    <3> QED
      BY <1>3, <2>1, <2>3 DEF VpssInv, Vpss!CropsEnd
  <2> QED
    BY <2>4, <2>5, <2>6, <2>7, <2>8, <2>9 DEF VpssInv
<1>6. CASE /\ Vpss!Exists /\ group' = [on EXCEPT !.started = TRUE]
           /\ \/ /\ proc' = [proc EXCEPT ![p].started = TRUE]
                 /\ mishap' = Vpss!Halfway(p) /\ Vpss!Throws(p)
              \/ /\ proc' = [proc EXCEPT ![p].started = TRUE, ![p].output = out]
                 /\ mishap' = mishap \ {"halfway"} /\ Vpss!Goes(p, "send")
  <2>1. /\ group' \in Groups /\ group'.input = group.input /\ group'.crop = group.crop /\ group'.queue = group.queue
        /\ group'.chn = out /\ group.input # None
    <3>1. on \in Groups /\ on.input = group.input /\ on.crop = group.crop /\ on.queue = group.queue /\ on.chn = out
      BY ONLY <1>1, <1>2 DEF Groups
    <3> HIDE DEF on
    <3>2. group' = [on EXCEPT !.started = TRUE]
      BY <1>6
    <3>3. /\ group' \in Groups /\ group'.input = on.input /\ group'.crop = on.crop /\ group'.queue = on.queue
          /\ group'.chn = on.chn
      BY ONLY <3>1, <3>2 DEF Groups
    <3> QED
      BY <1>6, <3>1, <3>3 DEF Vpss!Exists
  <2>2. \/ /\ proc' = [proc EXCEPT ![p] = [@ EXCEPT !.started = TRUE]]
           /\ mishap' = mishap \cup (IF proc[p].started THEN {"halfway"} ELSE {})
           /\ pc' = [pc EXCEPT ![p] = "idle"] /\ job' = [job EXCEPT ![p] = None] /\ UNCHANGED result
        \/ /\ proc' = [proc EXCEPT ![p] = [@ EXCEPT !.started = TRUE, !.output = out]]
           /\ mishap' = mishap \ {"halfway"}
           /\ pc' = [pc EXCEPT ![p] = "send"] /\ UNCHANGED <<job, result>>
    <3>1. [proc EXCEPT ![p].started = TRUE, ![p].output = out] = [proc EXCEPT ![p] = [@ EXCEPT !.started = TRUE, !.output = out]]
      BY <1>1
    <3> QED
      BY <1>6, <3>1 DEF Vpss!Halfway, Vpss!Throws, Vpss!Ends, Vpss!Goes
  <2>3. /\ proc' \in [Processors -> Knowledge] /\ \A q \in Processors : q # p => proc'[q] = proc[q]
        /\ proc'[p].created /\ proc'[p].started /\ proc'[p].input = proc[p].input
        /\ proc'[p].output \in {proc[p].output, out}
        /\ pc'[p] = "send" => proc'[p].output = out
        /\ pc'[p] = "idle" => proc'[p].output = proc[p].output
    <3> DEFINE k == [proc[p] EXCEPT !.started = TRUE]
               m == [proc[p] EXCEPT !.started = TRUE, !.output = out]
    <3>1. /\ k \in Knowledge /\ k.created = proc[p].created /\ k.started = TRUE /\ k.input = proc[p].input
          /\ k.output = proc[p].output
          /\ m \in Knowledge /\ m.created = proc[p].created /\ m.started = TRUE /\ m.input = proc[p].input
          /\ m.output = out
      <4>1. proc[p] \in Knowledge
        BY <1>1
      <4> QED
        BY ONLY <1>2, <4>1 DEF Knowledge
    <3>2. \/ proc' = [proc EXCEPT ![p] = k] /\ pc' = [pc EXCEPT ![p] = "idle"]
          \/ proc' = [proc EXCEPT ![p] = m] /\ pc' = [pc EXCEPT ![p] = "send"]
      BY <2>2
    <3> HIDE DEF k, m
    <3> QED
      BY <1>1, <1>2, <3>1, <3>2
  <2>4. /\ pc' \in [Processors -> Steps] /\ job' \in [Processors -> Jobs \cup {None}] /\ UNCHANGED result
        /\ pc'[p] \in {"idle", "send"} /\ (pc'[p] = "send" => job'[p] = job[p])
        /\ \A q \in Processors : q # p => pc'[q] = pc[q] /\ job'[q] = job[q]
    BY <1>1, <2>2 DEF Steps
  <2>5. /\ mishap' \subseteq mishap \cup {"halfway"} /\ mishap \subseteq mishap' \cup {"halfway"}
        /\ pc'[p] = "idle" => (mishap \subseteq mishap' /\ (proc[p].started => "halfway" \in mishap'))
    <3>1. CASE mishap' = mishap \cup (IF proc[p].started THEN {"halfway"} ELSE {})
      BY <3>1
    <3>2. CASE mishap' = mishap \ {"halfway"} /\ pc' = [pc EXCEPT ![p] = "send"]
      BY <1>1, <3>2
    <3> QED
      BY <2>2, <3>1, <3>2
  <2>6. Vpss!TypeOK'
    BY <1>1, <2>1, <2>3, <2>4, <2>5, VpssTypes
  <2>7. CallsKnow'
    BY <1>2, <2>3, <2>4 DEF VpssInv, CallsKnow
  <2>8. GroupIsSet'
    BY <1>2, <2>1 DEF GroupIsSet
  <2>9. OneHasTheGroup'
    BY <1>2, <2>1, <2>3, <2>5 DEF VpssInv, OneHasTheGroup
  <2>10. ChannelIsKnown'
    <3> SUFFICES ASSUME "shared" \notin mishap' PROVE ChannelIsKnown'
      BY DEF ChannelIsKnown
    <3>0. "shared" \notin mishap
      BY <2>5
    <3>1. \A q \in Processors : pc[q] # "get" /\ pc'[q] # "get"
      BY <1>3, <2>4, <3>0
    <3>2. ASSUME "halfway" \notin mishap', NEW q \in Processors, proc'[q].output # None
          PROVE  group'.chn = proc'[q].output
      <4>1. q = p
        BY <1>3, <2>3, <3>0, <3>2
      <4>2. CASE pc'[p] = "idle"
        <5>1. proc[p].output = None
          BY <2>5, <3>2, <4>2 DEF VpssInv, CallsKnow
        <5> QED
          BY <2>3, <3>2, <4>1, <4>2, <5>1
      <4> QED
        BY <2>1, <2>3, <2>4, <4>1, <4>2
    <3>3. "late" \notin mishap' => group'.queue = <<>>
      BY <2>1, <2>5, <3>0, <3>1 DEF VpssInv, ChannelIsKnown
    <3> QED
      BY <3>1, <3>2, <3>3 DEF ChannelIsKnown
  <2>11. Vpss!CropsEnd'
    <3> SUFFICES ASSUME group'.crop, mishap' \cap {"crop", "shared"} = {} PROVE FALSE
      BY DEF Vpss!CropsEnd
    <3>1. mishap \cap {"crop", "shared"} = {} /\ group.crop
      BY <2>1, <2>5
    <3> QED
      BY <1>3, <3>1 DEF VpssInv, Vpss!CropsEnd
  <2> QED
    BY <2>6, <2>7, <2>8, <2>9, <2>10, <2>11 DEF VpssInv
<1> QED
  BY <1>4, <1>5, <1>6 DEF Vpss!EnsureChannel

\* What is left of the group when the crop is taken back, or is not.
LEMMA UncropLeaves ==
  ASSUME NEW p \in Processors, NEW g \in Groups, NEW m, Vpss!Uncrop(p, g, m)
  PROVE  /\ group' \in Groups /\ group'.input = g.input /\ group'.chn = g.chn
         /\ group'.enabled = g.enabled /\ group'.started = g.started /\ group'.queue = g.queue
         /\ m \subseteq mishap' \cup {"crop"} /\ mishap' \subseteq m \cup {"crop"}
         /\ group'.crop => (g.crop \/ group.input # None)
         /\ "crop" \notin mishap' /\ group'.crop =>
                g.crop /\ "crop" \notin m /\ ~(job[p].crop /\ group.input # None)
<1>1. CASE group' = [g EXCEPT !.crop = FALSE] /\ mishap' = m \ {"crop"}
  <2>1. /\ group' \in Groups /\ group'.input = g.input /\ group'.chn = g.chn /\ group'.crop = FALSE
        /\ group'.enabled = g.enabled /\ group'.started = g.started /\ group'.queue = g.queue
    BY ONLY <1>1, g \in Groups DEF Groups
  <2> QED
    BY <1>1, <2>1
<1>2. CASE group.input # None /\ group' = [g EXCEPT !.crop = TRUE] /\ mishap' = m \cup {"crop"}
  <2>1. /\ group' \in Groups /\ group'.input = g.input /\ group'.chn = g.chn
        /\ group'.enabled = g.enabled /\ group'.started = g.started /\ group'.queue = g.queue
    BY ONLY <1>2, g \in Groups DEF Groups
  <2> QED
    BY <1>2, <2>1
<1>3. CASE ~(job[p].crop /\ group.input # None) /\ group' = g /\ mishap' = m
  BY <1>3
<1> QED
  BY <1>1, <1>2, <1>3 DEF Vpss!Uncrop, Vpss!Exists

\* A call that ends after the channel was set up, and leaves neither a crop nor a
\* picture unless something is wrong.
LEMMA EndsCall ==
  ASSUME VpssInv, NEW p \in Processors, pc[p] \in {"send", "get"},
         group' \in Groups, group'.input = group.input, group'.chn = group.chn,
         group'.enabled = group.enabled, group'.started = group.started,
         group'.crop => group.input # None,
         UNCHANGED proc, Vpss!Ends(p), result' \in [Processors -> Vpss!Results \cup {None}],
         mishap \subseteq mishap' \cup {"crop"}, mishap' \subseteq mishap \cup {"crop", "late"},
         "shared" \notin mishap' /\ "crop" \notin mishap' => ~group'.crop,
         "shared" \notin mishap' /\ "late" \notin mishap' => group'.queue = <<>>
  PROVE  VpssInv'
<1>1. /\ proc \in [Processors -> Knowledge] /\ pc \in [Processors -> Steps]
      /\ job \in [Processors -> Jobs \cup {None}]
      /\ mishap \subseteq {"shared", "halfway", "crop", "late", "kept"}
  BY VpssTyped
<1>2. /\ pc' \in [Processors -> Steps] /\ job' \in [Processors -> Jobs \cup {None}]
      /\ pc'[p] = "idle" /\ \A q \in Processors : q # p => pc'[q] = pc[q] /\ job'[q] = job[q]
  BY <1>1 DEF Vpss!Ends, Steps
<1>3. "shared" \notin mishap' => \A q \in Processors : pc'[q] # "get"
  <2>1. proc[p].created
    BY DEF VpssInv, CallsKnow
  <2> QED
    BY <1>2, <2>1, OneIsInACall
<1>4. Vpss!TypeOK'
  BY <1>1, <1>2, VpssTypes
<1>5. CallsKnow'
  BY <1>2 DEF VpssInv, CallsKnow
<1>6. GroupIsSet'
  BY DEF VpssInv, GroupIsSet
<1>7. OneHasTheGroup'
  BY DEF VpssInv, OneHasTheGroup
<1>8. ChannelIsKnown'
  <2> SUFFICES ASSUME "shared" \notin mishap' PROVE ChannelIsKnown'
    BY DEF ChannelIsKnown
  <2>1. "halfway" \notin mishap' => \A q \in Processors : proc'[q].output # None => group'.chn = proc'[q].output
    BY DEF VpssInv, ChannelIsKnown
  <2> QED
    BY <1>3, <2>1 DEF ChannelIsKnown
<1>9. Vpss!CropsEnd'
  BY DEF Vpss!CropsEnd
<1> QED
  BY <1>4, <1>5, <1>6, <1>7, <1>8, <1>9 DEF VpssInv

\* Before a frame is sent, nothing is in the channel and no crop is set.
LEMMA NothingBeforeSending ==
  ASSUME VpssInv, NEW p \in Processors, pc[p] = "send", "shared" \notin mishap
  PROVE  /\ \A q \in Processors : pc[q] # "get"
         /\ "crop" \notin mishap => ~group.crop
         /\ "late" \notin mishap => group.queue = <<>>
<1>1. \A q \in Processors : pc[q] # "get"
  <2>1. proc[p].created
    BY DEF VpssInv, CallsKnow
  <2> QED
    BY <2>1, OneIsInACall
<1>2. "crop" \notin mishap => ~group.crop
  BY <1>1 DEF VpssInv, Vpss!CropsEnd
<1>3. "late" \notin mishap => group.queue = <<>>
  BY <1>1 DEF VpssInv, ChannelIsKnown
<1> QED
  BY <1>1, <1>2, <1>3

LEMMA VpssCopyFails ==
  ASSUME VpssInv, NEW p \in Processors, Vpss!CopyFails(p)
  PROVE  VpssInv'
<1>1. /\ pc[p] = "send" /\ UNCHANGED proc /\ Vpss!Ends(p) /\ UNCHANGED result
      /\ \/ group.input # None /\ group' = [group EXCEPT !.crop = TRUE] /\ mishap' = mishap \cup {"crop"}
         \/ UNCHANGED <<group, mishap>>
  BY DEF Vpss!CopyFails, Vpss!Throws, Vpss!Exists
<1>2. group \in Groups /\ result' \in [Processors -> Vpss!Results \cup {None}]
  BY <1>1, VpssTyped
<1>3. /\ group' \in Groups /\ group'.input = group.input /\ group'.chn = group.chn
      /\ group'.enabled = group.enabled /\ group'.started = group.started /\ group'.queue = group.queue
      /\ group'.crop => group.input # None
  <2>1. CASE group.input # None /\ group' = [group EXCEPT !.crop = TRUE]
    BY ONLY <1>2, <2>1 DEF Groups
  <2>2. CASE UNCHANGED group
    BY <1>2, <2>2 DEF VpssInv, GroupIsSet
  <2> QED
    BY <1>1, <2>1, <2>2
<1>4. mishap \subseteq mishap' /\ mishap' \subseteq mishap \cup {"crop"}
  BY <1>1
<1>5. /\ "shared" \notin mishap' /\ "crop" \notin mishap' => ~group'.crop
      /\ "shared" \notin mishap' /\ "late" \notin mishap' => group'.queue = <<>>
  BY <1>1, <1>3, <1>4, NothingBeforeSending
<1> QED
  BY <1>1, <1>2, <1>3, <1>4, <1>5, EndsCall

LEMMA VpssSendFrame ==
  ASSUME VpssInv, NEW p \in Processors, Vpss!SendFrame(p)
  PROVE  VpssInv'
<1> DEFINE g == IF job[p].crop THEN [group EXCEPT !.crop = TRUE] ELSE group
           made == [by |-> p, input |-> g.input, output |-> g.chn, crop |-> g.crop]
<1>1. /\ group \in Groups /\ proc \in [Processors -> Knowledge] /\ pc \in [Processors -> Steps]
      /\ job \in [Processors -> Jobs \cup {None}] /\ result \in [Processors -> Vpss!Results \cup {None}]
      /\ mishap \subseteq {"shared", "halfway", "crop", "late", "kept"}
  BY VpssTyped
<1>2. /\ pc[p] = "send" /\ UNCHANGED proc /\ job[p] \in Jobs /\ job[p].crop \in BOOLEAN
      /\ proc[p].created /\ proc[p].input = job[p].input /\ proc[p].output = job[p].output
      /\ job[p].output # None
  BY JobFields DEF VpssInv, CallsKnow, Vpss!SendFrame
<1>3. \/ Vpss!Throws(p) /\ UNCHANGED <<group, mishap>>
      \/ Vpss!Throws(p) /\ Vpss!Uncrop(p, group, mishap)
      \/ /\ group.started
         /\ \/ group' = g /\ (g.enabled => g.queue # <<>>)
            \/ g.enabled /\ group' = [g EXCEPT !.queue = <<made>>]
         /\ pc' = [pc EXCEPT ![p] = "get"] /\ UNCHANGED <<job, result, mishap>>
  BY DEF Vpss!SendFrame, Vpss!Goes, Vpss!Made
<1>4. CASE Vpss!Throws(p) /\ UNCHANGED <<group, mishap>>
  <2>1. Vpss!Ends(p) /\ UNCHANGED result
    BY <1>4 DEF Vpss!Throws
  <2>2. group.crop => group.input # None
    BY DEF VpssInv, GroupIsSet
  <2> QED
    BY <1>1, <1>2, <1>4, <2>1, <2>2, NothingBeforeSending, EndsCall
<1>5. CASE Vpss!Throws(p) /\ Vpss!Uncrop(p, group, mishap)
  <2>1. Vpss!Ends(p) /\ UNCHANGED result
    BY <1>5 DEF Vpss!Throws
  <2>2. /\ group' \in Groups /\ group'.input = group.input /\ group'.chn = group.chn
        /\ group'.enabled = group.enabled /\ group'.started = group.started /\ group'.queue = group.queue
        /\ mishap \subseteq mishap' \cup {"crop"} /\ mishap' \subseteq mishap \cup {"crop"}
        /\ group'.crop => (group.crop \/ group.input # None)
        /\ "crop" \notin mishap' /\ group'.crop => group.crop /\ "crop" \notin mishap
    BY <1>1, <1>5, UncropLeaves
  <2>3. group'.crop => group.input # None
    BY <2>2 DEF VpssInv, GroupIsSet
  <2>4. "shared" \notin mishap' => "shared" \notin mishap
    BY <2>2
  <2>5. /\ "shared" \notin mishap' /\ "crop" \notin mishap' => ~group'.crop
        /\ "shared" \notin mishap' /\ "late" \notin mishap' => group'.queue = <<>>
    BY <1>2, <2>2, <2>4, NothingBeforeSending
  <2> QED
    BY <1>1, <1>2, <2>1, <2>2, <2>3, <2>5, EndsCall
<1>6. CASE /\ group.started
           /\ \/ group' = g /\ (g.enabled => g.queue # <<>>)
              \/ g.enabled /\ group' = [g EXCEPT !.queue = <<made>>]
           /\ pc' = [pc EXCEPT ![p] = "get"] /\ UNCHANGED <<job, result, mishap>>
  <2>1. /\ g \in Groups /\ g.input = group.input /\ g.started = group.started /\ g.chn = group.chn
        /\ g.enabled = group.enabled /\ g.queue = group.queue /\ g.crop \in BOOLEAN
        /\ g.crop <=> group.crop \/ job[p].crop
    BY ONLY <1>1, <1>2 DEF Groups
  <2>2. group.input # None /\ (g.enabled => group.chn # None)
    BY <1>6, <2>1 DEF VpssInv, GroupIsSet
  <2>3. g.enabled => made \in Vpss!Results
    <3>1. group.input \in Inputs \cup {None} /\ group.chn \in Outputs \cup {None}
      BY ONLY <1>1 DEF Groups
    <3> QED
      BY <2>1, <2>2, <3>1 DEF Vpss!Results
  <2> HIDE DEF g, made
  <2>4. /\ group' \in Groups /\ group'.input = group.input /\ group'.started = group.started
        /\ group'.chn = group.chn /\ group'.enabled = group.enabled /\ group'.crop = g.crop
        /\ \/ group'.queue = group.queue /\ (group.enabled => group.queue # <<>>)
           \/ group'.queue = <<made>>
    <3>1. CASE group' = g /\ (g.enabled => g.queue # <<>>)
      BY <2>1, <3>1
    <3>2. CASE group' = [g EXCEPT !.queue = <<made>>] /\ g.enabled
      <4>1. <<made>> \in Seq(Vpss!Results)
        BY <2>3, <3>2
      <4>2. /\ group' \in Groups /\ group'.input = g.input /\ group'.started = g.started
            /\ group'.chn = g.chn /\ group'.enabled = g.enabled /\ group'.crop = g.crop
            /\ group'.queue = <<made>>
        BY ONLY <2>1, <3>2, <4>1 DEF Groups
      <4> QED
        BY <2>1, <4>2
    <3> QED
      BY <1>6, <3>1, <3>2
  <2>5. pc' \in [Processors -> Steps] /\ pc'[p] = "get" /\ \A q \in Processors : q # p => pc'[q] = pc[q]
    BY <1>1, <1>6 DEF Steps
  <2>6. Vpss!TypeOK'
    BY <1>1, <1>2, <1>6, <2>4, <2>5, VpssTypes
  <2>7. CallsKnow'
    BY <1>2, <1>6, <2>5 DEF VpssInv, CallsKnow
  <2>8. GroupIsSet'
    BY <2>2, <2>4 DEF VpssInv, GroupIsSet
  <2>9. OneHasTheGroup'
    BY <1>2, <1>6, <2>4 DEF VpssInv, OneHasTheGroup
  <2>10. ChannelIsKnown'
    <3> SUFFICES ASSUME "shared" \notin mishap PROVE ChannelIsKnown'
      BY <1>6 DEF ChannelIsKnown
    <3>1. /\ \A q \in Processors : pc[q] # "get" /\ (pc'[q] = "get" <=> q = p)
          /\ "crop" \notin mishap => ~group.crop
          /\ "late" \notin mishap => group.queue = <<>>
      BY <1>2, <2>5, NothingBeforeSending
    <3>2. "halfway" \notin mishap => \A q \in Processors : proc[q].output # None => group.chn = proc[q].output
      BY <3>1 DEF VpssInv, ChannelIsKnown
    <3>3. "crop" \notin mishap => (g.crop <=> job[p].crop)
      BY <2>1, <3>1
    <3>4. "late" \notin mishap /\ group'.queue # <<>> => group'.queue = <<made>>
      BY <2>4, <3>1
    <3>5. mishap \subseteq {"kept"} => made = Vpss!Asked(p)
      <4> SUFFICES ASSUME mishap \subseteq {"kept"} PROVE made = Vpss!Asked(p)
        OBVIOUS
      <4>1. group.input = job[p].input /\ group.chn = job[p].output
        BY <1>2, <3>2 DEF VpssInv, OneHasTheGroup
      <4>2. g.crop = job[p].crop
        BY <1>2, <2>1, <3>3
      <4> QED
        BY <2>1, <4>1, <4>2 DEF Vpss!Asked, made
    <3>6. Vpss!Asked(p)' = Vpss!Asked(p)
      BY <1>6 DEF Vpss!Asked
    <3>7. Tail(<<made>>) = <<>>
      OBVIOUS
    <3>8. "crop" \notin mishap' => \A q \in Processors : pc'[q] = "get" => (group'.crop <=> job'[q].crop)
      BY <1>6, <2>4, <3>1, <3>3
    <3>9. "late" \notin mishap' /\ group'.queue # <<>> =>
              Tail(group'.queue) = <<>> /\ \E q \in Processors : pc'[q] = "get"
      BY <1>6, <3>1, <3>4, <3>7
    <3>10. mishap' \subseteq {"kept"} /\ group'.queue # <<>> =>
               \E q \in Processors : pc'[q] = "get" /\ group'.queue = <<Vpss!Asked(q)'>>
      BY <1>6, <3>1, <3>4, <3>5, <3>6
    <3> QED
      BY <1>2, <1>6, <2>4, <3>2, <3>8, <3>9, <3>10 DEF ChannelIsKnown
  <2>11. Vpss!CropsEnd'
    <3> SUFFICES ASSUME group'.crop, mishap \cap {"crop", "shared"} = {} PROVE pc'[p] = "get" /\ job'[p].crop
      BY <1>6 DEF Vpss!CropsEnd
    <3>1. ~group.crop
      BY <1>2, NothingBeforeSending
    <3> QED
      BY <1>6, <2>1, <2>4, <2>5, <3>1
  <2> QED
    BY <2>6, <2>7, <2>8, <2>9, <2>10, <2>11 DEF VpssInv
<1> HIDE DEF g, made
<1> QED
  BY <1>3, <1>4, <1>5, <1>6

\* A call that fetches, with or without success, and takes its crop back, or not.
LEMMA FetchEnds ==
  ASSUME VpssInv, NEW p \in Processors, pc[p] = "get", UNCHANGED proc, Vpss!Ends(p),
         result' \in [Processors -> Vpss!Results \cup {None}],
         NEW g \in Groups, g.input = group.input, g.chn = group.chn, g.enabled = group.enabled,
         g.started = group.started, g.crop = group.crop,
         NEW m, mishap \subseteq m, m \subseteq mishap \cup {"late"},
         "shared" \notin m /\ "late" \notin m => g.queue = <<>>,
         Vpss!Uncrop(p, g, m)
  PROVE  VpssInv'
<1>1. /\ group' \in Groups /\ group'.input = g.input /\ group'.chn = g.chn
      /\ group'.enabled = g.enabled /\ group'.started = g.started /\ group'.queue = g.queue
      /\ m \subseteq mishap' \cup {"crop"} /\ mishap' \subseteq m \cup {"crop"}
      /\ group'.crop => (g.crop \/ group.input # None)
      /\ "crop" \notin mishap' /\ group'.crop =>
             g.crop /\ "crop" \notin m /\ ~(job[p].crop /\ group.input # None)
  BY UncropLeaves
<1>2. group.crop => group.input # None
  BY DEF VpssInv, GroupIsSet
<1>3. ASSUME "shared" \notin mishap', "crop" \notin mishap', group'.crop PROVE FALSE
  <2>1. "shared" \notin mishap /\ "crop" \notin mishap /\ group.crop /\ ~job[p].crop
    BY <1>1, <1>2, <1>3
  <2> QED
    BY <2>1 DEF VpssInv, ChannelIsKnown
<1>4. /\ mishap \subseteq mishap' \cup {"crop"} /\ mishap' \subseteq mishap \cup {"crop", "late"}
      /\ "shared" \notin mishap' /\ "late" \notin mishap' => group'.queue = <<>>
  BY <1>1
<1>5. /\ group'.input = group.input /\ group'.chn = group.chn /\ group'.enabled = group.enabled
      /\ group'.started = group.started /\ (group'.crop => group.input # None)
  BY <1>1, <1>2
<1>6. "shared" \notin mishap' /\ "crop" \notin mishap' => ~group'.crop
  BY <1>3
<1> QED
  BY <1>1, <1>4, <1>5, <1>6, EndsCall

LEMMA VpssGetFrame ==
  ASSUME VpssInv, NEW p \in Processors, Vpss!GetFrame(p)
  PROVE  VpssInv'
<1>1. group \in Groups /\ group.queue \in Seq(Vpss!Results) /\ result \in [Processors -> Vpss!Results \cup {None}]
  <2>1. group \in Groups /\ result \in [Processors -> Vpss!Results \cup {None}]
    BY VpssTyped
  <2> QED
    BY <2>1 DEF Groups
<1>2. pc[p] = "get" /\ UNCHANGED proc /\ Vpss!Ends(p)
  BY DEF Vpss!GetFrame, Vpss!Throws
<1>3. CASE group.queue = <<>> /\ Vpss!Uncrop(p, group, mishap) /\ UNCHANGED result
  BY <1>1, <1>2, <1>3, FetchEnds
<1>4. CASE Vpss!Uncrop(p, group, mishap \cup {"late"}) /\ UNCHANGED result
  BY <1>1, <1>2, <1>4, FetchEnds
<1>5. CASE /\ group.queue # <<>>
           /\ Vpss!Uncrop(p, [group EXCEPT !.queue = Tail(@)], mishap)
           /\ result' = [result EXCEPT ![p] = Head(group.queue)]
  <2> DEFINE taken == [group EXCEPT !.queue = Tail(group.queue)]
  <2>1. Tail(group.queue) \in Seq(Vpss!Results) /\ Head(group.queue) \in Vpss!Results
    BY <1>1, <1>5
  <2>2. /\ taken \in Groups /\ taken.input = group.input /\ taken.chn = group.chn
        /\ taken.enabled = group.enabled /\ taken.started = group.started /\ taken.crop = group.crop
        /\ taken.queue = Tail(group.queue)
    BY ONLY <1>1, <2>1 DEF Groups
  <2>3. Vpss!Uncrop(p, taken, mishap)
    BY <1>5
  <2> HIDE DEF taken
  <2>4. result' \in [Processors -> Vpss!Results \cup {None}]
    BY <1>1, <1>5, <2>1
  <2>5. "shared" \notin mishap /\ "late" \notin mishap => taken.queue = <<>>
    BY <1>5, <2>2 DEF VpssInv, ChannelIsKnown
  <2> QED
    BY <1>2, <2>2, <2>3, <2>4, <2>5, FetchEnds
<1> QED
  BY <1>3, <1>4, <1>5 DEF Vpss!GetFrame, Vpss!Throws

LEMMA NextVpss == ASSUME VpssInv, [Vpss!Next]_Vpss!vars PROVE VpssInv'
<1>1. CASE Vpss!Next
  BY <1>1, VpssCall, VpssDestroyGroup, VpssEnsureGroup, VpssEnsureChannel, VpssCopyFails, VpssSendFrame,
     VpssGetFrame DEF Vpss!Next
<1>2. CASE UNCHANGED Vpss!vars
  BY <1>2 DEF Vpss!vars, VpssInv, Vpss!TypeOK, CallsKnow, GroupIsSet, OneHasTheGroup, ChannelIsKnown,
              Vpss!CropsEnd, Vpss!Asked
<1> QED
  BY <1>1, <1>2

\* A step that hands a picture on fetches it, and with nothing wrong it is the one
\* that was asked for.
LEMMA VpssAnswers == ASSUME VpssInv, Vpss!Next PROVE Vpss!CallsReturnWhatWasAsked
<1> SUFFICES ASSUME NEW p \in Processors, result[p] = None, result'[p] # None, mishap \subseteq {"kept"}
             PROVE  result'[p] = Vpss!Asked(p)
  BY DEF Vpss!CallsReturnWhatWasAsked
<1>1. result \in [Processors -> Vpss!Results \cup {None}]
  BY VpssTyped
<1>2. PICK q \in Processors : pc[q] = "get" /\ group.queue # <<>> /\ result' = [result EXCEPT ![q] = Head(group.queue)]
  BY <1>1 DEF Vpss!Next, Vpss!Call, Vpss!DestroyGroup, Vpss!EnsureGroup, Vpss!EnsureChannel, Vpss!CopyFails,
              Vpss!SendFrame, Vpss!GetFrame, Vpss!Renew, Vpss!Goes, Vpss!Throws
<1>3. q = p /\ result'[p] = Head(group.queue)
  BY <1>1, <1>2
<1>4. PICK r \in Processors : pc[r] = "get" /\ group.queue = <<Vpss!Asked(r)>>
  BY <1>2 DEF VpssInv, ChannelIsKnown
<1>5. r = p
  <2>1. proc[p].created
    BY <1>2, <1>3 DEF VpssInv, CallsKnow
  <2> QED
    BY <1>4, <2>1, OneIsInACall
<1> QED
  BY <1>3, <1>4, <1>5

\* While the VPSS runs, its invariant holds.
THEOREM VpssInvariant == Spec => [](which = "vpss" => VpssInv)
<1> DEFINE Inv == which = "vpss" => VpssInv
<1>1. Init => Inv
  BY InitVpss DEF Init
<1>2. ASSUME Inv, [Next]_vars PROVE Inv'
  <2> SUFFICES ASSUME which' = "vpss" PROVE VpssInv'
    OBVIOUS
  <2>1. which = "vpss" /\ [Vpss!Next]_Vpss!vars
    <3>1. CASE Next
      BY <3>1 DEF Next
    <3>2. CASE UNCHANGED vars
      BY <3>2 DEF vars, onlyVpss, Vpss!vars
    <3> QED
      BY <1>2, <3>1, <3>2
  <2> QED
    BY <1>2, <2>1, NextVpss
<1> QED
  BY <1>1, <1>2, PTL DEF Spec

(* A VPSS call that returns has made of its frame what it was asked, whatever *)
(* failed before and however calls of other processors interleave, unless     *)
(* something is wrong with the group then: it is shared, its set-up stopped   *)
(* halfway, a crop was not taken back or a late result is in the channel.     *)
THEOREM VpssCallsAreAnswered == Spec => OnlyMishapsMislead
<1> DEFINE Inv == which = "vpss" => VpssInv
           Answered == which = "vpss" => Vpss!CallsReturnWhatWasAsked
<1>1. ASSUME Inv, [Next]_vars PROVE [Answered]_vars
  <2>1. CASE Next
    BY <1>1, <2>1, VpssAnswers DEF Next
  <2>2. CASE UNCHANGED vars
    BY <2>2
  <2> QED
    BY <1>1, <2>1, <2>2
<1>2. Spec => []Inv
  BY VpssInvariant
<1> QED
  BY <1>1, <1>2, PTL DEF Spec, OnlyMishapsMislead

(* A VPSS group has a processor that will destroy it, and the crop of a call  *)
(* goes with the call, on every error path on which CVI_VPSS_DestroyGrp and   *)
(* the call that takes the crop back do what they are called for.             *)
THEOREM VpssCleansUp == Spec => []VpssLeavesNothing
<1>1. (which = "vpss" => VpssInv) => VpssLeavesNothing
  BY DEF VpssInv, OneHasTheGroup, VpssLeavesNothing, Vpss!GroupsAreDestroyed, Vpss!Exists
<1> QED
  BY <1>1, VpssInvariant, PTL

-----------------------------------------------------------------------------
-----------------------------------------------------------------------------
(* Inference: what a script is told                                         *)

InferenceInv == Inference!TypeOK /\ Inference!AnswersAreAboutTheFrame /\ Inference!MetaFitsThePicture

Sessions == [addr : Inference!Blocks \cup {Inference!Own},
             cpu : [ModelOutputs -> Inference!Pictures \cup {Nothing}]]
Memory == [Inference!Blocks -> Inference!Pictures \cup {Nothing}]

\* A call that succeeds leaves the picture it was given in each output it reads.
LEMMA RunShowsItsPicture ==
  ASSUME NEW s \in Sessions, NEW picture \in Inference!Pictures, NEW selected \in SUBSET ModelOutputs,
         NEW mem \in Memory, NEW fails \in Inference!Fails
  PROVE  LET r == Inference!Run(s, picture, selected, mem, fails)
         IN  r.session \in Sessions /\ (r.ok => \A o \in selected : r.session.cpu[o] = picture)
  BY DEF Inference!Run, Inference!Forward, Inference!Collect, Sessions, Inference!Own

\* So does one that reads the picture from a block.
LEMMA RunVbShowsItsBlock ==
  ASSUME NEW s \in Sessions, NEW b \in Inference!Blocks, NEW selected \in SUBSET ModelOutputs,
         NEW mem \in Memory, NEW fails \in Inference!Fails
  PROVE  LET r == Inference!RunVb(s, b, selected, mem, fails)
         IN  r.session \in Sessions /\ (r.ok => \A o \in selected : r.session.cpu[o] = mem[b])
  BY DEF Inference!RunVb, Inference!Forward, Inference!Collect, Sessions, Memory, Inference!Own, Inference!Blocks

\* What a script is told of such a call is true.
LEMMA ToldIsTrue ==
  ASSUME NEW s \in Sessions, NEW selected \in SUBSET ModelOutputs, NEW region, NEW picture \in Inference!Pictures,
         \A o \in selected : s.cpu[o] = picture,
         picture.of = frame, picture.geometry.region = region, centre => picture.geometry = Inference!Meta(region)
  PROVE  \A o \in DOMAIN Inference!Told(s, selected, region).outputs :
            LET p == Inference!Told(s, selected, region).outputs[o]
            IN  /\ p # Nothing /\ p.of = frame /\ p.geometry.region = Inference!Told(s, selected, region).region
                /\ centre => p.geometry = Inference!Told(s, selected, region).meta
  BY PicturesAreKnown DEF Inference!Told, Inference!InferenceAssumption

\* The two properties, for one output.
AnswerIsTrue ==
    answer # Nothing =>
        \A o \in DOMAIN answer.outputs :
            LET p == answer.outputs[o]
            IN  /\ p # Nothing /\ p.of = frame /\ p.geometry.region = answer.region
                /\ centre => p.geometry = answer.meta

LEMMA AnswersAreTrue ==
  AnswerIsTrue <=> Inference!AnswersAreAboutTheFrame /\ Inference!MetaFitsThePicture
  BY DEF AnswerIsTrue, Inference!AnswersAreAboutTheFrame, Inference!MetaFitsThePicture, Inference!Shown

LEMMA PicturesAreTyped ==
  ASSUME Inference!TypeOK, NEW region \in Regions \cup {Inference!Whole}
  PROVE  /\ \A how \in Fits \cup {"letterbox"} : Inference!ByVpss(region, how) \in Inference!Pictures
         /\ Inference!ByCpu(region) \in Inference!Pictures
  BY PicturesAreKnown DEF Inference!ByVpss, Inference!ByCpu, Inference!Pictures, Inference!Picture,
     Inference!Geometry, Inference!Geometries, Inference!TypeOK, Inference!InferenceAssumption

LEMMA InferAnswersTruly ==
  ASSUME Inference!TypeOK, NEW region \in Regions \cup {Inference!Whole}, NEW path \in Inference!Paths,
         NEW lends \in BOOLEAN, NEW fails \in Inference!Fails, Inference!Infer(region, path, lends, fails),
         UNCHANGED <<frame, centre>>
  PROVE  /\ session' \in Sessions /\ AnswerIsTrue'
         /\ blocks' \in Memory
<1> DEFINE picture == IF path = "none" THEN Inference!ByCpu(region) ELSE Inference!ByVpss(region, fit)
           target == IF lends THEN "frame" ELSE "result"
           mem == IF path = "none" THEN blocks ELSE [blocks EXCEPT ![target] = picture]
           run == IF path = "vb" THEN Inference!RunVb(session, target, ModelOutputs, mem, fails)
                     ELSE Inference!Run(session, picture, ModelOutputs, mem, fails)
<1>1. /\ picture \in Inference!Pictures /\ picture # Nothing
      /\ picture.of = frame /\ picture.geometry.region = region
      /\ centre => picture.geometry = Inference!Meta(region)
  <2>1. fit \in Fits /\ picture \in Inference!Pictures
    BY PicturesAreTyped DEF Inference!TypeOK
  <2>2. picture # Nothing
    BY <2>1, PicturesAreKnown DEF Inference!InferenceAssumption
  <2>3. picture.of = frame /\ picture.geometry.region = region
    BY DEF Inference!ByCpu, Inference!ByVpss, Inference!Picture, Inference!Geometry
  <2>4. ASSUME centre PROVE picture.geometry = Inference!Meta(region)
    <3>1. (fit = "letterbox" => centre) = TRUE
      BY <2>4, PicturesAreKnown DEF Inference!InferenceAssumption, Inference!TypeOK
    <3> QED
      BY <3>1 DEF Inference!ByCpu, Inference!ByVpss, Inference!Picture, Inference!Geometry, Inference!Meta
  <2> QED
    BY <2>1, <2>2, <2>3, <2>4
<1>2. target \in Inference!Blocks /\ blocks \in Memory /\ session \in Sessions
  BY DEF Inference!Blocks, Inference!TypeOK, Memory, Sessions
<1>3. session' = run.session /\ answer' = (IF run.ok THEN Inference!Told(run.session, ModelOutputs, region) ELSE Nothing)
      /\ blocks' = [blocks EXCEPT !["result"] = Nothing]
  BY DEF Inference!Infer
<1> HIDE DEF picture, target
<1>4. mem \in Memory /\ (path = "vb" => mem[target] = picture)
  BY <1>1, <1>2 DEF Memory
<1> HIDE DEF mem
<1>5. run.session \in Sessions /\ (run.ok => \A o \in ModelOutputs : run.session.cpu[o] = picture)
  <2>1. CASE path = "vb"
    <3>1. run = Inference!RunVb(session, target, ModelOutputs, mem, fails)
      BY <2>1
    <3>2. mem[target] = picture /\ mem[target] # Nothing
      BY <1>1, <1>4, <2>1
    <3> HIDE DEF run
    <3> QED
      <4>1. run.session \in Sessions /\ (run.ok => \A o \in ModelOutputs : run.session.cpu[o] = mem[target])
        BY <1>2, <1>4, <3>1, <3>2, RunVbShowsItsBlock
      <4> QED
        BY <3>2, <4>1
  <2>2. CASE path # "vb"
    <3>1. run = Inference!Run(session, picture, ModelOutputs, mem, fails)
      BY <2>2
    <3> HIDE DEF run
    <3> QED
      BY <1>1, <1>2, <1>4, <3>1, RunShowsItsPicture
  <2> QED
    BY <2>1, <2>2
<1> HIDE DEF run
<1>6. session' \in Sessions /\ blocks' \in Memory
  BY <1>2, <1>3, <1>5 DEF Memory
<1>7. CASE run.ok
  <2>1. answer' = Inference!Told(session', ModelOutputs, region)
    BY <1>3, <1>7
  <2>2. \A o \in DOMAIN answer'.outputs :
            LET p == answer'.outputs[o]
            IN  /\ p # Nothing /\ p.of = frame /\ p.geometry.region = answer'.region
                /\ centre => p.geometry = answer'.meta
    <3>1. \A o \in ModelOutputs : session'.cpu[o] = picture
      BY <1>3, <1>5, <1>7
    <3> QED
      BY <1>1, <1>6, <2>1, <3>1, ToldIsTrue DEF Inference!Told
  <2> QED
    BY <1>6, <2>2 DEF AnswerIsTrue
<1>8. CASE ~run.ok
  BY <1>3, <1>6, <1>8 DEF AnswerIsTrue
<1> QED
  BY <1>7, <1>8

LEMMA InitInference == Inference!Init => InferenceInv
<1> SUFFICES ASSUME Inference!Init PROVE InferenceInv
  OBVIOUS
<1>1. Inference!TypeOK
  <2>1. Inference!Fresh \in [addr : Inference!Blocks \cup {Inference!Own},
                             cpu : [ModelOutputs -> Inference!Pictures \cup {Nothing}]]
    BY DEF Inference!Fresh, Inference!Own
  <2>2. blocks \in [Inference!Blocks -> Inference!Pictures \cup {Nothing}] /\ rest \in Seq(Regions)
    BY DEF Inference!Init
  <2>3. frame \in 0 .. Inference!Frames - 1
    BY DEF Inference!Init, Inference!Frames
  <2>6. exists \in BOOLEAN
    BY DEF Inference!Init
  <2>4. takesVb \in BOOLEAN /\ fit \in Fits /\ centre \in Centres /\ lost \subseteq {"runtime", "model", "tensors"}
    BY DEF Inference!Init
  <2>5. session \in [addr : Inference!Blocks \cup {Inference!Own},
                    cpu : [ModelOutputs -> Inference!Pictures \cup {Nothing}]]
    BY <2>1 DEF Inference!Init
  <2> QED
    BY ONLY <2>2, <2>3, <2>4, <2>5, <2>6 DEF Inference!TypeOK
<1>2. Inference!AnswersAreAboutTheFrame /\ Inference!MetaFitsThePicture
  BY DEF Inference!Init, Inference!AnswersAreAboutTheFrame, Inference!MetaFitsThePicture
<1> QED
  BY <1>1, <1>2 DEF InferenceInv

LEMMA NextInference == ASSUME InferenceInv, [Inference!Next]_Inference!vars PROVE InferenceInv'
<1> DEFINE Rest == /\ takesVb \in BOOLEAN /\ fit \in Fits /\ centre \in Centres
                   /\ exists \in BOOLEAN /\ lost \subseteq {"runtime", "model", "tensors"}
                   /\ frame \in 0 .. Inference!Frames - 1 /\ rest \in Seq(Regions)
<1>1. Inference!TypeOK /\ AnswerIsTrue /\ Rest
  BY AnswersAreTrue DEF InferenceInv, Inference!TypeOK
<1>2. session \in Sessions /\ blocks \in Memory
  BY <1>1 DEF Inference!TypeOK, Sessions, Memory
<1>3. SUFFICES Rest' /\ session' \in Sessions /\ blocks' \in Memory /\ AnswerIsTrue'
  <2>1. AnswerIsTrue' => (Inference!AnswersAreAboutTheFrame /\ Inference!MetaFitsThePicture)'
    BY DEF AnswerIsTrue, Inference!AnswersAreAboutTheFrame, Inference!MetaFitsThePicture, Inference!Shown
  <2> QED
    BY <1>3, <2>1 DEF InferenceInv, Inference!TypeOK, Sessions, Memory
<1> USE DEF Inference!setup
<1>4. ASSUME NEW a \in Inference!Acquired, Inference!Construct(a)
      PROVE  Rest' /\ session' \in Sessions /\ blocks' \in Memory /\ AnswerIsTrue'
  <2>1. Inference!Fresh \in Sessions
    BY DEF Inference!Fresh, Sessions, Inference!Own
  <2> QED
    BY <1>1, <1>2, <1>4, <2>1 DEF Inference!Construct, Inference!Acquired, AnswerIsTrue
<1>5. CASE Inference!Destruct
  BY <1>1, <1>2, <1>5 DEF Inference!Destruct, AnswerIsTrue, Inference!Fresh, Sessions, Inference!Own
<1>6. CASE Inference!SkipRegion
  BY <1>1, <1>2, <1>6 DEF Inference!SkipRegion, AnswerIsTrue
<1>7. CASE Inference!NextFrame
  <2>1. frame' \in 0 .. Inference!Frames - 1
    BY <1>1, <1>7 DEF Inference!NextFrame, Inference!Frames
  <2>2. Inference!Picture(frame', Inference!Geometry(Inference!Whole, "letterbox", TRUE), "model") \in Inference!Pictures
    BY <2>1 DEF Inference!Picture, Inference!Pictures, Inference!Geometry, Inference!Geometries
  <2>3. blocks' \in Memory
    BY <1>2, <1>7, <2>2 DEF Inference!NextFrame, Memory
  <2> QED
    BY <1>1, <1>2, <1>7, <2>1, <2>3 DEF Inference!NextFrame, AnswerIsTrue
<1>8. ASSUME NEW path \in Inference!Paths, NEW lends \in BOOLEAN, NEW fails \in Inference!Fails,
             Inference!InferFrame(path, lends, fails)
      PROVE  Rest' /\ session' \in Sessions /\ blocks' \in Memory /\ AnswerIsTrue'
  <2>1. Inference!Infer(Inference!Whole, path, lends, fails) /\ UNCHANGED <<takesVb, fit, centre, exists, lost, frame, rest>>
    BY <1>8 DEF Inference!InferFrame
  <2>2. session' \in Sessions /\ AnswerIsTrue' /\ blocks' \in Memory
    BY <1>1, <2>1, InferAnswersTruly
  <2> QED
    BY <1>1, <2>1, <2>2
<1>9. ASSUME NEW path \in Inference!Paths, NEW fails \in Inference!Fails, Inference!InferRegion(path, fails)
      PROVE  Rest' /\ session' \in Sessions /\ blocks' \in Memory /\ AnswerIsTrue'
  <2>1. /\ UNCHANGED <<takesVb, fit, centre, exists, lost, frame>>
        /\ rest # <<>> /\ rest' \in {<<>>, Tail(rest)}
    BY <1>9 DEF Inference!InferRegion
  <2>a. Inference!Infer(Head(rest), path, FALSE, fails)
    BY <1>9 DEF Inference!InferRegion
  <2>2. Head(rest) \in Regions /\ Tail(rest) \in Seq(Regions)
    BY <1>1, <2>1
  <2>3. session' \in Sessions /\ AnswerIsTrue' /\ blocks' \in Memory
    BY <1>1, <2>1, <2>2, <2>a, InferAnswersTruly
  <2>4. rest' \in Seq(Regions)
    <3>1. <<>> \in Seq(Regions)
      OBVIOUS
    <3> QED
      BY ONLY <2>1, <2>2, <3>1
  <2>5. Rest'
    BY <1>1, <2>1, <2>4
  <2> QED
    BY ONLY <2>3, <2>5
<1>10. ASSUME NEW r \in Regions, NEW s \in Regions, Inference!SelectRegions(<<r, s>>)
       PROVE  Rest' /\ session' \in Sessions /\ blocks' \in Memory /\ AnswerIsTrue'
  BY <1>1, <1>2, <1>10 DEF Inference!SelectRegions, AnswerIsTrue
<1>11. ASSUME NEW fails \in Inference!Fails, Inference!RunTpu(fails)
       PROVE  Rest' /\ session' \in Sessions /\ blocks' \in Memory /\ AnswerIsTrue'
  <2> DEFINE picture == Inference!ByVpss(Inference!Whole, "letterbox")
             mem == [blocks EXCEPT !["result"] = picture]
             run == Inference!RunVb(session, "result", ModelOutputs, mem, fails)
             told == [outputs |-> run.session.cpu, region |-> Inference!Whole,
                      meta |-> Inference!Geometry(Inference!Whole, "letterbox", TRUE)]
  <2>1. /\ session' = run.session /\ answer' = (IF run.ok THEN told ELSE Nothing)
        /\ blocks' = [b \in Inference!Blocks |-> Nothing]
        /\ UNCHANGED <<takesVb, fit, centre, exists, lost, frame, rest>>
    BY <1>11 DEF Inference!RunTpu
  <2>2. picture \in Inference!Pictures /\ picture # Nothing
    BY <1>1, PicturesAreTyped, PicturesAreKnown DEF Inference!InferenceAssumption
  <2>3. /\ picture.of = frame /\ picture.geometry.region = Inference!Whole
        /\ picture.geometry = Inference!Geometry(Inference!Whole, "letterbox", TRUE)
    BY DEF Inference!ByVpss, Inference!Picture, Inference!Geometry
  <2> HIDE DEF picture
  <2>4. mem \in Memory /\ mem["result"] = picture /\ "result" \in Inference!Blocks
    BY <1>2, <2>2 DEF Memory, Inference!Blocks
  <2> HIDE DEF mem
  <2>5. run.session \in Sessions /\ (run.ok => \A o \in ModelOutputs : run.session.cpu[o] = picture)
    <3>1. run.session \in Sessions /\ (run.ok => \A o \in ModelOutputs : run.session.cpu[o] = mem["result"])
      BY <1>2, <2>2, <2>4, RunVbShowsItsBlock
    <3> QED
      BY <2>4, <3>1
  <2> HIDE DEF run
  <2>6. AnswerIsTrue'
    <3>1. CASE run.ok
      <4>1. answer' = told /\ DOMAIN told.outputs = ModelOutputs
        BY <2>1, <2>5, <3>1 DEF Sessions
      <4>2. \A o \in DOMAIN answer'.outputs : answer'.outputs[o] = picture
        BY <2>5, <3>1, <4>1
      <4>3. answer'.region = Inference!Whole /\ answer'.meta = Inference!Geometry(Inference!Whole, "letterbox", TRUE)
        BY <4>1
      <4> HIDE DEF told
      <4>4. \A o \in DOMAIN answer'.outputs :
            LET p == answer'.outputs[o]
            IN  /\ p # Nothing /\ p.of = frame /\ p.geometry.region = answer'.region
                /\ centre => p.geometry = answer'.meta
        BY ONLY <2>2, <2>3, <4>2, <4>3
      <4> QED
        BY <2>1, <4>4 DEF AnswerIsTrue
    <3>2. CASE ~run.ok
      BY <2>1, <3>2 DEF AnswerIsTrue
    <3> QED
      BY <3>1, <3>2
  <2> QED
    BY <1>1, <2>1, <2>5, <2>6 DEF Memory
<1>12. ASSUME NEW fails \in Inference!Fails, NEW selected \in SUBSET ModelOutputs, Inference!RunScript(selected, fails)
       PROVE  Rest' /\ session' \in Sessions /\ blocks' \in Memory /\ AnswerIsTrue'
  <2> DEFINE picture == Inference!ByCpu(Inference!Whole)
             run == Inference!Run(session, picture, selected, blocks, fails)
  <2>1. /\ session' = run.session
        /\ answer' = (IF run.ok THEN Inference!Told(run.session, selected, Inference!Whole) ELSE Nothing)
        /\ UNCHANGED <<takesVb, fit, centre, exists, lost, blocks, frame, rest>>
    BY <1>12 DEF Inference!RunScript
  <2>2. picture \in Inference!Pictures
    BY <1>1, PicturesAreTyped
  <2>3. /\ picture.of = frame /\ picture.geometry.region = Inference!Whole
        /\ picture.geometry = Inference!Meta(Inference!Whole)
    BY DEF Inference!ByCpu, Inference!Picture, Inference!Geometry, Inference!Meta
  <2> HIDE DEF picture
  <2>4. run.session \in Sessions /\ (run.ok => \A o \in selected : run.session.cpu[o] = picture)
    BY <1>2, <2>2, RunShowsItsPicture
  <2> HIDE DEF run
  <2>5. AnswerIsTrue'
    <3>1. CASE run.ok
      <4>1. answer' = Inference!Told(session', selected, Inference!Whole)
        BY <2>1, <3>1
      <4>2. session' \in Sessions /\ \A o \in selected : session'.cpu[o] = picture
        BY <2>1, <2>4, <3>1
      <4>3. \A o \in DOMAIN answer'.outputs :
            LET p == answer'.outputs[o]
            IN  /\ p # Nothing /\ p.of = frame /\ p.geometry.region = answer'.region
                /\ centre => p.geometry = answer'.meta
        BY <2>2, <2>3, <4>1, <4>2, ToldIsTrue DEF Inference!Told
      <4> QED
        BY <2>1, <4>3 DEF AnswerIsTrue
    <3>2. CASE ~run.ok
      BY <2>1, <3>2 DEF AnswerIsTrue
    <3> QED
      BY <3>1, <3>2
  <2> QED
    BY <1>1, <1>2, <2>1, <2>4, <2>5
<1>13. CASE UNCHANGED Inference!vars
  BY <1>1, <1>2, <1>13 DEF Inference!vars, AnswerIsTrue
<1> HIDE DEF Rest
<1> QED
  BY <1>4, <1>5, <1>6, <1>7, <1>8, <1>9, <1>10, <1>11, <1>12, <1>13 DEF Inference!Next

\* While inference runs, its invariant holds.
THEOREM InferenceInvariant == Spec => [](which = "inference" => InferenceInv)
<1> DEFINE Inv == which = "inference" => InferenceInv
<1>1. Init => Inv
  BY InitInference DEF Init
<1>2. ASSUME Inv, [Next]_vars PROVE Inv'
  <2> SUFFICES ASSUME which' = "inference" PROVE InferenceInv'
    OBVIOUS
  <2>1. which = "inference" /\ [Inference!Next]_Inference!vars
    <3>1. CASE Next
      BY <3>1 DEF Next
    <3>2. CASE UNCHANGED vars
      BY <3>2 DEF vars, onlyInference, Inference!vars
    <3> QED
      BY <1>2, <3>1, <3>2
  <2> QED
    BY <1>2, <2>1, NextInference
<1> QED
  BY <1>1, <1>2, PTL DEF Spec

(* Whatever an inference call is given and wherever it fails, what the script *)
(* is told is of the frame it passed and of the region it is told, never of   *)
(* an earlier frame that an output or a block still held.  A script that asks *)
(* for a centred picture and is told a region is told the scale of that very  *)
(* picture; what others are told of the scale is not covered.                 *)
THEOREM AnswersAreTold == Spec => []AnswersAreAboutTheFrame
<1>1. (which = "inference" => InferenceInv) => AnswersAreAboutTheFrame
  BY DEF InferenceInv, AnswersAreAboutTheFrame
<1> QED
  BY <1>1, InferenceInvariant, PTL

-----------------------------------------------------------------------------
(* All of them                                                               *)

(* Every variable of the five modules keeps its type.                         *)
THEOREM TypesHold == Spec => []TypeOK
<1>1. /\ (which = "jpeg" => JpegInv) => (which = "jpeg" => Jpeg!TypeOK)
      /\ (which = "vpss" => VpssInv) => (which = "vpss" => Vpss!TypeOK)
      /\ (which = "inference" => InferenceInv) => (which = "inference" => Inference!TypeOK)
  BY JpegInvImplies DEF VpssInv, InferenceInv
<1>2. (which = "skipping" => Limits!IInv) => (which = "skipping" => Skipping!TypeOK)
  BY DEF Limits!IInv, Limits!TypeOK, Skipping!TypeOK, Limits!MaxStreak, Skipping!MaxStreak,
         Limits!MaxExponent, Skipping!MaxExponent
<1>3. (which = "video" => ContextInv) /\ (which = "video" => OwnersInv) => (which = "video" => Video!TypeOK)
  BY DEF ContextInv, ManagerKnows, OwnersInv, Typed, Video!TypeOK, Records, FrameRecords
<1>4. /\ which = "video" => Video!TypeOK
      /\ which = "jpeg" => Jpeg!TypeOK
      /\ which = "vpss" => Vpss!TypeOK
      /\ which = "inference" => Inference!TypeOK
      /\ which = "skipping" => Skipping!TypeOK
      => TypeOK
  BY DEF TypeOK
<1> QED
  BY <1>1, <1>2, <1>3, <1>4, ContextInvariant, OwnersInvariant, JpegInvariant, VpssInvariant, InferenceInvariant,
     SkippingInvariant, PTL
=============================================================================
