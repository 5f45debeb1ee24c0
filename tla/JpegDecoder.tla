---------------------------- MODULE JpegDecoder ----------------------------
(***************************************************************************)
(* Decoding JPEG files in hardware: HwJpegDecoder over one VDEC channel, and *)
(* its two users, ImageSource (one decoder shared by all sources of the      *)
(* process) and IonImageLoader (a decoder and a preallocated block of its    *)
(* own).  modules/cv/hw_jpeg_decoder.cpp, image_source.cpp,                  *)
(* ion_image_loader.cpp.                                                     *)
(*                                                                         *)
(* Both decoders use channel 0.  A decoder call may fail in the driver; a    *)
(* picture that the driver did not deliver in time is delivered to the next  *)
(* call that asks.                                                           *)
(***************************************************************************)
EXTENDS Naturals, Sequences

CONSTANTS
    Images,    \* JPEG images
    SizeOf,    \* SizeOf[i]: the size of image i, in steps that matter to the decoder
    NoPicture

Decoders == {"source", "loader"}
PictureDepth == 2      \* u32FrameBufCnt: pictures of the channel

VARIABLES
    channel,    \* VDEC channel 0: "none", "created", "receiving"
    generation, \* how often the channel was created, modulo 2
    decoded,    \* pictures of the channel nobody has fetched
    lent,       \* pictures of the channel that were fetched and not returned
    size,       \* size[d]: max_width_ x max_height_ of decoder d, 0 when not initialized_
    loaded,     \* the image an open ImageSource has read, or NoPicture
    held,       \* held[d]: the picture the caller of d has (last_hw_frame_; the Frame of a read)
    prealloc,   \* prealloc_width_ x prealloc_height_, or 0
    block,      \* has_vb_block_
    asked,      \* the image of the loader's last call (history)
    late        \* a picture was fetched too late once (history)

vars == <<channel, generation, decoded, lent, size, loaded, held, prealloc, block, asked, late>>

Pictures == [image : Images, generation : {0, 1}]

JpegAssumption ==
    /\ \A i \in Images : SizeOf[i] \in Nat \ {0}
    /\ NoPicture \notin Images /\ NoPicture \notin Pictures

Init ==
    /\ channel = "none" /\ generation = 0 /\ decoded = <<>> /\ lent = {}
    /\ size = [d \in Decoders |-> 0]
    /\ loaded = NoPicture
    /\ held = [d \in Decoders |-> NoPicture]
    /\ prealloc = 0 /\ block = FALSE
    /\ asked = NoPicture /\ late = FALSE

-----------------------------------------------------------------------------
(* HwJpegDecoder; c is the state of the channel with the decoders' sizes     *)

State == [channel |-> channel, generation |-> generation, decoded |-> decoded, lent |-> lent, size |-> size]
Becomes(c) == /\ channel' = c.channel /\ generation' = c.generation /\ decoded' = c.decoded
              /\ lent' = c.lent /\ size' = c.size

\* cleanup: nothing for a decoder that is not initialized_
Cleanup(c, d) ==
    IF c.size[d] = 0 THEN c
    ELSE [channel |-> "none", generation |-> c.generation, decoded |-> <<>>, lent |-> {},
          size |-> [c.size EXCEPT ![d] = 0]]

\* configure_channel: CVI_VDEC_CreateChn fails for a channel that exists; what
\* fails after it destroys the channel
Configure(c) == IF c.channel = "none"
                THEN {c, [c EXCEPT !.channel = "created", !.generation = 1 - @]}
                ELSE {c}

\* init: when CVI_VDEC_StartRecvStream fails, cleanup finds initialized_ unset
\* and leaves the channel
StartReceiving(c, d, s) == {Cleanup(c, d), [c EXCEPT !.channel = "receiving", !.size[d] = s]}

InitDecoder(c, d, s) ==
    IF c.size[d] # 0 THEN {c}
    ELSE UNION {IF k.channel = "created" /\ k.generation # c.generation THEN StartReceiving(k, d, s) ELSE {k}
                : k \in Configure(c)}

\* ensure_initialized
EnsureInitialized(c, d, s) == InitDecoder(IF c.size[d] >= s THEN c ELSE Cleanup(c, d), d, s)

\* decode_sync: CVI_VDEC_SendStream fails; the picture comes; CVI_VDEC_GetFrame
\* fails or is given up after 5 s.  Returns the channel and the picture.
Decode(c, image) ==
    LET sent == [c EXCEPT !.decoded = Append(@, [image |-> image, generation |-> c.generation])]
        got == Head(sent.decoded)
    IN  {[after |-> c, picture |-> NoPicture]}
        \cup (IF Len(c.decoded) + 1 <= PictureDepth
              THEN {[after |-> sent, picture |-> NoPicture],
                    [after |-> [sent EXCEPT !.decoded = Tail(@), !.lent = @ \cup {got}], picture |-> got]}
              ELSE {})

\* release_frame, Frame::release of an owner VDEC
ReturnPicture(c, p) == [c EXCEPT !.lent = @ \ {p}]

\* a call that ended with outcome o in decoder d, started in channel c
Deliver(d, o) ==
    /\ Becomes(o.after)
    /\ held' = [held EXCEPT ![d] = o.picture]
    /\ late' = (late \/ Len(o.after.decoded) > 0)

-----------------------------------------------------------------------------
(* ImageSource: open, read, release(frame), close.  open and close clean the  *)
(* shared decoder up.  The caller releases a frame before it goes on (as      *)
(* every caller in the repository does).                                      *)

OpenSource ==
    /\ held["source"] = NoPicture
    /\ Becomes(Cleanup(State, "source"))
    /\ loaded' \in Images \cup {NoPicture}
    /\ UNCHANGED <<held, prealloc, block, asked, late>>

CloseSource ==
    /\ held["source"] = NoPicture
    /\ Becomes(Cleanup(State, "source"))
    /\ loaded' = NoPicture
    /\ UNCHANGED <<held, prealloc, block, asked, late>>

ReadSource ==
    /\ loaded # NoPicture /\ held["source"] = NoPicture
    /\ \E c \in EnsureInitialized(State, "source", SizeOf[loaded]) :
        IF c.size["source"] = 0
        THEN Becomes(c) /\ UNCHANGED <<held, late>>
        ELSE \E o \in Decode(c, loaded) : Deliver("source", o)
    /\ UNCHANGED <<loaded, prealloc, block, asked>>

ReleaseSourceFrame ==
    /\ held["source"] # NoPicture
    /\ Becomes(ReturnPicture(State, held["source"]))
    /\ held' = [held EXCEPT !["source"] = NoPicture]
    /\ UNCHANGED <<loaded, prealloc, block, asked, late>>

-----------------------------------------------------------------------------
(* IonImageLoader *)

\* Mutant of LastReleased: release_last_frame is forgotten.
LastKept(c) == c

\* release_last_frame, at the start of every call that may touch the decoder
LastReleased(c) == IF held["loader"] = NoPicture THEN c ELSE ReturnPicture(c, held["loader"])

\* load_from_memory and load_from_memory_fast, which decodes images of the
\* preallocated size only
Load(image, fast) ==
    /\ fast => prealloc = SizeOf[image]
    /\ LET s == IF fast THEN prealloc ELSE SizeOf[image]
           start == IF fast THEN InitDecoder(LastReleased(State), "loader", s)
                    ELSE EnsureInitialized(LastReleased(State), "loader", s)
       IN \E c \in start :
            IF c.size["loader"] = 0
            THEN Becomes(c) /\ held' = [held EXCEPT !["loader"] = NoPicture] /\ UNCHANGED late
            ELSE \E o \in Decode(c, image) : Deliver("loader", o)
    /\ asked' = image
    /\ UNCHANGED <<loaded, prealloc, block>>

\* preallocate: release(), then a block, which the pool may refuse
Preallocate(s) ==
    /\ Becomes(LastReleased(State))
    /\ held' = [held EXCEPT !["loader"] = NoPicture]
    /\ prealloc' = s
    /\ block' \in BOOLEAN
    /\ UNCHANGED <<loaded, asked, late>>

ReleaseLoader ==
    /\ Becomes(LastReleased(State))
    /\ held' = [held EXCEPT !["loader"] = NoPicture]
    /\ prealloc' = 0 /\ block' = FALSE
    /\ UNCHANGED <<loaded, asked, late>>

\* ~IonImageLoader: release, then ~HwJpegDecoder cleans up
DestroyLoader ==
    /\ Becomes(Cleanup(LastReleased(State), "loader"))
    /\ held' = [held EXCEPT !["loader"] = NoPicture]
    /\ prealloc' = 0 /\ block' = FALSE
    /\ UNCHANGED <<loaded, asked, late>>

-----------------------------------------------------------------------------
Next ==
    \/ OpenSource \/ CloseSource \/ ReadSource \/ ReleaseSourceFrame
    \/ \E i \in Images : Load(i, TRUE) \/ Load(i, FALSE)
    \/ \E s \in {SizeOf[i] : i \in Images} : Preallocate(s)
    \/ ReleaseLoader \/ DestroyLoader

Spec == Init /\ [][Next]_vars

-----------------------------------------------------------------------------
(* Properties *)

TypeOK ==
    /\ channel \in {"none", "created", "receiving"} /\ generation \in {0, 1}
    /\ decoded \in Seq(Pictures) /\ lent \subseteq Pictures
    /\ size \in [Decoders -> Nat]
    /\ {loaded, asked} \subseteq Images \cup {NoPicture}
    /\ held \in [Decoders -> Pictures \cup {NoPicture}]
    /\ prealloc \in Nat /\ {block, late} \subseteq BOOLEAN

\* Two decoders over one channel, of which each may renew it for a larger
\* image, and any call may fail: a decoder that thinks it is initialized has the
\* channel to itself, receiving; every picture a caller holds is lent by the
\* channel as it is now, not by one that was destroyed meanwhile, and no picture
\* stays lent that no caller holds.
CallersHoldLivePictures ==
    /\ \A d \in Decoders : size[d] # 0 => channel = "receiving" /\ \A e \in Decoders \ {d} : size[e] = 0
    /\ \A d \in Decoders : held[d] # NoPicture =>
          held[d] \in lent /\ held[d].generation = generation /\ size[d] # 0
    /\ \A p \in lent : \E d \in Decoders : held[d] = p

\* Pictures fit the channel that decodes them.  Refuted: preallocate for a larger
\* image leaves the channel as it is, and load_from_memory_fast does not renew it.
PicturesFit == \A d \in Decoders : held[d] # NoPicture => size[d] >= SizeOf[held[d].image]

\* A source shows its image: after a read that gave up, open and close clean
\* the channel up before there is another image.
SourcesShowTheirImage == held["source"] # NoPicture => held["source"].image = loaded

\* So does the loader, which keeps the channel, as long as no call gave up on a
\* picture that came later.  Refuted without that condition: each call returns
\* the picture of the one before then.
LoaderShowsItsImage == held["loader"] # NoPicture => held["loader"].image = asked
PicturesAreOwn == SourcesShowTheirImage /\ (~late => LoaderShowsItsImage)

\* A channel that nobody receives from was left by a failing
\* CVI_VDEC_StartRecvStream, and then no decoder is ever initialized again.
\* That it cannot happen is refuted: init's cleanup() returns at once.
NoChannelIsLeft == channel # "none" => \E d \in Decoders : size[d] # 0
=============================================================================
