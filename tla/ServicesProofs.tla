--------------------------- MODULE ServicesProofs ---------------------------
(***************************************************************************)
(* Proofs about the services that run inside the server: the captions      *)
(* agent, the signalling server, the relay's announcements, and the WASM   *)
(* filter with its reloader.  Each has an inductive invariant, for any     *)
(* number of frames, sockets, identifiers, connections, taps and saves;    *)
(* RequestPlaneProofs puts them together.                                  *)
(***************************************************************************)
EXTENDS FilterTap, CaptionAgent, SignalRouting, FiniteSetTheorems, TLAPS

-----------------------------------------------------------------------------
(* CaptionAgent.                                                           *)

SpeechTyped ==
  /\ speaker \in {"none", "mute", "run", "join", "remove", "done"} /\ entryUp \in BOOLEAN
  /\ scribe \in {"none", "run", "infer", "last", "gone"} /\ heardTo \in Nat
  /\ frames \in Seq(Nat) /\ window \in [start : Nat, pcm : Seq(Nat)]
  /\ cues \in Seq([start : Nat, of : Seq(Nat), listed : BOOLEAN])

\* The thread lives while the agent does, and while the track is registered; it
\* ends with nothing in the queue or the window.
ScribeFollows ==
  /\ speaker \in {"none", "mute"} => scribe = "none"
  /\ speaker \in {"run", "join"} => scribe # "none"
  /\ speaker \in {"remove", "done"} => scribe \in {"none", "gone"}
  /\ scribe \in {"run", "infer", "last"} => entryUp
  /\ scribe = "last" => speaker = "join" /\ frames = <<>>
  /\ scribe \in {"infer", "last"} => window.pcm # <<>>
  /\ scribe \in {"none", "gone"} => frames = <<>> /\ window.pcm = <<>>

\* What the queue took is in the queue, in the window, or spent.
FramesKept ==
  \A f \in accepted : \/ f \in spent
                      \/ \E i \in DOMAIN frames : frames[i] = f
                      \/ \E i \in DOMAIN window.pcm : window.pcm[i] = f

\* Frames come in order, and the window is behind the queue.
FramesInOrder ==
  /\ 0 < heardTo
  /\ \A i \in DOMAIN frames : 0 < frames[i] /\ frames[i] < heardTo
  /\ \A i, j \in DOMAIN frames : i < j => frames[i] < frames[j]
  /\ window.start = 0 => window.pcm = <<>>
  /\ window.start < heardTo /\ \A i \in DOMAIN frames : window.start < frames[i]
  /\ \A k \in DOMAIN window.pcm :
       /\ window.start <= window.pcm[k] /\ window.pcm[k] < heardTo
       /\ \A i \in DOMAIN frames : window.pcm[k] < frames[i]

\* What has a caption is behind the window and the queue.
CuesBehind ==
  \A c \in DOMAIN cues : \A j \in DOMAIN cues[c].of :
    /\ cues[c].of[j] < heardTo
    /\ \A i \in DOMAIN frames : cues[c].of[j] < frames[i]
    /\ window.start # 0 => cues[c].of[j] < window.start

SpeechInd ==
  SpeechTyped /\ ScribeFollows /\ FramesKept /\ FramesInOrder /\ CuesBehind
    /\ CuesReachTheTrack /\ CuesTimed

\* With nothing taken, queued, captured or captioned.
LEMMA SpeechFresh ==
  ASSUME speaker = "none", entryUp = FALSE, heardTo = 1, frames = <<>>, scribe = "none",
         window = NoWindow, cues = <<>>, accepted = {}
  PROVE  SpeechInd
<1>1. \A T : <<>> \in Seq(T) /\ DOMAIN <<>> = {}
  OBVIOUS
<1>2. window.start = 0 /\ window.pcm = <<>> /\ window \in [start : Nat, pcm : Seq(Nat)]
  BY <1>1 DEF NoWindow
<1>3. SpeechTyped
  BY <1>1, <1>2 DEF SpeechTyped
<1> QED BY <1>1, <1>2, <1>3 DEF SpeechInd, ScribeFollows, FramesKept, FramesInOrder, CuesBehind,
                                CuesReachTheTrack, CuesTimed

LEMMA SpeechBegins == SpeechInit => SpeechInd
BY SpeechFresh DEF SpeechInit

\* What the types say of the members.
LEMMA SpeechTypes ==
  ASSUME SpeechTyped
  PROVE  /\ \A i \in DOMAIN frames : frames[i] \in Nat
         /\ \A k \in DOMAIN window.pcm : window.pcm[k] \in Nat
         /\ window.start \in Nat /\ heardTo \in Nat /\ window.pcm \in Seq(Nat)
         /\ \A c \in DOMAIN cues : \A j \in DOMAIN cues[c].of : cues[c].of[j] \in Nat
<1>1. \A c \in DOMAIN cues : cues[c] \in [start : Nat, of : Seq(Nat), listed : BOOLEAN]
  <2> DEFINE Cues == [start : Nat, of : Seq(Nat), listed : BOOLEAN]
  <2>1. cues \in Seq(Cues)
    BY DEF SpeechTyped
  <2> HIDE DEF Cues
  <2>2. \A c \in DOMAIN cues : cues[c] \in Cues
    BY <2>1
  <2> QED BY <2>2 DEF Cues
<1>2. \A c \in DOMAIN cues : cues[c].of \in Seq(Nat)
  BY <1>1
<1>3. \A q \in Seq(Nat) : \A j \in DOMAIN q : q[j] \in Nat
  OBVIOUS
<1> QED BY <1>2, <1>3 DEF SpeechTyped

\* Only the agent moves.
LEMMA SpeakerSteps ==
  ASSUME SpeechInd, OnStart \/ OnStop \/ JoinScribe \/ RemoveEntry
  PROVE  SpeechInd'
<1>1. UNCHANGED <<heardTo, frames, window, cues, accepted, spent>>
  BY DEF OnStart, OnStop, JoinScribe, RemoveEntry
<1>2. SpeechTyped'
  BY <1>1 DEF SpeechInd, SpeechTyped, OnStart, OnStop, JoinScribe, RemoveEntry
<1>3. ScribeFollows'
  BY <1>1 DEF SpeechInd, SpeechTyped, ScribeFollows, OnStart, OnStop, JoinScribe, RemoveEntry
<1> QED
  BY <1>1, <1>2, <1>3 DEF SpeechInd, FramesKept, FramesInOrder, CuesBehind, CuesReachTheTrack, CuesTimed

LEMMA FragmentStep ==
  ASSUME SpeechInd, OnFragment
  PROVE  SpeechInd'
<1>1. CASE UNCHANGED <<frames, accepted>>
  <2>1. heardTo' = heardTo + 1 /\ UNCHANGED <<speaker, entryUp, frames, scribe, window, cues, accepted, spent>>
    BY <1>1 DEF OnFragment
  <2>2. SpeechTyped' /\ ScribeFollows' /\ FramesKept' /\ CuesReachTheTrack' /\ CuesTimed'
    BY <2>1 DEF SpeechInd, SpeechTyped, ScribeFollows, FramesKept, CuesReachTheTrack, CuesTimed
  <2>3. /\ \A i \in DOMAIN frames : frames[i] \in Nat
        /\ \A k \in DOMAIN window.pcm : window.pcm[k] \in Nat
        /\ window.start \in Nat /\ heardTo \in Nat
        /\ \A c \in DOMAIN cues : \A j \in DOMAIN cues[c].of : cues[c].of[j] \in Nat
    BY SpeechTypes DEF SpeechInd
  <2>4. FramesInOrder'
    BY <2>1, <2>3 DEF SpeechInd, FramesInOrder
  <2>5. CuesBehind'
    BY <2>1, <2>3 DEF SpeechInd, CuesBehind
  <2> QED BY <2>2, <2>4, <2>5 DEF SpeechInd
<1>2. CASE /\ speaker = "run" /\ scribe # "gone"
           /\ frames' = Append(frames, heardTo) /\ accepted' = accepted \cup {heardTo}
  <2>1. /\ DOMAIN frames' = 1..(Len(frames) + 1) /\ DOMAIN frames = 1..Len(frames) /\ Len(frames) \in Nat
        /\ \A i \in DOMAIN frames : frames'[i] = frames[i]
        /\ frames'[Len(frames) + 1] = heardTo
        /\ heardTo' = heardTo + 1 /\ UNCHANGED <<speaker, entryUp, scribe, window, cues, spent>>
    BY <1>2 DEF OnFragment, SpeechInd, SpeechTyped
  <2>2. SpeechTyped'
    BY <1>2, <2>1 DEF SpeechInd, SpeechTyped
  <2>3. ScribeFollows'
    BY <1>2, <2>1 DEF SpeechInd, SpeechTyped, ScribeFollows
  <2>4. FramesKept'
    <3> SUFFICES ASSUME NEW f \in accepted', f \notin spent, ~ \E i \in DOMAIN window.pcm : window.pcm[i] = f
                 PROVE  \E i \in DOMAIN frames' : frames'[i] = f
      BY <2>1 DEF FramesKept
    <3>1. CASE f = heardTo
      BY <2>1, <3>1, Len(frames) + 1 \in DOMAIN frames'
    <3>2. CASE f \in accepted
      <4>1. PICK i \in DOMAIN frames : frames[i] = f
        BY <3>2 DEF SpeechInd, FramesKept
      <4> QED BY <2>1, <4>1, i \in DOMAIN frames'
    <3> QED BY <1>2, <3>1, <3>2
  <2>0. /\ \A k \in DOMAIN window.pcm : window.pcm[k] \in Nat
        /\ \A c \in DOMAIN cues : \A j \in DOMAIN cues[c].of : cues[c].of[j] \in Nat
        /\ heardTo \in Nat
    BY SpeechTypes DEF SpeechInd
  <2>5. FramesInOrder'
    BY <1>2, <2>1 DEF SpeechInd, SpeechTyped, FramesInOrder
  <2>6. CuesBehind'
    <3> SUFFICES ASSUME NEW c \in DOMAIN cues, NEW j \in DOMAIN cues[c].of
                 PROVE  /\ cues[c].of[j] < heardTo + 1
                        /\ \A i \in DOMAIN frames' : cues[c].of[j] < frames'[i]
                        /\ window.start # 0 => cues[c].of[j] < window.start
      BY <2>1 DEF CuesBehind
    <3>1. /\ cues[c].of[j] < heardTo
          /\ \A i \in DOMAIN frames : cues[c].of[j] < frames[i]
          /\ window.start # 0 => cues[c].of[j] < window.start
      BY DEF SpeechInd, CuesBehind
    <3> QED BY <2>0, <2>1, <3>1
  <2> QED BY <2>1, <2>2, <2>3, <2>4, <2>5, <2>6 DEF SpeechInd, CuesReachTheTrack, CuesTimed
<1> QED BY <1>1, <1>2 DEF OnFragment

LEMMA ScribeTakesStep ==
  ASSUME SpeechInd, ScribeTakes
  PROVE  SpeechInd'
<1> DEFINE dts == Head(frames)
           first == IF window.start = 0 THEN dts ELSE window.start
<1>1. /\ scribe = "run" /\ frames # <<>> /\ frames' = Tail(frames) /\ dts = frames[1]
      /\ DOMAIN frames = 1..Len(frames) /\ Len(frames) \in Nat \ {0}
      /\ DOMAIN frames' = 1..(Len(frames) - 1) /\ \A i \in DOMAIN frames' : frames'[i] = frames[i + 1]
      /\ UNCHANGED <<speaker, entryUp, heardTo, cues, accepted>>
  BY DEF ScribeTakes, SpeechInd, SpeechTyped
<1>2. /\ dts \in Nat /\ 0 < dts /\ dts < heardTo /\ \A i \in DOMAIN frames' : dts < frames'[i]
      /\ first \in Nat /\ first # 0 /\ first <= dts
  <2>1. /\ \A i \in DOMAIN frames : frames[i] \in Nat /\ 0 < frames[i] /\ frames[i] < heardTo
        /\ \A i, j \in DOMAIN frames : i < j => frames[i] < frames[j]
        /\ window.start \in Nat /\ \A i \in DOMAIN frames : window.start < frames[i]
    BY SpeechTypes DEF SpeechInd, FramesInOrder
  <2>2. 1 \in DOMAIN frames /\ \A i \in DOMAIN frames' : i + 1 \in DOMAIN frames /\ 1 < i + 1
    BY <1>1
  <2>3. dts \in Nat /\ 0 < dts /\ dts < heardTo /\ window.start < dts
    BY <1>1, <2>1, <2>2
  <2>4. \A i \in DOMAIN frames' : dts < frames'[i]
    BY <1>1, <2>1, <2>2
  <2> QED BY <2>1, <2>3, <2>4
<1>3. /\ \A i \in DOMAIN frames' : 0 < frames'[i] /\ frames'[i] < heardTo
      /\ \A i, j \in DOMAIN frames' : i < j => frames'[i] < frames'[j]
  <2>1. /\ \A i \in DOMAIN frames : 0 < frames[i] /\ frames[i] < heardTo
        /\ \A i, j \in DOMAIN frames : i < j => frames[i] < frames[j]
    BY DEF SpeechInd, FramesInOrder
  <2>2. /\ \A i \in DOMAIN frames' : i + 1 \in DOMAIN frames
        /\ \A i, j \in DOMAIN frames' : i < j => i + 1 < j + 1
    BY <1>1
  <2> QED BY <1>1, <2>1, <2>2
<1>4. \A c \in DOMAIN cues : \A j \in DOMAIN cues[c].of :
        /\ cues[c].of[j] < heardTo /\ cues[c].of[j] < first
        /\ \A i \in DOMAIN frames' : cues[c].of[j] < frames'[i]
  <2> SUFFICES ASSUME NEW c \in DOMAIN cues, NEW j \in DOMAIN cues[c].of
               PROVE  /\ cues[c].of[j] < heardTo /\ cues[c].of[j] < first
                      /\ \A i \in DOMAIN frames' : cues[c].of[j] < frames'[i]
    OBVIOUS
  <2>1. /\ cues[c].of[j] < heardTo /\ \A i \in DOMAIN frames : cues[c].of[j] < frames[i]
        /\ window.start # 0 => cues[c].of[j] < window.start
    BY DEF SpeechInd, CuesBehind
  <2>2. 1 \in DOMAIN frames /\ \A i \in DOMAIN frames' : i + 1 \in DOMAIN frames
    BY <1>1
  <2> QED BY <1>1, <2>1, <2>2
<1>5. window'.start = first
      /\ \/ /\ window' = [start |-> first, pcm |-> Append(window.pcm, dts)] /\ scribe' \in {"infer", "run"}
            /\ UNCHANGED spent
         \/ window' = [window EXCEPT !.start = first] /\ spent' = spent \cup {dts} /\ UNCHANGED scribe
  BY DEF ScribeTakes, SpeechInd, SpeechTyped
<1>6. CuesBehind'
  BY <1>1, <1>4, <1>5 DEF CuesBehind
<1>7. CuesReachTheTrack' /\ CuesTimed'
  BY <1>1 DEF SpeechInd, CuesReachTheTrack, CuesTimed
<1>8. \A f \in accepted : \/ f \in spent \/ f = dts
                          \/ \E i \in DOMAIN frames' : frames'[i] = f
                          \/ \E i \in DOMAIN window.pcm : window.pcm[i] = f
  <2> SUFFICES ASSUME NEW f \in accepted, NEW i \in DOMAIN frames, frames[i] = f, i # 1
               PROVE  \E k \in DOMAIN frames' : frames'[k] = f
    BY <1>1 DEF SpeechInd, FramesKept
  <2> QED BY <1>1, i - 1 \in DOMAIN frames'
<1>9. CASE window' = [start |-> first, pcm |-> Append(window.pcm, dts)] /\ scribe' \in {"infer", "run"} /\ UNCHANGED spent
  <2>1. /\ DOMAIN window'.pcm = 1..(Len(window.pcm) + 1) /\ DOMAIN window.pcm = 1..Len(window.pcm)
        /\ Len(window.pcm) \in Nat /\ window'.pcm[Len(window.pcm) + 1] = dts
        /\ \A k \in DOMAIN window.pcm : window'.pcm[k] = window.pcm[k]
        /\ window'.pcm \in Seq(Nat) /\ window'.pcm # <<>> /\ window' \in [start : Nat, pcm : Seq(Nat)]
    <3> HIDE DEF dts, first
    <3>1. window'.pcm = Append(window.pcm, dts) /\ window.pcm \in Seq(Nat) /\ dts \in Nat /\ first \in Nat
      BY <1>2, <1>9, SpeechTypes DEF SpeechInd
    <3>2. window'.pcm \in Seq(Nat)
      BY <3>1
    <3>3. /\ DOMAIN window'.pcm = 1..(Len(window.pcm) + 1) /\ DOMAIN window.pcm = 1..Len(window.pcm)
          /\ Len(window.pcm) \in Nat /\ window'.pcm[Len(window.pcm) + 1] = dts /\ window'.pcm # <<>>
          /\ \A k \in DOMAIN window.pcm : window'.pcm[k] = window.pcm[k]
      BY <3>1
    <3>4. window' \in [start : Nat, pcm : Seq(Nat)]
      BY <1>9, <3>1, <3>2
    <3> QED BY <3>2, <3>3, <3>4
  <2>2. SpeechTyped'
    BY <1>1, <1>9, <2>1 DEF SpeechInd, SpeechTyped
  <2>3. ScribeFollows'
    BY <1>1, <1>9, <2>1 DEF SpeechInd, SpeechTyped, ScribeFollows
  <2>4. FramesKept'
    BY <1>1, <1>8, <1>9, <2>1 DEF FramesKept
  <2>5. \A k \in DOMAIN window.pcm :
           /\ first <= window.pcm[k] /\ window.pcm[k] < heardTo
           /\ \A i \in DOMAIN frames' : window.pcm[k] < frames'[i]
    BY <1>1 DEF SpeechInd, SpeechTyped, FramesInOrder
  <2>6. FramesInOrder'
    <3>1. \A k \in DOMAIN window'.pcm : k \in DOMAIN window.pcm \/ k = Len(window.pcm) + 1
      BY <2>1
    <3>2. first < heardTo /\ \A i \in DOMAIN frames' : first < frames'[i]
      <4>1. heardTo \in Nat /\ \A i \in DOMAIN frames' : frames'[i] \in Nat
        BY <1>1, SpeechTypes DEF SpeechInd
      <4> QED BY <1>2, <4>1
    <3>3. \A k \in DOMAIN window'.pcm :
             /\ first <= window'.pcm[k] /\ window'.pcm[k] < heardTo
             /\ \A i \in DOMAIN frames' : window'.pcm[k] < frames'[i]
      BY <1>2, <2>1, <2>5, <3>1
    <3> HIDE DEF first, dts
    <3>4. 0 < heardTo
      BY DEF SpeechInd, FramesInOrder
    <3> QED BY <1>1, <1>2, <1>3, <1>5, <3>2, <3>3, <3>4 DEF FramesInOrder
  <2> QED BY <1>6, <1>7, <2>2, <2>3, <2>4, <2>6 DEF SpeechInd
<1>10. CASE window' = [window EXCEPT !.start = first] /\ spent' = spent \cup {dts} /\ UNCHANGED scribe
  <2>1. window'.pcm = window.pcm /\ window' \in [start : Nat, pcm : Seq(Nat)]
    BY <1>2, <1>10 DEF SpeechInd, SpeechTyped
  <2>2. SpeechTyped'
    BY <1>1, <1>10, <2>1 DEF SpeechInd, SpeechTyped
  <2>3. ScribeFollows'
    BY <1>1, <1>10, <2>1 DEF SpeechInd, SpeechTyped, ScribeFollows
  <2>4. FramesKept'
    BY <1>1, <1>8, <1>10, <2>1 DEF FramesKept
  <2>5. \A k \in DOMAIN window.pcm :
           /\ first <= window.pcm[k] /\ window.pcm[k] < heardTo
           /\ \A i \in DOMAIN frames' : window.pcm[k] < frames'[i]
    BY <1>1 DEF SpeechInd, SpeechTyped, FramesInOrder
  <2>6. FramesInOrder'
    BY <1>1, <1>2, <1>3, <1>5, <2>1, <2>5 DEF FramesInOrder, SpeechInd
  <2> QED BY <1>6, <1>7, <2>2, <2>3, <2>4, <2>6 DEF SpeechInd
<1> QED BY <1>5, <1>9, <1>10

LEMMA InferStep ==
  ASSUME SpeechInd, Infer
  PROVE  SpeechInd'
<1>1. /\ scribe \in {"infer", "last"} /\ scribe' = IF scribe = "last" THEN "gone" ELSE "run"
      /\ window' = NoWindow /\ spent' = spent \cup {window.pcm[i] : i \in DOMAIN window.pcm}
      /\ UNCHANGED <<speaker, entryUp, heardTo, frames, accepted>>
      /\ cues' = cues \/ cues' = Append(cues, Caption)
  BY DEF Infer
<1>2. /\ Caption \in [start : Nat, of : Seq(Nat), listed : BOOLEAN]
      /\ Caption.start = window.start /\ Caption.of = window.pcm /\ Caption.listed /\ window.start # 0
  BY <1>1 DEF Caption, SpeechInd, SpeechTyped, ScribeFollows, FramesInOrder
<1>3. SpeechTyped'
  <2>1. <<>> \in Seq(Nat)
    OBVIOUS
  <2>2. window' \in [start : Nat, pcm : Seq(Nat)]
    BY <1>1, <2>1 DEF NoWindow
  <2>3. cues' \in Seq([start : Nat, of : Seq(Nat), listed : BOOLEAN])
    <3> DEFINE Cues == [start : Nat, of : Seq(Nat), listed : BOOLEAN]
    <3>1. cues \in Seq(Cues) /\ Caption \in Cues
      BY <1>2 DEF SpeechInd, SpeechTyped
    <3> HIDE DEF Cues
    <3>2. cues' \in Seq(Cues)
      BY <1>1, <3>1
    <3> QED BY <3>2 DEF Cues
  <2> QED BY <1>1, <2>2, <2>3 DEF SpeechInd, SpeechTyped
<1>4. ScribeFollows'
  BY <1>1 DEF SpeechInd, SpeechTyped, ScribeFollows, NoWindow
<1>5. FramesKept'
  BY <1>1 DEF SpeechInd, FramesKept
<1>6. FramesInOrder'
  BY <1>1 DEF SpeechInd, SpeechTyped, FramesInOrder, NoWindow
<1>7. CASE cues' = cues
  BY <1>1, <1>3, <1>4, <1>5, <1>6, <1>7 DEF SpeechInd, CuesBehind, CuesReachTheTrack, CuesTimed, NoWindow
<1>8. CASE cues' = Append(cues, Caption)
  <2> DEFINE n == Len(cues) + 1
  <2>1. /\ DOMAIN cues' = 1..n /\ DOMAIN cues = 1..(n - 1) /\ n \in Nat \ {0} /\ cues'[n] = Caption
        /\ \A c \in DOMAIN cues : cues'[c] = cues[c]
    BY <1>2, <1>8 DEF SpeechInd, SpeechTyped
  <2> HIDE DEF n
  <2>2. \A j \in DOMAIN window.pcm :
          /\ window.start <= window.pcm[j] /\ window.pcm[j] < heardTo
          /\ \A i \in DOMAIN frames : window.pcm[j] < frames[i]
    BY DEF SpeechInd, FramesInOrder
  <2>3. \A c \in DOMAIN cues : \A j \in DOMAIN cues[c].of :
          /\ cues[c].of[j] < heardTo /\ cues[c].of[j] < window.start
          /\ \A i \in DOMAIN frames : cues[c].of[j] < frames[i]
    BY <1>2 DEF SpeechInd, CuesBehind
  <2>4. CuesBehind'
    BY <1>1, <1>2, <2>1, <2>2, <2>3 DEF CuesBehind, NoWindow
  <2>5. CuesReachTheTrack'
    BY <1>2, <2>1 DEF SpeechInd, CuesReachTheTrack
  <2>6. CuesTimed'
    <3> SUFFICES ASSUME NEW c \in DOMAIN cues'
                 PROVE  /\ \A j \in DOMAIN cues'[c].of : cues'[c].start <= cues'[c].of[j]
                        /\ \A h \in 1..(c - 1) : \A j \in DOMAIN cues'[h].of : cues'[h].of[j] < cues'[c].start
      BY DEF CuesTimed
    <3>1. CASE c = n
      BY <1>2, <2>1, <2>2, <2>3, <3>1
    <3>2. CASE c # n
      <4>1. c \in DOMAIN cues /\ \A h \in 1..(c - 1) : h \in DOMAIN cues
        BY <2>1, <3>2
      <4> QED BY <2>1, <4>1 DEF SpeechInd, CuesTimed
    <3> QED BY <3>1, <3>2
  <2> QED BY <1>3, <1>4, <1>5, <1>6, <2>4, <2>5, <2>6 DEF SpeechInd
<1> QED BY <1>1, <1>7, <1>8

LEMMA SpeechProceeds == SpeechInd /\ [SpeechNext]_speech => SpeechInd'
<1> SUFFICES ASSUME SpeechInd, [SpeechNext]_speech PROVE SpeechInd'
  OBVIOUS
<1>1. CASE ScribeEnds
  BY <1>1 DEF ScribeEnds, SpeechInd, SpeechTyped, ScribeFollows, FramesKept, FramesInOrder, CuesBehind,
              CuesReachTheTrack, CuesTimed
<1>2. CASE Republish
  <2>1. /\ speaker' = "none" /\ entryUp' = FALSE /\ heardTo' = 1 /\ frames' = <<>> /\ scribe' = "none"
        /\ window' = NoWindow /\ cues' = <<>> /\ accepted' = {}
    BY <1>2 DEF Republish
  <2>2. \A T : <<>> \in Seq(T) /\ DOMAIN <<>> = {}
    OBVIOUS
  <2>3. window'.start = 0 /\ window'.pcm = <<>> /\ window' \in [start : Nat, pcm : Seq(Nat)]
    BY <2>1, <2>2 DEF NoWindow
  <2>4. SpeechTyped'
    BY <2>1, <2>2, <2>3 DEF SpeechTyped
  <2> QED BY <2>1, <2>2, <2>3, <2>4 DEF SpeechInd, ScribeFollows, FramesKept, FramesInOrder, CuesBehind,
                                        CuesReachTheTrack, CuesTimed
<1>3. CASE UNCHANGED speech
  BY <1>3 DEF speech, SpeechInd, SpeechTyped, ScribeFollows, FramesKept, FramesInOrder, CuesBehind,
              CuesReachTheTrack, CuesTimed
<1> QED BY <1>1, <1>2, <1>3, SpeakerSteps, FragmentStep, ScribeTakesStep, InferStep DEF SpeechNext

LEMMA SpeechIndIsEnough == SpeechInd => SpeechInv
BY DEF SpeechInd, SpeechInv, NoneUnheard, ScribeFollows, FramesKept, SpeechTyped
-----------------------------------------------------------------------------
(* SignalRouting: the signalling server.                                   *)

Letters == [kind : {"assign", "signal", "left"}, from : PeerIds, to : PeerIds, no : Nat]

SignalSessions ==
  [Sockets -> [at : {"new", "joining", "on", "leaving", "telling", "gone"}, id : PeerIds \cup {Unlisted},
               wire : {"open", "dead"}, mail : Seq(Letters), left : SUBSET PeerIds]]

SignalTyped ==
  /\ session \in SignalSessions
  /\ directory \in [PeerIds -> Sockets \cup {Unlisted}] /\ mailed \in Nat
  /\ heard \in [Sockets -> SUBSET PeerIds] /\ farewells \subseteq [by : Sockets, to : Sockets]

\* A session has an id from its registration on, and no mail before.
Registered ==
  \A s \in Sockets : /\ session[s].at \notin {"new", "gone"} => session[s].id \in PeerIds
                     /\ session[s].at = "new" => session[s].mail = <<>>

\* The number of the next signal is not in use.
Numbered ==
  \A s \in Sockets : \A k \in DOMAIN session[s].mail :
    session[s].mail[k].kind = "signal" => session[s].mail[k].no < mailed

Told(f) ==
  \/ session[f.by].id \in heard[f.to]
  \/ \E k \in DOMAIN session[f.to].mail :
       session[f.to].mail[k].kind = "left" /\ session[f.to].mail[k].from = session[f.by].id

\* A farewell is told, unless its session is replaced, or is still to be told
\* to the id of the session.
FarewellsOwed ==
  \A f \in farewells :
    /\ session[f.by].at \in {"telling", "gone"} /\ session[f.by].id \in PeerIds /\ session[f.to].at # "new"
    /\ ~Deaf(f.to) => Told(f) \/ (session[f.by].at = "telling" /\ session[f.to].id \in session[f.by].left)

SignalInd == SignalTyped /\ Registered /\ NoDeadEntry /\ MailAddressed /\ Numbered /\ FarewellsOwed

LEMMA SignalBegins == SignalInit => SignalInd
<1> SUFFICES ASSUME SignalInit PROVE SignalInd
  OBVIOUS
<1>1. <<>> \in Seq(Letters) /\ DOMAIN <<>> = {}
  OBVIOUS
<1>2. \A s \in Sockets : session[s] = NewSession
  BY DEF SignalInit
<1>3. NewSession.mail = <<>> /\ NewSession.at = "new"
  BY DEF NewSession
<1>4. SignalTyped
  BY <1>1 DEF SignalInit, SignalTyped, SignalSessions, NewSession
<1> QED BY <1>1, <1>2, <1>3, <1>4
    DEF SignalInit, SignalInd, Registered, NoDeadEntry, MailAddressed, Numbered, FarewellsOwed

\* A session that is listed is listed under its id.
LEMMA ListedById ==
  ASSUME SignalInd, NEW s \in Sockets
  PROVE  ~Deaf(s) => session[s].id \in PeerIds /\ directory[session[s].id] = s
BY RoutingAssumption DEF SignalInd, NoDeadEntry, Deaf

\* What a message does: the holder of the id gets it, nothing else changes.
LEMMA SentTo ==
  ASSUME SignalTyped, NEW r, NEW i \in PeerIds, NEW letter \in Letters,
         r \in SignalSessions
  PROVE  LET u == SendToPeer(r, i, letter)
         IN  /\ u \in SignalSessions
             /\ \A s \in Sockets :
                  /\ u[s].at = r[s].at /\ u[s].id = r[s].id /\ u[s].wire = r[s].wire /\ u[s].left = r[s].left
                  /\ u[s].mail = IF directory[i] = s THEN Append(r[s].mail, letter) ELSE r[s].mail
<1> DEFINE u == SendToPeer(r, i, letter)
           h == directory[i]
<1>1. CASE h = Unlisted
  BY <1>1, RoutingAssumption DEF SendToPeer
<1>2. CASE h # Unlisted
  <2>0. r \in [Sockets -> [at : {"new", "joining", "on", "leaving", "telling", "gone"}, id : PeerIds \cup {Unlisted},
                           wire : {"open", "dead"}, mail : Seq(Letters), left : SUBSET PeerIds]]
    BY DEF SignalSessions
  <2>1. h \in Sockets /\ u = [r EXCEPT ![h] = [r[h] EXCEPT !.mail = Append(r[h].mail, letter)]]
    BY <1>2 DEF SendToPeer, SignalTyped
  <2>2. Append(r[h].mail, letter) \in Seq(Letters)
    BY <2>0, <2>1
  <2> HIDE DEF h, u
  <2>3. \A s \in Sockets : u[s] = IF s = h THEN [r[h] EXCEPT !.mail = Append(r[h].mail, letter)] ELSE r[s]
    BY <2>0, <2>1
  <2>4. [r[h] EXCEPT !.mail = Append(r[h].mail, letter)] \in
          [at : {"new", "joining", "on", "leaving", "telling", "gone"},
           id : PeerIds \cup {Unlisted}, wire : {"open", "dead"}, mail : Seq(Letters), left : SUBSET PeerIds]
    BY <2>0, <2>1, <2>2
  <2>5. u \in SignalSessions
    BY <2>0, <2>1, <2>4 DEF SignalSessions
  <2>6. \A s \in Sockets :
          /\ u[s].at = r[s].at /\ u[s].id = r[s].id /\ u[s].wire = r[s].wire /\ u[s].left = r[s].left
          /\ u[s].mail = IF h = s THEN Append(r[s].mail, letter) ELSE r[s].mail
    BY <2>0, <2>1, <2>3
  <2> QED BY <2>5, <2>6 DEF h, u
<1> QED BY <1>1, <1>2

\* A message in the post: it is addressed to the id it goes to, and a signal
\* has the next number.
LEMMA Posted ==
  ASSUME SignalInd, SignalTyped', NEW i \in PeerIds, NEW letter \in Letters, letter.to = i,
         \A s \in Sockets :
           /\ session'[s].id = session[s].id
           /\ session'[s].mail = IF directory[i] = s THEN Append(session[s].mail, letter) ELSE session[s].mail,
         IF letter.kind = "signal" THEN letter.no = mailed /\ mailed' = mailed + 1 ELSE mailed' = mailed
  PROVE  /\ MailAddressed' /\ Numbered'
         /\ \A s \in Sockets : \A k \in DOMAIN session[s].mail :
              k \in DOMAIN session'[s].mail /\ session'[s].mail[k] = session[s].mail[k]
         /\ directory[i] \in Sockets =>
              \E k \in DOMAIN session'[directory[i]].mail : session'[directory[i]].mail[k] = letter
<1>1. ASSUME NEW s \in Sockets, directory[i] = s
      PROVE  /\ \A k \in DOMAIN session[s].mail :
                  k \in DOMAIN session'[s].mail /\ session'[s].mail[k] = session[s].mail[k]
             /\ \E k \in DOMAIN session'[s].mail : session'[s].mail[k] = letter
             /\ \A k \in DOMAIN session'[s].mail :
                  /\ session'[s].mail[k].to = session[s].id
                  /\ session'[s].mail[k].kind = "signal" => session'[s].mail[k].no < mailed'
             /\ \A j, k \in DOMAIN session'[s].mail :
                  /\ j < k /\ session'[s].mail[j].kind = "signal" /\ session'[s].mail[k].kind = "signal"
                  => session'[s].mail[j].no < session'[s].mail[k].no
  <2> DEFINE m == session[s].mail
             n == Len(m) + 1
             v == session'[s].mail
  <2>0. m \in Seq(Letters)
    BY DEF SignalInd, SignalTyped, SignalSessions
  <2>1. /\ v = Append(m, letter) /\ DOMAIN m = 1..(n - 1) /\ DOMAIN v = 1..n /\ n \in Nat \ {0}
        /\ v[n] = letter /\ \A k \in DOMAIN m : v[k] = m[k] /\ m[k] \in Letters
    <3>1. v = Append(m, letter)
      BY <1>1
    <3> HIDE DEF m, v
    <3>2. DOMAIN m = 1..(n - 1) /\ n \in Nat \ {0} /\ \A k \in DOMAIN m : m[k] \in Letters
      BY <2>0
    <3>3. DOMAIN v = 1..n /\ v[n] = letter /\ \A k \in DOMAIN m : v[k] = m[k]
      BY <2>0, <3>1, <3>2
    <3> QED BY <3>1, <3>2, <3>3
  <2>2. session[s].id = i
    BY <1>1, RoutingAssumption DEF SignalInd, NoDeadEntry
  <2>3. /\ \A k \in DOMAIN m : m[k].to = i /\ (m[k].kind = "signal" => m[k].no < mailed)
        /\ \A j, k \in DOMAIN m : j < k /\ m[j].kind = "signal" /\ m[k].kind = "signal" => m[j].no < m[k].no
    BY <2>2 DEF SignalInd, MailAddressed, Numbered
  <2>4. \A k \in DOMAIN m : m[k].no \in Nat
    BY <2>1 DEF Letters
  <2>5. mailed \in Nat
    BY DEF SignalInd, SignalTyped
  <2> HIDE DEF m, v, n
  <2>6. \A k \in DOMAIN v : k \in DOMAIN m \/ k = n
    BY <2>1
  <2>7. \A k \in DOMAIN v : v[k].to = i /\ (v[k].kind = "signal" => v[k].no < mailed')
    BY <2>1, <2>3, <2>4, <2>5, <2>6
  <2>8. \A j, k \in DOMAIN v : j < k /\ v[j].kind = "signal" /\ v[k].kind = "signal" => v[j].no < v[k].no
    BY <2>1, <2>3, <2>6
  <2>9. n \in DOMAIN v /\ \A k \in DOMAIN m : k \in DOMAIN v
    BY <2>1
  <2> QED BY <2>1, <2>2, <2>7, <2>8, <2>9 DEF m, v
<1>2. ASSUME NEW s \in Sockets, directory[i] # s
      PROVE  /\ session'[s].mail = session[s].mail /\ session'[s].id = session[s].id
             /\ \A k \in DOMAIN session[s].mail :
                  /\ session[s].mail[k].to = session[s].id
                  /\ session[s].mail[k].kind = "signal" => session[s].mail[k].no < mailed'
  <2>1. \A k \in DOMAIN session[s].mail : session[s].mail[k] \in Letters
    <3>1. session[s].mail \in Seq(Letters)
      BY DEF SignalInd, SignalTyped, SignalSessions
    <3> QED BY <3>1
  <2>2. mailed \in Nat /\ mailed' \in Nat /\ mailed <= mailed'
    BY DEF SignalInd, SignalTyped
  <2>3. \A k \in DOMAIN session[s].mail : session[s].mail[k].no \in Nat
    BY <2>1 DEF Letters
  <2> QED BY <1>2, <2>2, <2>3 DEF SignalInd, MailAddressed, Numbered
<1>3. MailAddressed'
  BY <1>1, <1>2 DEF MailAddressed, SignalInd
<1>4. Numbered'
  BY <1>1, <1>2 DEF Numbered
<1> QED BY <1>1, <1>2, <1>3, <1>4

\* Nothing happens to ids and mail.
LEMMA NoPost ==
  ASSUME SignalInd, SignalTyped', mailed' = mailed,
         \A s \in Sockets : session'[s].id = session[s].id /\ session'[s].mail = session[s].mail
  PROVE  MailAddressed' /\ Numbered'
BY DEF SignalInd, MailAddressed, Numbered

\* A session goes on by itself: it stays listed only if it is alive, and
\* nobody's farewell concerns it.
LEMMA SignalAlone ==
  ASSUME SignalInd, NEW s \in Sockets,
         RegisterRefused(s) \/ ClientCloses(s) \/ SessionBreaks(s)
  PROVE  SignalInd'
<1> DEFINE a == session'[s].at
<1>1. UNCHANGED <<directory, mailed, heard, farewells>> /\ session[s].at \in {"new", "on"}
  BY DEF RegisterRefused, ClientCloses, SessionBreaks
<1>2. /\ a \in {"gone", "leaving", "on"}
      /\ a = "gone" => session[s].at = "new"
      /\ a # "gone" => session[s].at = "on"
  BY DEF RegisterRefused, ClientCloses, SessionBreaks, SignalInd, SignalTyped, SignalSessions
<1>3. /\ session' \in SignalSessions
      /\ \A u \in Sockets :
           /\ session'[u].id = session[u].id /\ session'[u].mail = session[u].mail /\ session'[u].left = session[u].left
           /\ session'[u].at = IF u = s THEN a ELSE session[u].at
  <2>1. CASE RegisterRefused(s)
    BY <2>1 DEF RegisterRefused, SignalInd, SignalTyped, SignalSessions
  <2>2. CASE ClientCloses(s)
    BY <2>2 DEF ClientCloses, SignalInd, SignalTyped, SignalSessions
  <2>3. CASE SessionBreaks(s)
    BY <2>3 DEF SessionBreaks, SignalInd, SignalTyped, SignalSessions
  <2> QED BY <2>1, <2>2, <2>3
<1>3a. SignalTyped'
  BY <1>1, <1>3 DEF SignalInd, SignalTyped
<1> HIDE DEF a
<1>4. MailAddressed' /\ Numbered'
  BY <1>1, <1>3, <1>3a, NoPost
<1>5. Registered'
  BY <1>2, <1>3 DEF SignalInd, Registered
<1>6. NoDeadEntry'
  <2> SUFFICES ASSUME NEW j \in PeerIds, directory[j] # Unlisted
               PROVE  session'[directory[j]].id = j /\ session'[directory[j]].at \in {"joining", "on", "leaving"}
    BY <1>1 DEF NoDeadEntry
  <2>1. directory[j] \in Sockets /\ session[directory[j]].id = j /\ session[directory[j]].at \in {"joining", "on", "leaving"}
    BY DEF SignalInd, SignalTyped, NoDeadEntry
  <2> QED BY <1>2, <1>3, <2>1
<1>7. FarewellsOwed'
  <2> SUFFICES ASSUME NEW f \in farewells
               PROVE  /\ session'[f.by].at \in {"telling", "gone"} /\ session'[f.by].id \in PeerIds
                      /\ session'[f.to].at # "new"
                      /\ ~Deaf(f.to)' => Told(f)' \/ (session'[f.by].at = "telling" /\ session'[f.to].id \in session'[f.by].left)
    BY <1>1 DEF FarewellsOwed
  <2>1. f.by \in Sockets /\ f.to \in Sockets /\ f.by # s
    BY <1>1 DEF SignalInd, SignalTyped, FarewellsOwed
  <2>2. (Deaf(f.to)' <=> Deaf(f.to)) /\ (Told(f)' <=> Told(f))
    BY <1>1, <1>3, <2>1 DEF Deaf, Told
  <2> QED BY <1>2, <1>3, <2>1, <2>2 DEF SignalInd, FarewellsOwed
<1> QED BY <1>3a, <1>4, <1>5, <1>6, <1>7 DEF SignalInd

LEMMA RegisterPeerStep ==
  ASSUME SignalInd, NEW s \in Sockets, NEW i \in PeerIds, RegisterPeer(s, i)
  PROVE  SignalInd'
<1>1. /\ UNCHANGED <<mailed, heard, farewells>> /\ session[s].at = "new" /\ session[s].mail = <<>>
      /\ SignalTyped'
      /\ \A j \in PeerIds : directory'[j] = IF j = i THEN s ELSE directory[j]
      /\ \A u \in Sockets :
           /\ session'[u].id = (IF u = s THEN i ELSE session[u].id) /\ session'[u].mail = session[u].mail
           /\ session'[u].left = session[u].left
           /\ session'[u].at = IF u = s THEN "joining" ELSE session[u].at
  BY DEF RegisterPeer, SignalInd, SignalTyped, SignalSessions, Registered
<1>2. MailAddressed' /\ Numbered'
  BY <1>1 DEF SignalInd, MailAddressed, Numbered
<1>3. Registered'
  BY <1>1 DEF SignalInd, Registered
<1>4. \A j \in PeerIds : directory[j] # s
  BY <1>1, RoutingAssumption DEF SignalInd, NoDeadEntry
<1>5. NoDeadEntry'
  BY <1>1, <1>4, RoutingAssumption DEF SignalInd, SignalTyped, NoDeadEntry
<1>6. FarewellsOwed'
  <2> SUFFICES ASSUME NEW f \in farewells
               PROVE  /\ session'[f.by].at \in {"telling", "gone"} /\ session'[f.by].id \in PeerIds
                      /\ session'[f.to].at # "new"
                      /\ ~Deaf(f.to)' => Told(f)' \/ (session'[f.by].at = "telling" /\ session'[f.to].id \in session'[f.by].left)
    BY <1>1 DEF FarewellsOwed
  <2>1. f.by \in Sockets /\ f.to \in Sockets /\ f.by # s /\ f.to # s
    BY <1>1 DEF SignalInd, SignalTyped, FarewellsOwed
  <2>2. (~Deaf(f.to)' => ~Deaf(f.to)) /\ (Told(f)' <=> Told(f))
    BY <1>1, <2>1 DEF Deaf, Told
  <2> QED BY <1>1, <2>1, <2>2 DEF SignalInd, FarewellsOwed
<1> QED BY <1>1, <1>2, <1>3, <1>5, <1>6 DEF SignalInd

\* What a message leaves as it was.
LEMMA PostKeeps ==
  ASSUME SignalInd, SignalTyped', UNCHANGED <<directory, heard, farewells>>,
         MailAddressed', Numbered',
         \A s \in Sockets : \A k \in DOMAIN session[s].mail :
           k \in DOMAIN session'[s].mail /\ session'[s].mail[k] = session[s].mail[k],
         \A s \in Sockets :
           /\ session'[s].id = session[s].id /\ session'[s].left = session[s].left
           /\ \/ session'[s].at = session[s].at
              \/ session[s].at = "joining" /\ session'[s].at = "on",
         \A s \in Sockets : session[s].at = "new" => session'[s].mail = session[s].mail
  PROVE  SignalInd'
<1>1. Registered'
  BY DEF SignalInd, Registered
<1>2. NoDeadEntry'
  BY DEF SignalInd, SignalTyped, NoDeadEntry
<1>3. FarewellsOwed'
  <2> SUFFICES ASSUME NEW f \in farewells
               PROVE  /\ session'[f.by].at \in {"telling", "gone"} /\ session'[f.by].id \in PeerIds
                      /\ session'[f.to].at # "new"
                      /\ ~Deaf(f.to)' => Told(f)' \/ (session'[f.by].at = "telling" /\ session'[f.to].id \in session'[f.by].left)
    BY DEF FarewellsOwed
  <2>1. f.by \in Sockets /\ f.to \in Sockets
    BY DEF SignalInd, SignalTyped
  <2>2. (~Deaf(f.to)' => ~Deaf(f.to)) /\ (Told(f) => Told(f)')
    BY <2>1 DEF Deaf, Told
  <2> QED BY <2>1, <2>2 DEF SignalInd, FarewellsOwed
<1> QED BY <1>1, <1>2, <1>3 DEF SignalInd

LEMMA AnswerStep ==
  ASSUME SignalInd, NEW s \in Sockets, AnswerRegister(s)
  PROVE  SignalInd'
<1> DEFINE i == session[s].id
           letter == Letter("assign", i, i)
           r == [session EXCEPT ![s].at = "on"]
<1>1. session[s].at = "joining" /\ session' = SendToPeer(r, i, letter) /\ UNCHANGED <<directory, mailed, heard, farewells>>
  BY DEF AnswerRegister
<1>2. i \in PeerIds /\ letter \in Letters /\ letter.to = i /\ letter.kind # "signal"
  BY <1>1 DEF SignalInd, Registered, Letter, Letters
<1>3. /\ r \in SignalSessions
      /\ \A u \in Sockets :
           /\ r[u].id = session[u].id /\ r[u].mail = session[u].mail /\ r[u].left = session[u].left
           /\ r[u].at = IF u = s THEN "on" ELSE session[u].at
  BY <1>1 DEF SignalInd, SignalTyped, SignalSessions
<1> HIDE DEF i, letter, r
<1>4. /\ SignalTyped'
      /\ \A u \in Sockets :
           /\ session'[u].id = session[u].id /\ session'[u].left = session[u].left
           /\ session'[u].at = (IF u = s THEN "on" ELSE session[u].at)
           /\ session'[u].mail = IF directory[i] = u THEN Append(session[u].mail, letter) ELSE session[u].mail
  <2>1. SignalTyped
    BY DEF SignalInd
  <2>2. session' \in SignalSessions /\ \A u \in Sockets :
          /\ session'[u].at = r[u].at /\ session'[u].id = r[u].id /\ session'[u].left = r[u].left
          /\ session'[u].mail = IF directory[i] = u THEN Append(r[u].mail, letter) ELSE r[u].mail
    BY <1>1, <1>2, <1>3, SentTo, <2>1 DEF SignalTyped
  <2> QED BY <1>1, <1>3, <2>1, <2>2 DEF SignalTyped
<1>5. \A u \in Sockets : session[u].at = "new" => session'[u].mail = session[u].mail
  BY <1>2, <1>4, RoutingAssumption DEF SignalInd, NoDeadEntry
<1>6. /\ MailAddressed' /\ Numbered'
      /\ \A u \in Sockets : \A k \in DOMAIN session[u].mail :
           k \in DOMAIN session'[u].mail /\ session'[u].mail[k] = session[u].mail[k]
  BY <1>1, <1>2, <1>4, Posted
<1> QED BY <1>1, <1>4, <1>5, <1>6, PostKeeps

LEMMA ForwardStep ==
  ASSUME SignalInd, NEW s \in Sockets, NEW i \in PeerIds, Forward(s, i)
  PROVE  SignalInd'
<1> DEFINE letter == Letter("signal", session[s].id, i)
<1>1. session[s].at = "on" /\ mailed' = mailed + 1 /\ session' = SendToPeer(session, i, letter)
      /\ UNCHANGED <<directory, heard, farewells>>
  BY DEF Forward
<1>2. letter \in Letters /\ letter.to = i /\ letter.kind = "signal" /\ letter.no = mailed
  BY <1>1 DEF SignalInd, SignalTyped, Registered, Letter, Letters
<1> HIDE DEF letter
<1>4. /\ SignalTyped'
      /\ \A u \in Sockets :
           /\ session'[u].id = session[u].id /\ session'[u].left = session[u].left
           /\ session'[u].at = session[u].at
           /\ session'[u].mail = IF directory[i] = u THEN Append(session[u].mail, letter) ELSE session[u].mail
  <2>1. SignalTyped
    BY DEF SignalInd
  <2>2. session' \in SignalSessions /\ \A u \in Sockets :
          /\ session'[u].at = session[u].at /\ session'[u].id = session[u].id /\ session'[u].left = session[u].left
          /\ session'[u].mail = IF directory[i] = u THEN Append(session[u].mail, letter) ELSE session[u].mail
    BY <1>1, <1>2, SentTo, <2>1 DEF SignalTyped
  <2> QED BY <1>1, <2>1, <2>2 DEF SignalTyped
<1>5. \A u \in Sockets : session[u].at = "new" => session'[u].mail = session[u].mail
  BY <1>2, <1>4, RoutingAssumption DEF SignalInd, NoDeadEntry
<1>6. /\ MailAddressed' /\ Numbered'
      /\ \A u \in Sockets : \A k \in DOMAIN session[u].mail :
           k \in DOMAIN session'[u].mail /\ session'[u].mail[k] = session[u].mail[k]
  BY <1>1, <1>2, <1>4, Posted
<1> QED BY <1>1, <1>4, <1>5, <1>6, PostKeeps

\* One peer is told: if it is still listed, it has the letter.
LEMMA TellPeerStep ==
  ASSUME SignalInd, NEW s \in Sockets, NEW i \in PeerIds, TellPeer(s, i)
  PROVE  SignalInd'
<1> DEFINE letter == Letter("left", session[s].id, i)
           a == IF session[s].left = {i} THEN "gone" ELSE "telling"
           r == [session EXCEPT ![s].left = @ \ {i}, ![s].at = IF session[s].left = {i} THEN "gone" ELSE @]
<1>1. session[s].at = "telling" /\ session' = SendToPeer(r, i, letter) /\ UNCHANGED <<directory, mailed, heard, farewells>>
  BY DEF TellPeer
<1>2. letter \in Letters /\ letter.to = i /\ letter.kind = "left" /\ letter.from = session[s].id /\ a \in {"gone", "telling"}
  BY <1>1 DEF SignalInd, SignalTyped, Registered, Letter, Letters
<1>3. /\ r \in SignalSessions
      /\ \A u \in Sockets :
           /\ r[u].id = session[u].id /\ r[u].mail = session[u].mail
           /\ r[u].left = (IF u = s THEN session[s].left \ {i} ELSE session[u].left)
           /\ r[u].at = IF u = s THEN a ELSE session[u].at
  BY <1>1 DEF SignalInd, SignalTyped, SignalSessions
<1>3a. a = "gone" => session[s].left = {i}
  OBVIOUS
<1> HIDE DEF letter, r, a
<1>4. /\ SignalTyped'
      /\ \A u \in Sockets :
           /\ session'[u].id = session[u].id
           /\ session'[u].left = (IF u = s THEN session[s].left \ {i} ELSE session[u].left)
           /\ session'[u].at = (IF u = s THEN a ELSE session[u].at)
           /\ session'[u].mail = IF directory[i] = u THEN Append(session[u].mail, letter) ELSE session[u].mail
  <2>1. SignalTyped
    BY DEF SignalInd
  <2>2. session' \in SignalSessions /\ \A u \in Sockets :
          /\ session'[u].at = r[u].at /\ session'[u].id = r[u].id /\ session'[u].left = r[u].left
          /\ session'[u].mail = IF directory[i] = u THEN Append(r[u].mail, letter) ELSE r[u].mail
    BY <1>1, <1>2, <1>3, SentTo, <2>1 DEF SignalTyped
  <2>3. SignalTyped'
    BY <1>1, <2>1, <2>2 DEF SignalTyped
  <2>4. ASSUME NEW u \in Sockets
        PROVE  /\ session'[u].id = session[u].id
               /\ session'[u].left = (IF u = s THEN session[s].left \ {i} ELSE session[u].left)
               /\ session'[u].at = (IF u = s THEN a ELSE session[u].at)
               /\ session'[u].mail = IF directory[i] = u THEN Append(session[u].mail, letter) ELSE session[u].mail
    <3>1. /\ session'[u].id = r[u].id /\ session'[u].left = r[u].left /\ session'[u].at = r[u].at
          /\ session'[u].mail = IF directory[i] = u THEN Append(r[u].mail, letter) ELSE r[u].mail
      BY <2>2
    <3>2. /\ r[u].id = session[u].id /\ r[u].mail = session[u].mail
          /\ r[u].left = (IF u = s THEN session[s].left \ {i} ELSE session[u].left)
          /\ r[u].at = IF u = s THEN a ELSE session[u].at
      BY <1>3
    <3> QED BY <3>1, <3>2
  <2> QED BY <2>3, <2>4
<1>6. /\ MailAddressed' /\ Numbered'
      /\ \A u \in Sockets : \A k \in DOMAIN session[u].mail :
           k \in DOMAIN session'[u].mail /\ session'[u].mail[k] = session[u].mail[k]
      /\ directory[i] \in Sockets =>
           \E k \in DOMAIN session'[directory[i]].mail : session'[directory[i]].mail[k] = letter
  <2>1. \A u \in Sockets :
          /\ session'[u].id = session[u].id
          /\ session'[u].mail = IF directory[i] = u THEN Append(session[u].mail, letter) ELSE session[u].mail
    BY <1>4
  <2>2. IF letter.kind = "signal" THEN letter.no = mailed /\ mailed' = mailed + 1 ELSE mailed' = mailed
    BY <1>1, <1>2
  <2> HIDE DEF SignalTyped
  <2>3. SignalTyped'
    BY <1>4
  <2> QED BY <1>2, <2>1, <2>2, <2>3, Posted
<1>7. Registered'
  <2>1. \A u \in Sockets : session[u].at = "new" => session'[u].mail = session[u].mail
    BY <1>2, <1>4, RoutingAssumption DEF SignalInd, NoDeadEntry
  <2> QED BY <1>1, <1>2, <1>4, <2>1 DEF SignalInd, Registered
<1>8. NoDeadEntry'
  <2> SUFFICES ASSUME NEW j \in PeerIds, directory[j] # Unlisted
               PROVE  session'[directory[j]].id = j /\ session'[directory[j]].at \in {"joining", "on", "leaving"}
    BY <1>1 DEF NoDeadEntry
  <2>1. directory[j] \in Sockets /\ session[directory[j]].id = j /\ session[directory[j]].at \in {"joining", "on", "leaving"}
    BY DEF SignalInd, SignalTyped, NoDeadEntry
  <2> QED BY <1>1, <1>4, <2>1
<1>9. FarewellsOwed'
  <2> SUFFICES ASSUME NEW f \in farewells
               PROVE  /\ session'[f.by].at \in {"telling", "gone"} /\ session'[f.by].id \in PeerIds
                      /\ session'[f.to].at # "new"
                      /\ ~Deaf(f.to)' => Told(f)' \/ (session'[f.by].at = "telling" /\ session'[f.to].id \in session'[f.by].left)
    BY <1>1 DEF FarewellsOwed
  <2>1. f.by \in Sockets /\ f.to \in Sockets
    BY DEF SignalInd, SignalTyped
  <2>2. (Deaf(f.to)' <=> Deaf(f.to)) /\ (Told(f) => Told(f)')
    BY <1>1, <1>4, <1>6, <2>1 DEF Deaf, Told
  <2>3. /\ session[f.by].at \in {"telling", "gone"} /\ session[f.by].id \in PeerIds /\ session[f.to].at # "new"
        /\ ~Deaf(f.to) => Told(f) \/ (session[f.by].at = "telling" /\ session[f.to].id \in session[f.by].left)
    BY DEF SignalInd, FarewellsOwed
  <2>4. session'[f.by].at \in {"telling", "gone"} /\ session'[f.by].id \in PeerIds /\ session'[f.to].at # "new"
    BY <1>1, <1>2, <1>4, <2>1, <2>3
  <2>5. CASE f.by = s /\ session[f.to].id = i /\ ~Deaf(f.to)
    <3>1. directory[i] = f.to
      BY <2>1, <2>5, ListedById
    <3>2. Told(f)'
      BY <1>2, <1>4, <1>6, <2>1, <2>5, <3>1 DEF Told
    <3> QED BY <2>4, <3>2
  <2>6. CASE ~(f.by = s /\ session[f.to].id = i) /\ ~Deaf(f.to)
    <3>1. CASE Told(f)
      BY <2>2, <2>4, <3>1
    <3>2. CASE session[f.by].at = "telling" /\ session[f.to].id \in session[f.by].left
      <4>1. session'[f.by].at = "telling" /\ session'[f.to].id \in session'[f.by].left
        <5>1. CASE f.by = s
          <6>1. session[f.to].id # i /\ session[f.to].id \in session[s].left
            BY <2>6, <3>2, <5>1
          <6>2. a = "telling"
            BY <1>2, <1>3a, <6>1
          <6> QED BY <1>4, <2>1, <5>1, <6>1, <6>2
        <5>2. CASE f.by # s
          BY <1>4, <2>1, <3>2, <5>2
        <5> QED BY <5>1, <5>2
      <4> QED BY <2>4, <4>1
    <3> QED BY <2>3, <2>6, <3>1, <3>2
  <2> QED BY <2>2, <2>4, <2>5, <2>6
<1> QED BY <1>4, <1>6, <1>7, <1>8, <1>9 DEF SignalInd

LEMMA SendOutStep ==
  ASSUME SignalInd, NEW s \in Sockets, SendOut(s)
  PROVE  SignalInd'
<1>0. SignalTyped /\ session \in SignalSessions /\ session[s].mail \in Seq(Letters)
  BY DEF SignalInd, SignalTyped, SignalSessions
<1>1. session[s].at = "on" /\ session[s].mail # <<>> /\ UNCHANGED <<directory, mailed, farewells>>
  BY DEF SendOut
<1>2. CASE session[s].wire = "dead"
  <2>1. session' = [session EXCEPT ![s].at = "leaving"] /\ heard' = heard
    BY <1>2 DEF SendOut
  <2>2. /\ session' \in SignalSessions
        /\ \A u \in Sockets :
             /\ session'[u].id = session[u].id /\ session'[u].mail = session[u].mail /\ session'[u].left = session[u].left
             /\ session'[u].at = IF u = s THEN "leaving" ELSE session[u].at
    BY <1>0, <2>1 DEF SignalSessions
  <2>3. SignalTyped'
    BY <1>0, <1>1, <2>1, <2>2 DEF SignalTyped
  <2>4. MailAddressed' /\ Numbered'
    BY <1>1, <2>2, <2>3, NoPost
  <2>5. Registered'
    BY <1>1, <2>2 DEF SignalInd, Registered
  <2>6. NoDeadEntry'
    BY <1>1, <2>2 DEF SignalInd, SignalTyped, NoDeadEntry
  <2>7. FarewellsOwed'
    <3> SUFFICES ASSUME NEW f \in farewells
                 PROVE  /\ session'[f.by].at \in {"telling", "gone"} /\ session'[f.by].id \in PeerIds
                        /\ session'[f.to].at # "new"
                        /\ ~Deaf(f.to)' => Told(f)' \/ (session'[f.by].at = "telling" /\ session'[f.to].id \in session'[f.by].left)
      BY <1>1 DEF FarewellsOwed
    <3>1. f.by \in Sockets /\ f.to \in Sockets /\ f.by # s
      BY <1>1 DEF SignalInd, SignalTyped, FarewellsOwed
    <3>2. (Deaf(f.to)' <=> Deaf(f.to)) /\ (Told(f)' <=> Told(f))
      BY <1>1, <2>1, <2>2, <3>1 DEF Deaf, Told
    <3> QED BY <2>2, <3>1, <3>2 DEF SignalInd, FarewellsOwed
  <2> QED BY <2>3, <2>4, <2>5, <2>6, <2>7 DEF SignalInd
<1>3. CASE session[s].wire # "dead"
  <2> DEFINE m == session[s].mail
             v == Tail(m)
             news == {l.from : l \in {k \in {Head(m)} : k.kind = "left"}}
  <2>1. session' = [session EXCEPT ![s].mail = v] /\ heard' = [heard EXCEPT ![s] = @ \cup news]
    BY <1>3 DEF SendOut
  <2>2. /\ v \in Seq(Letters) /\ Head(m) = m[1] /\ m[1] \in Letters
        /\ DOMAIN m = 1..Len(m) /\ Len(m) \in Nat \ {0}
        /\ DOMAIN v = 1..(Len(m) - 1) /\ \A k \in DOMAIN v : v[k] = m[k + 1]
    BY <1>0, <1>1
  <2>2a. m[1].kind = "left" => m[1].from \in news
    BY <2>2
  <2>2b. news \subseteq PeerIds
    BY <2>2 DEF Letters
  <2> HIDE DEF v, news
  <2>3. /\ session' \in SignalSessions
        /\ \A u \in Sockets :
             /\ session'[u].id = session[u].id /\ session'[u].left = session[u].left /\ session'[u].at = session[u].at
             /\ session'[u].mail = IF u = s THEN v ELSE session[u].mail
    BY <1>0, <2>1, <2>2 DEF SignalSessions
  <2>4. \A u \in Sockets : heard'[u] = IF u = s THEN heard[u] \cup news ELSE heard[u]
    BY <1>0, <2>1 DEF SignalTyped
  <2>5. SignalTyped'
    BY <1>0, <1>1, <2>1, <2>2b, <2>3 DEF SignalTyped
  <2> HIDE DEF m
  <2>6. \A k \in DOMAIN v : k + 1 \in DOMAIN m /\ v[k] = m[k + 1] /\ \A j \in DOMAIN v : j < k => j + 1 < k + 1
    BY <2>2
  <2>7. /\ \A k \in DOMAIN v : v[k].to = session[s].id /\ (v[k].kind = "signal" => v[k].no < mailed)
        /\ \A j, k \in DOMAIN v : j < k /\ v[j].kind = "signal" /\ v[k].kind = "signal" => v[j].no < v[k].no
    <3>1. /\ \A k \in DOMAIN m : m[k].to = session[s].id /\ (m[k].kind = "signal" => m[k].no < mailed)
          /\ \A j, k \in DOMAIN m : j < k /\ m[j].kind = "signal" /\ m[k].kind = "signal" => m[j].no < m[k].no
      BY DEF m, SignalInd, MailAddressed, Numbered
    <3> QED BY <2>6, <3>1
  <2>8. MailAddressed' /\ Numbered'
    BY <1>1, <2>3, <2>7 DEF SignalInd, MailAddressed, Numbered
  <2>9. Registered' /\ NoDeadEntry'
    BY <1>1, <2>3 DEF SignalInd, SignalTyped, Registered, NoDeadEntry
  <2>10. FarewellsOwed'
    <3> SUFFICES ASSUME NEW f \in farewells
                 PROVE  /\ session'[f.by].at \in {"telling", "gone"} /\ session'[f.by].id \in PeerIds
                        /\ session'[f.to].at # "new"
                        /\ ~Deaf(f.to)' => Told(f)' \/ (session'[f.by].at = "telling" /\ session'[f.to].id \in session'[f.by].left)
      BY <1>1 DEF FarewellsOwed
    <3>1. f.by \in Sockets /\ f.to \in Sockets
      BY DEF SignalInd, SignalTyped
    <3>2. Deaf(f.to)' <=> Deaf(f.to)
      BY <1>1 DEF Deaf
    <3>3. Told(f) => Told(f)'
      <4>1. CASE session[f.by].id \in heard[f.to]
        BY <2>3, <2>4, <3>1, <4>1 DEF Told
      <4>2. CASE f.to # s
        BY <2>3, <2>4, <3>1, <4>2 DEF Told
      <4>3. ASSUME f.to = s, NEW k \in DOMAIN m, m[k].kind = "left", m[k].from = session[f.by].id
            PROVE  Told(f)'
        <5>1. CASE k = 1
          <6>1. session[f.by].id \in news
            BY <2>2a, <4>3, <5>1
          <6>2. session'[f.by].id \in heard'[f.to]
            BY <2>3, <2>4, <3>1, <4>3, <6>1
          <6> QED BY <6>2 DEF Told
        <5>2. CASE k # 1
          <6>1. k - 1 \in DOMAIN v /\ v[k - 1] = m[k]
            BY <2>2, <5>2
          <6> QED BY <2>3, <3>1, <4>3, <6>1 DEF Told
        <5> QED BY <5>1, <5>2
      <4> QED BY <4>1, <4>2, <4>3 DEF Told, m
    <3> QED BY <2>3, <3>1, <3>2, <3>3 DEF SignalInd, FarewellsOwed
  <2> QED BY <2>5, <2>8, <2>9, <2>10 DEF SignalInd
<1> QED BY <1>2, <1>3

\* A session leaves: whoever is still listed is owed a farewell.
LEMMA RemovePeerStep ==
  ASSUME SignalInd, NEW s \in Sockets, RemovePeer(s)
  PROVE  SignalInd'
<1> DEFINE i == session[s].id
<1>0. SignalTyped /\ session \in SignalSessions
  BY DEF SignalInd, SignalTyped
<1>1. /\ session[s].at = "leaving" /\ UNCHANGED <<mailed, heard>>
      /\ session' = [session EXCEPT ![s].at = "telling", ![s].left = PeerIds]
      /\ directory' = [directory EXCEPT ![i] = Unlisted]
      /\ farewells' = farewells \cup {[by |-> s, to |-> o] : o \in Listed \ {directory[i]}}
  BY DEF RemovePeer
<1>2. i \in PeerIds
  BY <1>1 DEF SignalInd, Registered
<1>3. /\ session' \in SignalSessions
      /\ \A u \in Sockets :
           /\ session'[u].id = session[u].id /\ session'[u].mail = session[u].mail
           /\ session'[u].left = (IF u = s THEN PeerIds ELSE session[u].left)
           /\ session'[u].at = IF u = s THEN "telling" ELSE session[u].at
  BY <1>0, <1>1 DEF SignalSessions
<1> HIDE DEF i
<1>4. \A j \in PeerIds : directory'[j] = IF j = i THEN Unlisted ELSE directory[j]
  BY <1>0, <1>1, <1>2 DEF SignalTyped
<1>5. \A o \in Listed : /\ o \in Sockets /\ ~Deaf(o) /\ session[o].id \in PeerIds /\ session[o].at # "new"
  BY <1>0 DEF SignalInd, SignalTyped, Listed, Deaf, NoDeadEntry
<1>6. SignalTyped'
  <2>1. directory' \in [PeerIds -> Sockets \cup {Unlisted}]
    BY <1>0, <1>1 DEF SignalTyped
  <2>2. farewells' \subseteq [by : Sockets, to : Sockets]
    BY <1>0, <1>1, <1>5 DEF SignalTyped
  <2> QED BY <1>0, <1>1, <1>3, <2>1, <2>2 DEF SignalTyped
<1>7. MailAddressed' /\ Numbered'
  BY <1>1, <1>3, <1>6, NoPost
<1>8. Registered'
  <2> SUFFICES ASSUME NEW u \in Sockets
               PROVE  /\ session'[u].at \notin {"new", "gone"} => session'[u].id \in PeerIds
                      /\ session'[u].at = "new" => session'[u].mail = <<>>
    BY DEF Registered
  <2>1. /\ session[u].at \notin {"new", "gone"} => session[u].id \in PeerIds
        /\ session[u].at = "new" => session[u].mail = <<>>
    BY DEF SignalInd, Registered
  <2>2. session[s].id \in PeerIds
    BY <1>2 DEF i
  <2> QED BY <1>3, <2>1, <2>2
<1>9. NoDeadEntry'
  <2> SUFFICES ASSUME NEW j \in PeerIds, directory'[j] # Unlisted
               PROVE  session'[directory'[j]].id = j /\ session'[directory'[j]].at \in {"joining", "on", "leaving"}
    BY DEF NoDeadEntry
  <2>1. /\ j # i /\ directory'[j] = directory[j] /\ directory[j] \in Sockets
        /\ session[directory[j]].id = j /\ session[directory[j]].at \in {"joining", "on", "leaving"}
    BY <1>0, <1>4 DEF SignalInd, SignalTyped, NoDeadEntry
  <2> QED BY <1>3, <2>1 DEF i
<1>10. FarewellsOwed'
  <2> SUFFICES ASSUME NEW f \in farewells'
               PROVE  /\ session'[f.by].at \in {"telling", "gone"} /\ session'[f.by].id \in PeerIds
                      /\ session'[f.to].at # "new"
                      /\ ~Deaf(f.to)' => Told(f)' \/ (session'[f.by].at = "telling" /\ session'[f.to].id \in session'[f.by].left)
    BY DEF FarewellsOwed
  <2>1. CASE f \in farewells
    <3>1. f.by \in Sockets /\ f.to \in Sockets /\ f.by # s
      BY <1>0, <1>1, <2>1 DEF SignalInd, SignalTyped, FarewellsOwed
    <3>2. ~Deaf(f.to)' => ~Deaf(f.to)
      BY <1>4, <3>1, RoutingAssumption DEF Deaf
    <3>3. Told(f) => Told(f)'
      BY <1>1, <1>3, <3>1 DEF Told
    <3>4. /\ session[f.by].at \in {"telling", "gone"} /\ session[f.by].id \in PeerIds /\ session[f.to].at # "new"
          /\ ~Deaf(f.to) => Told(f) \/ (session[f.by].at = "telling" /\ session[f.to].id \in session[f.by].left)
      BY <2>1 DEF SignalInd, FarewellsOwed
    <3>5. /\ session'[f.by].at = session[f.by].at /\ session'[f.by].id = session[f.by].id
          /\ session'[f.by].left = session[f.by].left /\ session'[f.to].id = session[f.to].id
          /\ session'[f.to].at # "new"
      BY <1>3, <3>1, <3>4
    <3> QED BY <3>2, <3>3, <3>4, <3>5
  <2>2. CASE f \notin farewells
    <3>1. f.by = s /\ f.to \in Listed
      BY <1>1, <2>2
    <3> QED BY <1>2, <1>3, <1>5, <3>1 DEF i
  <2> QED BY <2>1, <2>2
<1> QED BY <1>6, <1>7, <1>8, <1>9, <1>10 DEF SignalInd

LEMMA SignalProceeds == SignalInd /\ [SignalNext]_signals => SignalInd'
<1> SUFFICES ASSUME SignalInd, [SignalNext]_signals PROVE SignalInd'
  OBVIOUS
<1>1. CASE UNCHANGED signals
  <2>1. UNCHANGED <<session, directory, mailed, heard, farewells>>
    BY <1>1 DEF signals
  <2> QED BY <2>1 DEF SignalInd, SignalTyped, Registered, NoDeadEntry, MailAddressed, Numbered, FarewellsOwed, Told, Deaf
<1>2. ASSUME NEW s \in Sockets, RegisterRefused(s) \/ ClientCloses(s) \/ SessionBreaks(s)
      PROVE  SignalInd'
  BY <1>2, SignalAlone
<1>3. ASSUME NEW s \in Sockets, NEW i \in PeerIds, RegisterPeer(s, i) \/ Forward(s, i) \/ TellPeer(s, i)
      PROVE  SignalInd'
  BY <1>3, RegisterPeerStep, ForwardStep, TellPeerStep
<1>4. ASSUME NEW s \in Sockets, AnswerRegister(s) \/ SendOut(s) \/ RemovePeer(s)
      PROVE  SignalInd'
  BY <1>4, AnswerStep, SendOutStep, RemovePeerStep
<1> QED BY <1>1, <1>2, <1>3, <1>4 DEF SignalNext

-----------------------------------------------------------------------------
(* SignalRouting: the relay.                                               *)

RelayTyped ==
  /\ link \in [Links -> Nat] /\ accepts \in Nat /\ gauge \in Nat
  /\ callbacks \in Seq([id : Nat, up : BOOLEAN])

Linked == {c \in Links : link[c] # 0}

\* Every connection has an id of its own and has been announced, and its end
\* has not.
LinksKnown ==
  /\ IsFiniteSet(Linked)
  /\ \A c \in Linked : link[c] <= accepts /\ \A d \in Linked : link[c] = link[d] => c = d
  /\ \A c \in Linked : \E k \in DOMAIN callbacks : callbacks[k].id = link[c] /\ callbacks[k].up
  /\ \A c \in Linked : \A k \in DOMAIN callbacks : callbacks[k].id = link[c] => callbacks[k].up
  /\ \A k \in DOMAIN callbacks : callbacks[k].id <= accepts

RelayInd == RelayTyped /\ LinksKnown /\ LinksCounted

LEMMA RelayBegins == RelayInit => RelayInd
<1> SUFFICES ASSUME RelayInit PROVE RelayInd
  OBVIOUS
<1>1. callbacks \in Seq([id : Nat, up : BOOLEAN]) /\ DOMAIN callbacks = {}
  BY DEF RelayInit
<1>2. Linked = {} /\ Linked = {c \in Links : link[c] # 0}
  BY DEF RelayInit, Linked
<1>3. RelayTyped
  BY <1>1 DEF RelayInit, RelayTyped
<1>4. gauge = Cardinality(Linked) /\ IsFiniteSet(Linked)
  BY <1>2, FS_EmptySet DEF RelayInit
<1>5. LinksCounted
  BY <1>1, <1>2, <1>4 DEF LinksCounted
<1> QED BY <1>1, <1>2, <1>3, <1>4, <1>5 DEF RelayInd, LinksKnown

\* A call of the callback is appended, about an id of which this was not said.
LEMMA CalledBack ==
  ASSUME RelayInd, NEW n \in Nat, NEW up \in BOOLEAN, callbacks' = Append(callbacks, [id |-> n, up |-> up]),
         \A k \in DOMAIN callbacks : callbacks[k].id = n => callbacks[k].up # up,
         ~up => \E k \in DOMAIN callbacks : callbacks[k].id = n /\ callbacks[k].up
  PROVE  /\ callbacks' \in Seq([id : Nat, up : BOOLEAN])
         /\ \A k \in DOMAIN callbacks : k \in DOMAIN callbacks' /\ callbacks'[k] = callbacks[k]
         /\ \E k \in DOMAIN callbacks' : callbacks'[k] = [id |-> n, up |-> up]
         /\ \A k \in DOMAIN callbacks' : k \in DOMAIN callbacks \/ callbacks'[k] = [id |-> n, up |-> up]
         /\ \A j \in DOMAIN callbacks' :
              /\ \A k \in DOMAIN callbacks' : callbacks'[j] = callbacks'[k] => j = k
              /\ ~callbacks'[j].up => \E k \in 1..(j - 1) : callbacks'[k].id = callbacks'[j].id /\ callbacks'[k].up
<1> DEFINE Calls == [id : Nat, up : BOOLEAN]
           new == [id |-> n, up |-> up]
           top == Len(callbacks) + 1
<1>1. callbacks \in Seq(Calls) /\ new \in Calls /\ callbacks' = Append(callbacks, new) /\ new.id = n /\ new.up = up
  BY DEF RelayInd, RelayTyped
<1> HIDE DEF Calls, new
<1>2. /\ callbacks' \in Seq(Calls) /\ top \in Nat \ {0} /\ DOMAIN callbacks = 1..(top - 1) /\ DOMAIN callbacks' = 1..top
      /\ callbacks'[top] = new /\ \A k \in DOMAIN callbacks : callbacks'[k] = callbacks[k] /\ callbacks[k] \in Calls
  BY <1>1
<1> HIDE DEF top
<1>3. \A k \in DOMAIN callbacks : callbacks[k] # new
  BY <1>1
<1>4. \A j \in DOMAIN callbacks :
        /\ \A k \in DOMAIN callbacks : callbacks[j] = callbacks[k] => j = k
        /\ ~callbacks[j].up => \E k \in 1..(j - 1) : callbacks[k].id = callbacks[j].id /\ callbacks[k].up
  BY DEF RelayInd, LinksCounted
<1>5. \A k \in DOMAIN callbacks' : k \in DOMAIN callbacks \/ k = top
  BY <1>2
<1>6. top \in DOMAIN callbacks' /\ \A k \in DOMAIN callbacks : k \in DOMAIN callbacks'
  BY <1>2
<1>7. ASSUME NEW j \in DOMAIN callbacks'
      PROVE  /\ \A k \in DOMAIN callbacks' : callbacks'[j] = callbacks'[k] => j = k
             /\ ~callbacks'[j].up => \E k \in 1..(j - 1) : callbacks'[k].id = callbacks'[j].id /\ callbacks'[k].up
  <2>1. \A k \in DOMAIN callbacks' : callbacks'[j] = callbacks'[k] => j = k
    BY <1>2, <1>3, <1>4, <1>5
  <2>2. ASSUME ~callbacks'[j].up
        PROVE  \E k \in 1..(j - 1) : callbacks'[k].id = callbacks'[j].id /\ callbacks'[k].up
    <3>1. CASE j = top
      <4>1. PICK k \in DOMAIN callbacks : callbacks[k].id = n /\ callbacks[k].up
        BY <1>1, <1>2, <2>2, <3>1
      <4> QED BY <1>1, <1>2, <3>1, <4>1
    <3>2. CASE j \in DOMAIN callbacks
      <4>1. PICK k \in 1..(j - 1) : callbacks[k].id = callbacks[j].id /\ callbacks[k].up
        BY <1>2, <1>4, <2>2, <3>2
      <4>2. k \in DOMAIN callbacks
        BY <1>2, <3>2
      <4> QED BY <1>2, <3>2, <4>1, <4>2
    <3> QED BY <1>5, <3>1, <3>2
  <2> QED BY <2>1, <2>2
<1> QED BY <1>2, <1>5, <1>6, <1>7 DEF Calls, new

LEMMA LinkAcceptedStep ==
  ASSUME RelayInd, NEW c \in Links, LinkAccepted(c)
  PROVE  RelayInd'
<1> DEFINE n == accepts + 1
           new == [id |-> n, up |-> TRUE]
<1>1. /\ link[c] = 0 /\ n \in Nat \ {0} /\ accepts' = n /\ gauge' = gauge + 1 /\ callbacks' = Append(callbacks, new)
      /\ link' = [link EXCEPT ![c] = n] /\ accepts \in Nat
  BY DEF LinkAccepted, RelayInd, RelayTyped
<1>2. /\ link' \in [Links -> Nat] /\ \A d \in Links : link'[d] = IF d = c THEN n ELSE link[d]
  BY <1>1 DEF RelayInd, RelayTyped
<1>3. \A k \in DOMAIN callbacks : callbacks[k].id <= accepts /\ callbacks[k].id \in Nat
  <2> DEFINE Calls == [id : Nat, up : BOOLEAN]
  <2>1. callbacks \in Seq(Calls)
    BY DEF RelayInd, RelayTyped
  <2> HIDE DEF Calls
  <2>2. \A k \in DOMAIN callbacks : callbacks[k] \in Calls
    BY <2>1
  <2> QED BY <2>2 DEF Calls, RelayInd, LinksKnown
<1>4. \A k \in DOMAIN callbacks : callbacks[k].id # n
  BY <1>1, <1>3
<1>5. /\ callbacks' \in Seq([id : Nat, up : BOOLEAN])
      /\ \A k \in DOMAIN callbacks : k \in DOMAIN callbacks' /\ callbacks'[k] = callbacks[k]
      /\ \E k \in DOMAIN callbacks' : callbacks'[k] = new
      /\ \A k \in DOMAIN callbacks' : k \in DOMAIN callbacks \/ callbacks'[k] = new
      /\ \A j \in DOMAIN callbacks' :
           /\ \A k \in DOMAIN callbacks' : callbacks'[j] = callbacks'[k] => j = k
           /\ ~callbacks'[j].up => \E k \in 1..(j - 1) : callbacks'[k].id = callbacks'[j].id /\ callbacks'[k].up
  <2>1. /\ \A k \in DOMAIN callbacks : callbacks[k].id = n => callbacks[k].up # TRUE
        /\ ~TRUE => \E k \in DOMAIN callbacks : callbacks[k].id = n /\ callbacks[k].up
        /\ TRUE \in BOOLEAN /\ n \in Nat
    BY <1>1, <1>4
  <2> HIDE DEF n
  <2> QED BY <1>1, <2>1, CalledBack DEF new
<1>6. new.id = n /\ new.up
  OBVIOUS
<1> HIDE DEF n, new
<1>7. Linked' = Linked \cup {c} /\ c \notin Linked
  BY <1>1, <1>2 DEF Linked
<1>8. IsFiniteSet(Linked) /\ gauge = Cardinality(Linked)
  BY DEF RelayInd, LinksKnown, LinksCounted, Linked
<1>9. IsFiniteSet(Linked') /\ gauge' = Cardinality(Linked')
  BY <1>1, <1>7, <1>8, FS_AddElement
<1>10. RelayTyped'
  BY <1>1, <1>2, <1>5 DEF RelayInd, RelayTyped
<1>11. \A d \in Linked : /\ link'[d] = link[d] /\ link[d] \in Nat /\ link[d] <= accepts
                         /\ \A e \in Linked : link[d] = link[e] => d = e
  BY <1>1, <1>2 DEF RelayInd, RelayTyped, LinksKnown, Linked
<1>12. \A d \in Linked' : link'[d] <= accepts' /\ \A e \in Linked' : link'[d] = link'[e] => d = e
  <2>1. \A d \in Linked : link[d] # n /\ link[d] <= n
    BY <1>1, <1>11 DEF n
  <2>2. link'[c] = n /\ n <= n
    BY <1>1, <1>2
  <2> QED BY <1>1, <1>7, <1>11, <2>1, <2>2
<1>13. \A d \in Linked' : \E k \in DOMAIN callbacks' : callbacks'[k].id = link'[d] /\ callbacks'[k].up
  <2>1. \A d \in Linked : \E k \in DOMAIN callbacks : callbacks[k].id = link[d] /\ callbacks[k].up
    BY DEF RelayInd, LinksKnown
  <2>2. link'[c] = n
    BY <1>2
  <2> QED BY <1>5, <1>6, <1>7, <1>11, <2>1, <2>2
<1>14. \A d \in Linked' : \A k \in DOMAIN callbacks' : callbacks'[k].id = link'[d] => callbacks'[k].up
  <2>1. \A d \in Linked : \A k \in DOMAIN callbacks : callbacks[k].id = link[d] => callbacks[k].up
    BY DEF RelayInd, LinksKnown
  <2>2. link'[c] = n
    BY <1>2
  <2> QED BY <1>4, <1>5, <1>6, <1>7, <1>11, <2>1, <2>2
<1>15. \A k \in DOMAIN callbacks' : callbacks'[k].id <= accepts'
  <2>1. \A k \in DOMAIN callbacks : callbacks[k].id <= n
    BY <1>1, <1>3 DEF n
  <2>2. n <= n
    BY <1>1
  <2> QED BY <1>1, <1>5, <1>6, <2>1, <2>2
<1>16. LinksKnown'
  BY <1>9, <1>12, <1>13, <1>14, <1>15 DEF LinksKnown
<1>17. LinksCounted'
  BY <1>5, <1>9 DEF LinksCounted, Linked
<1> QED BY <1>10, <1>16, <1>17 DEF RelayInd

LEMMA LinkEndsStep ==
  ASSUME RelayInd, NEW c \in Links, LinkEnds(c)
  PROVE  RelayInd'
<1> DEFINE n == link[c]
           new == [id |-> n, up |-> FALSE]
<1>1. /\ n # 0 /\ n \in Nat /\ accepts' = accepts /\ gauge' = gauge - 1 /\ callbacks' = Append(callbacks, new)
      /\ link' = [link EXCEPT ![c] = 0] /\ accepts \in Nat
  BY DEF LinkEnds, RelayInd, RelayTyped
<1>2. link' \in [Links -> Nat] /\ \A d \in Links : link'[d] = IF d = c THEN 0 ELSE link[d]
  BY <1>1 DEF RelayInd, RelayTyped
<1>3. c \in Linked /\ Linked' = Linked \ {c}
  BY <1>1, <1>2 DEF Linked
<1>4. /\ \A k \in DOMAIN callbacks : callbacks[k].id = n => callbacks[k].up
      /\ \E k \in DOMAIN callbacks : callbacks[k].id = n /\ callbacks[k].up
      /\ n <= accepts
  BY <1>3 DEF RelayInd, LinksKnown
<1>5. /\ callbacks' \in Seq([id : Nat, up : BOOLEAN])
      /\ \A k \in DOMAIN callbacks : k \in DOMAIN callbacks' /\ callbacks'[k] = callbacks[k]
      /\ \A k \in DOMAIN callbacks' : k \in DOMAIN callbacks \/ callbacks'[k] = new
      /\ \A j \in DOMAIN callbacks' :
           /\ \A k \in DOMAIN callbacks' : callbacks'[j] = callbacks'[k] => j = k
           /\ ~callbacks'[j].up => \E k \in 1..(j - 1) : callbacks'[k].id = callbacks'[j].id /\ callbacks'[k].up
  BY <1>1, <1>4, CalledBack
<1>6. new.id = n
  OBVIOUS
<1> HIDE DEF n, new
<1>7. IsFiniteSet(Linked) /\ gauge = Cardinality(Linked)
  BY DEF RelayInd, LinksKnown, LinksCounted, Linked
<1>8. IsFiniteSet(Linked') /\ gauge' = Cardinality(Linked')
  BY <1>1, <1>3, <1>7, FS_RemoveElement
<1>9. RelayTyped'
  <2>1. gauge' \in Nat
    BY <1>8, FS_CardinalityType
  <2> QED BY <1>1, <1>2, <1>5, <2>1 DEF RelayTyped
<1>10. \A d \in Linked' : /\ d \in Linked /\ d # c /\ link'[d] = link[d] /\ link[d] <= accepts
                          /\ \A e \in Linked : link[d] = link[e] => d = e
  BY <1>2, <1>3 DEF RelayInd, LinksKnown, Linked
<1>11. \A d \in Linked' : link[d] # n
  BY <1>3, <1>10 DEF n
<1>12. \A d \in Linked' : link'[d] <= accepts' /\ \A e \in Linked' : link'[d] = link'[e] => d = e
  BY <1>1, <1>10
<1>13. \A d \in Linked' : \E k \in DOMAIN callbacks' : callbacks'[k].id = link'[d] /\ callbacks'[k].up
  BY <1>5, <1>10 DEF RelayInd, LinksKnown
<1>14. \A d \in Linked' : \A k \in DOMAIN callbacks' : callbacks'[k].id = link'[d] => callbacks'[k].up
  <2>1. \A d \in Linked : \A k \in DOMAIN callbacks : callbacks[k].id = link[d] => callbacks[k].up
    BY DEF RelayInd, LinksKnown
  <2> SUFFICES ASSUME NEW d \in Linked', NEW k \in DOMAIN callbacks', callbacks'[k].id = link'[d]
               PROVE  callbacks'[k].up
    OBVIOUS
  <2>2. callbacks'[k] # new
    BY <1>6, <1>10, <1>11
  <2> QED BY <1>5, <1>10, <2>1, <2>2
<1>15. \A k \in DOMAIN callbacks' : callbacks'[k].id <= accepts'
  BY <1>1, <1>4, <1>5, <1>6 DEF RelayInd, LinksKnown
<1>16. LinksKnown'
  BY <1>8, <1>12, <1>13, <1>14, <1>15 DEF LinksKnown
<1>17. LinksCounted'
  BY <1>5, <1>8 DEF LinksCounted, Linked
<1> QED BY <1>9, <1>16, <1>17 DEF RelayInd

LEMMA RelayProceeds == RelayInd /\ [RelayNext]_relayed => RelayInd'
<1> SUFFICES ASSUME RelayInd, [RelayNext]_relayed PROVE RelayInd'
  OBVIOUS
<1>1. CASE UNCHANGED relayed
  <2>1. UNCHANGED <<link, accepts, gauge, callbacks>>
    BY <1>1 DEF relayed
  <2> QED BY <2>1 DEF RelayInd, RelayTyped, LinksKnown, LinksCounted, Linked
<1>2. ASSUME NEW c \in Links, LinkRefused(c)
      PROVE  RelayInd'
  <2>1. accepts' = accepts + 1 /\ UNCHANGED <<link, gauge, callbacks>> /\ accepts \in Nat
    BY <1>2 DEF LinkRefused, RelayInd, RelayTyped
  <2>2. RelayTyped' /\ LinksCounted' /\ Linked' = Linked
    BY <2>1 DEF RelayInd, RelayTyped, LinksCounted, Linked
  <2>3. /\ \A d \in Linked : link[d] \in Nat
        /\ \A k \in DOMAIN callbacks : callbacks[k].id \in Nat
    <3> DEFINE Calls == [id : Nat, up : BOOLEAN]
    <3>1. callbacks \in Seq(Calls) /\ \A d \in Linked : link[d] \in Nat
      BY DEF RelayInd, RelayTyped, Linked
    <3> HIDE DEF Calls
    <3>2. \A k \in DOMAIN callbacks : callbacks[k] \in Calls
      BY <3>1
    <3> QED BY <3>1, <3>2 DEF Calls
  <2>4. LinksKnown'
    BY <2>1, <2>2, <2>3 DEF RelayInd, LinksKnown
  <2> QED BY <2>2, <2>4 DEF RelayInd
<1> QED BY <1>1, <1>2, LinkAcceptedStep, LinkEndsStep DEF RelayNext, relayed

LEMMA RoutingIsRight == SignalInd /\ RelayInd => RoutingInv
<1> SUFFICES ASSUME SignalInd, RelayInd PROVE RoutingInv
  OBVIOUS
<1>1. FarewellsTold
  BY DEF SignalInd, FarewellsOwed, FarewellsTold, Told
<1> QED BY <1>1 DEF SignalInd, RelayInd, RoutingInv

-----------------------------------------------------------------------------
(* FilterTap: sums over the taps.                                          *)

LEMMA CountUp ==
  ASSUME NEW S, 0 \in S, \A n \in Nat : n \in S => n + 1 \in S
  PROVE  \A n \in Nat : n \in S
<1> SUFFICES ASSUME NEW n \in Nat, n \notin S PROVE FALSE
  OBVIOUS
<1> DEFINE B == {k \in 0..n : k \notin S}
           pred == [k \in B |-> k - 1]
<1>1. \A k \in B : k - 1 \in B
  <2> SUFFICES ASSUME NEW k \in B PROVE k - 1 \in B
    OBVIOUS
  <2>1. k \in Nat /\ k # 0 /\ k <= n /\ k \notin S
    OBVIOUS
  <2>2. k - 1 \in 0..n /\ (k - 1) + 1 = k
    BY <2>1
  <2> QED BY <2>1, <2>2
<1>2. IsFiniteSet(B)
  <2>1. IsFiniteSet(0..n)
    BY FS_Interval
  <2>2. B \in SUBSET (0..n)
    OBVIOUS
  <2> QED BY <2>1, <2>2, FS_Subset
<1>3. n \in B /\ \A k \in B : k \in Int /\ k - 1 # n
  OBVIOUS
<1> HIDE DEF B
<1>4. pred \in Injection(B, B)
  BY <1>1, <1>3 DEF Injection, IsInjective
<1>5. pred \in Surjection(B, B)
  BY <1>2, <1>4, FS_Injection
<1> QED BY <1>3, <1>5 DEF Surjection

One(S) == CHOOSE t \in S : TRUE
TapSets(k) == {S \in SUBSET Taps : Cardinality(S) <= k}

LEMMA TakeOne ==
  ASSUME NEW S \in SUBSET Taps, S # {}
  PROVE  /\ One(S) \in S /\ S \ {One(S)} \in SUBSET Taps
         /\ \A k \in Nat : S \in TapSets(k + 1) => S \ {One(S)} \in TapSets(k)
<1>1. One(S) \in S
  BY DEF One
<1>2. IsFiniteSet(S)
  BY FilterAssumption, FS_Subset
<1>3. Cardinality(S \ {One(S)}) = Cardinality(S) - 1 /\ Cardinality(S) \in Nat
  BY <1>1, <1>2, FS_RemoveElement, FS_CardinalityType
<1> QED BY <1>1, <1>3 DEF TapSets

LEMMA PartsOfTaps ==
  /\ TapSets(0) = {{}} /\ Cardinality(Taps) \in Nat /\ TapSets(Cardinality(Taps)) = SUBSET Taps
  /\ \A k \in Nat : {} \in TapSets(k)
<1>1. \A S \in SUBSET Taps : IsFiniteSet(S) /\ Cardinality(S) \in Nat /\ Cardinality(S) <= Cardinality(Taps)
  BY FilterAssumption, FS_Subset, FS_CardinalityType
<1>2. \A S \in SUBSET Taps : Cardinality(S) = 0 <=> S = {}
  BY <1>1, FS_EmptySet
<1>3. Cardinality(Taps) \in Nat /\ {} \in SUBSET Taps
  BY <1>1
<1> QED BY <1>1, <1>2, <1>3 DEF TapSets

\* What holds of no taps, and of taps if it holds without one of them, holds
\* of all.
LEMMA TapByTap ==
  ASSUME NEW Q, {} \in Q, \A S \in SUBSET Taps : S # {} /\ S \ {One(S)} \in Q => S \in Q
  PROVE  \A S \in SUBSET Taps : S \in Q
<1> DEFINE P == {k \in Nat : TapSets(k) \subseteq Q}
<1>1. 0 \in P
  BY PartsOfTaps
<1>2. ASSUME NEW k \in Nat, k \in P
      PROVE  k + 1 \in P
  <2>1. ASSUME NEW S \in TapSets(k + 1)
        PROVE  S \in Q
    <3>1. CASE S = {}
      BY <3>1
    <3>2. CASE S # {}
      BY <1>2, <2>1, <3>2, TakeOne DEF TapSets
    <3> QED BY <3>1, <3>2
  <2> QED BY <2>1
<1>3. \A k \in Nat : k \in P
  <2> HIDE DEF P
  <2> QED BY <1>1, <1>2, CountUp
<1> QED BY <1>3, PartsOfTaps

\* The sum is one entry and the sum of the others.
LEMMA Sums ==
  ASSUME NEW c \in [Taps -> Nat]
  PROVE  \E h : /\ Total(c) = h[Taps] /\ h[{}] = 0
                /\ \A S \in SUBSET Taps : h[S] \in Nat /\ (S # {} => h[S] = c[One(S)] + h[S \ {One(S)}])
<1> DEFINE added(h, S) == IF S = {} THEN 0 ELSE c[One(S)] + h[S \ {One(S)}]
           Good(h, k) == h = [S \in TapSets(k) |-> h[S]] /\ \A S \in TapSets(k) : h[S] = added(h, S)
           P == {k \in Nat : \E h : Good(h, k)}
           sum == CHOOSE h : h = [S \in SUBSET Taps |-> added(h, S)]
<1>1. 0 \in P
  <2> DEFINE h == [S \in TapSets(0) |-> 0]
  <2>1. Good(h, 0)
    BY PartsOfTaps
  <2> QED BY <2>1
<1>2. ASSUME NEW k \in Nat, k \in P
      PROVE  k + 1 \in P
  <2>1. PICK h : Good(h, k)
    BY <1>2
  <2> DEFINE g == [S \in TapSets(k + 1) |-> added(h, S)]
  <2>2. \A S \in TapSets(k) : S \in TapSets(k + 1)
    <3>1. \A S \in SUBSET Taps : Cardinality(S) \in Nat
      BY FilterAssumption, FS_Subset, FS_CardinalityType
    <3> QED BY <3>1 DEF TapSets
  <2>3. \A S \in TapSets(k) : g[S] = h[S]
    BY <2>1, <2>2
  <2>4. ASSUME NEW S \in TapSets(k + 1)
        PROVE  g[S] = added(g, S)
    <3>1. CASE S = {}
      BY <3>1
    <3>2. CASE S # {}
      <4>1. S \ {One(S)} \in TapSets(k)
        BY <2>4, <3>2, TakeOne DEF TapSets
      <4>2. g[S \ {One(S)}] = h[S \ {One(S)}]
        BY <2>3, <4>1
      <4>3. g[S] = added(h, S)
        OBVIOUS
      <4> HIDE DEF g
      <4> QED BY <3>2, <4>2, <4>3
    <3> QED BY <3>1, <3>2
  <2>5. g = [S \in TapSets(k + 1) |-> g[S]]
    OBVIOUS
  <2> HIDE DEF g
  <2>6. Good(g, k + 1)
    BY <2>4, <2>5
  <2>7. \E h2 : Good(h2, k + 1)
    <3> HIDE DEF Good
    <3> QED BY <2>6
  <2>8. k + 1 \in Nat
    BY <1>2
  <2> HIDE DEF Good
  <2> QED BY <2>7, <2>8
<1>3. Cardinality(Taps) \in P
  <2> HIDE DEF P
  <2>1. \A k \in Nat : k \in P
    BY <1>1, <1>2, CountUp
  <2> QED BY <2>1, PartsOfTaps
<1>4. PICK h : Good(h, Cardinality(Taps))
  BY <1>3
<1>5. h = [S \in SUBSET Taps |-> added(h, S)]
  <2>1. h = [S \in SUBSET Taps |-> h[S]] /\ \A S \in SUBSET Taps : h[S] = added(h, S)
    BY <1>4, PartsOfTaps
  <2> QED BY <2>1
<1>6. sum = [S \in SUBSET Taps |-> added(sum, S)]
  BY <1>5
<1>7. Total(c) = sum[Taps]
  BY DEF Total, One
<1> HIDE DEF sum
<1>8. \A S \in SUBSET Taps : sum[S] = added(sum, S)
  BY <1>6
<1>9. sum[{}] = 0 /\ \A S \in SUBSET Taps : S # {} => sum[S] = c[One(S)] + sum[S \ {One(S)}]
  BY <1>8
<1>10. \A S \in SUBSET Taps : sum[S] \in Nat
  <2> DEFINE Q == {S \in SUBSET Taps : sum[S] \in Nat}
  <2>1. {} \in Q
    BY <1>9
  <2>2. ASSUME NEW S \in SUBSET Taps, S # {}, S \ {One(S)} \in Q
        PROVE  S \in Q
    <3>1. One(S) \in Taps /\ c[One(S)] \in Nat /\ sum[S] = c[One(S)] + sum[S \ {One(S)}]
      BY <1>9, <2>2, TakeOne
    <3> QED BY <2>2, <3>1
  <2>3. \A S \in SUBSET Taps : S \in Q
    <3> HIDE DEF Q
    <3> QED BY <2>1, <2>2, TapByTap
  <2> QED BY <2>3
<1> QED BY <1>7, <1>9, <1>10

\* One entry changes: the sum changes with it.
LEMMA TotalChanges ==
  ASSUME NEW c \in [Taps -> Nat], NEW d \in [Taps -> Nat], NEW t \in Taps,
         \A u \in Taps \ {t} : c[u] = d[u]
  PROVE  Total(c) + d[t] = Total(d) + c[t] /\ Total(c) \in Nat /\ Total(d) \in Nat
<1>1. PICK h : /\ Total(c) = h[Taps] /\ h[{}] = 0
               /\ \A S \in SUBSET Taps : h[S] \in Nat /\ (S # {} => h[S] = c[One(S)] + h[S \ {One(S)}])
  BY Sums
<1>2. PICK g : /\ Total(d) = g[Taps] /\ g[{}] = 0
               /\ \A S \in SUBSET Taps : g[S] \in Nat /\ (S # {} => g[S] = d[One(S)] + g[S \ {One(S)}])
  BY Sums
<1> DEFINE Q == {S \in SUBSET Taps : IF t \in S THEN h[S] + d[t] = g[S] + c[t] ELSE h[S] = g[S]}
<1>3. {} \in Q
  BY <1>1, <1>2
<1>4. ASSUME NEW S \in SUBSET Taps, S # {}, S \ {One(S)} \in Q
      PROVE  S \in Q
  <2> DEFINE u == One(S)
             R == S \ {u}
  <2>1. u \in S /\ u \in Taps /\ R \in SUBSET Taps
    BY <1>4, TakeOne
  <2>2. /\ h[S] = c[u] + h[R] /\ g[S] = d[u] + g[R]
        /\ h[S] \in Nat /\ g[S] \in Nat /\ h[R] \in Nat /\ g[R] \in Nat
        /\ c[u] \in Nat /\ d[u] \in Nat /\ c[t] \in Nat /\ d[t] \in Nat
    BY <1>1, <1>2, <1>4, <2>1
  <2>3. IF t \in R THEN h[R] + d[t] = g[R] + c[t] ELSE h[R] = g[R]
    BY <1>4
  <2>4. CASE u = t
    <3>1. h[R] = g[R]
      BY <2>3, <2>4
    <3> HIDE DEF u, R
    <3> QED BY <2>1, <2>2, <2>4, <3>1
  <2>5. CASE u # t
    <3>1. c[u] = d[u] /\ (t \in R <=> t \in S)
      BY <2>1, <2>5
    <3> HIDE DEF u, R
    <3> QED BY <2>2, <2>3, <3>1
  <2> QED BY <2>4, <2>5
<1>5. Taps \in Q
  <2> HIDE DEF Q
  <2> QED BY <1>3, <1>4, TapByTap
<1> QED BY <1>1, <1>2, <1>5

LEMMA TotalOrder ==
  ASSUME NEW c \in [Taps -> Nat], NEW d \in [Taps -> Nat], \A u \in Taps : c[u] <= d[u]
  PROVE  Total(c) <= Total(d)
<1>1. PICK h : /\ Total(c) = h[Taps] /\ h[{}] = 0
               /\ \A S \in SUBSET Taps : h[S] \in Nat /\ (S # {} => h[S] = c[One(S)] + h[S \ {One(S)}])
  BY Sums
<1>2. PICK g : /\ Total(d) = g[Taps] /\ g[{}] = 0
               /\ \A S \in SUBSET Taps : g[S] \in Nat /\ (S # {} => g[S] = d[One(S)] + g[S \ {One(S)}])
  BY Sums
<1> DEFINE Q == {S \in SUBSET Taps : h[S] <= g[S]}
<1>3. {} \in Q
  BY <1>1, <1>2
<1>4. ASSUME NEW S \in SUBSET Taps, S # {}, S \ {One(S)} \in Q
      PROVE  S \in Q
  <2> DEFINE u == One(S)
             R == S \ {u}
  <2>1. u \in Taps /\ R \in SUBSET Taps
    BY <1>4, TakeOne
  <2>2. /\ h[S] = c[u] + h[R] /\ g[S] = d[u] + g[R] /\ h[R] \in Nat /\ g[R] \in Nat
        /\ c[u] \in Nat /\ d[u] \in Nat /\ c[u] <= d[u] /\ h[R] <= g[R]
    BY <1>1, <1>2, <1>4, <2>1
  <2> HIDE DEF u, R
  <2> QED BY <2>2
<1>5. Taps \in Q
  <2> HIDE DEF Q
  <2> QED BY <1>3, <1>4, TapByTap
<1> QED BY <1>1, <1>2, <1>5

LEMMA TotalNone ==
  ASSUME NEW c \in [Taps -> Nat], \A u \in Taps : c[u] = 0
  PROVE  Total(c) = 0
<1>1. PICK h : /\ Total(c) = h[Taps] /\ h[{}] = 0
               /\ \A S \in SUBSET Taps : h[S] \in Nat /\ (S # {} => h[S] = c[One(S)] + h[S \ {One(S)}])
  BY Sums
<1> DEFINE Q == {S \in SUBSET Taps : h[S] = 0}
<1>2. {} \in Q
  BY <1>1
<1>3. ASSUME NEW S \in SUBSET Taps, S # {}, S \ {One(S)} \in Q
      PROVE  S \in Q
  <2>1. One(S) \in Taps /\ h[S] = c[One(S)] + h[S \ {One(S)}] /\ c[One(S)] = 0
    BY <1>1, <1>3, TakeOne
  <2> QED BY <1>3, <2>1
<1>4. Taps \in Q
  <2> HIDE DEF Q
  <2> QED BY <1>2, <1>3, TapByTap
<1> QED BY <1>1, <1>4

-----------------------------------------------------------------------------
(* FilterTap: the reloader and the counters.                               *)

Modules == [version : Nat, does : {"pass", "drop", "long", "broken", "partial", "trap"}]
SlotRecs == [module : Modules, seen : Nat, kept : Nat, dropped : Nat]
TapRecs == [at : 0..4, keeps : BOOLEAN, taken : Nat, seen : Nat, kept : Nat, dropped : Nat]

ReloaderTyped ==
  /\ disk \in Modules /\ bytes \in Modules /\ fileEvents \in Seq(BOOLEAN)
  /\ watching \in BOOLEAN /\ signalled \in BOOLEAN
  /\ reloader \in {"check", "recv", "debounce", "load", "compile", "gone"}
  /\ dropping \in {"no", "unwatch", "join", "done"}

News(events) == \E i \in DOMAIN events : events[i]

\* As long as the file is watched, the chain runs it, or it is about to be read,
\* or the news of it is in the channel.
FileFollowed ==
  watching /\ ~News(fileEvents) =>
    /\ reloader \in {"check", "recv"} /\ Compiles(disk) => slots[1].module = disk
    /\ reloader = "compile" => bytes = disk

ReloaderInd ==
  /\ ReloaderTyped /\ FileFollowed /\ Compiles(slots[1].module)
  /\ dropping \in {"join", "done"} => ~watching

\* What has happened to the fragment that a tap is at, and it has not counted.
Coming(tap) == IF tap.at \in {1, 2, 3} THEN 1 ELSE 0
Passed(tap) == IF tap.at \in {3, 4} /\ tap.keeps THEN 1 ELSE 0
Refused(tap) == IF tap.at \in {3, 4} /\ ~tap.keeps THEN 1 ELSE 0

SeenBy(ts) == [t \in Taps |-> ts[t].seen + Coming(ts[t])]
KeptBy(ts) == [t \in Taps |-> ts[t].kept + Passed(ts[t])]
DroppedBy(ts) == [t \in Taps |-> ts[t].dropped + Refused(ts[t])]

CountersTyped == slots \in Seq(SlotRecs) /\ Len(slots) = 2 /\ taps \in [Taps -> TapRecs]

\* The slots have counted what the taps have counted and are about to count.
CountersInd ==
  /\ CountersTyped /\ slots[2].seen = slots[1].kept
  /\ \A t \in Taps : taps[t].kept + taps[t].dropped + (IF taps[t].at = 4 THEN 1 ELSE 0) = taps[t].seen
  /\ Total(SeenBy(taps)) = slots[1].seen /\ Total(KeptBy(taps)) = slots[2].kept
  /\ Total(DroppedBy(taps)) = slots[1].dropped + slots[2].dropped

FilterInd == ReloaderInd /\ CountersInd

LEMMA FilterFresh ==
  ASSUME disk = Module(0, "pass"), fileEvents = <<>>, watching = TRUE, signalled = FALSE, reloader = "check",
         bytes = disk, dropping = "no", taps = [t \in Taps |-> NoTap],
         slots = <<NoCounts(Module(0, "pass")), NoCounts(Module(0, "trap"))>>
  PROVE  FilterInd
<1>1. /\ slots[1] = NoCounts(Module(0, "pass")) /\ slots[2] = NoCounts(Module(0, "trap")) /\ Len(slots) = 2
  OBVIOUS
<1>2. Module(0, "pass") \in Modules /\ Module(0, "trap") \in Modules
  BY DEF Module, Modules
<1>3. NoCounts(Module(0, "pass")) \in SlotRecs /\ NoCounts(Module(0, "trap")) \in SlotRecs
  BY <1>2 DEF NoCounts, SlotRecs
<1>4. slots \in Seq(SlotRecs)
  BY <1>3
<1>5. NoTap \in TapRecs
  BY DEF NoTap, TapRecs
<1>6. CountersTyped
  BY <1>1, <1>4, <1>5 DEF CountersTyped
<1>7. /\ slots[1].seen = 0 /\ slots[1].kept = 0 /\ slots[1].dropped = 0 /\ slots[1].module = Module(0, "pass")
      /\ slots[2].seen = 0 /\ slots[2].kept = 0 /\ slots[2].dropped = 0
  BY <1>1 DEF NoCounts
<1>8. ReloaderInd
  <2>1. fileEvents \in Seq(BOOLEAN) /\ ~News(fileEvents)
    BY DEF News
  <2>2. Compiles(slots[1].module)
    BY <1>7 DEF Module, Compiles
  <2> QED BY <1>2, <1>7, <2>1, <2>2 DEF ReloaderInd, ReloaderTyped, FileFollowed
<1>9. \A t \in Taps : taps[t].at = 0 /\ taps[t].seen = 0 /\ taps[t].kept = 0 /\ taps[t].dropped = 0
  BY DEF NoTap
<1>10. Total(SeenBy(taps)) = 0 /\ Total(KeptBy(taps)) = 0 /\ Total(DroppedBy(taps)) = 0
  <2>1. /\ SeenBy(taps) \in [Taps -> Nat] /\ KeptBy(taps) \in [Taps -> Nat] /\ DroppedBy(taps) \in [Taps -> Nat]
        /\ \A t \in Taps : SeenBy(taps)[t] = 0 /\ KeptBy(taps)[t] = 0 /\ DroppedBy(taps)[t] = 0
    BY <1>9 DEF SeenBy, KeptBy, DroppedBy, Coming, Passed, Refused
  <2> QED BY <2>1, TotalNone
<1> QED BY <1>6, <1>7, <1>8, <1>9, <1>10 DEF FilterInd, CountersInd

LEMMA FilterBegins == FilterInit => FilterInd
BY FilterFresh DEF FilterInit

LEMMA PairOf ==
  ASSUME NEW S, NEW s \in Seq(S), Len(s) = 2
  PROVE  DOMAIN s = {1, 2} /\ s[1] \in S /\ s[2] \in S
<1>1. DOMAIN s = 1..2
  OBVIOUS
<1>2. s[1] \in S /\ s[2] \in S
  <2>1. \A i \in 1..Len(s) : s[i] \in S
    OBVIOUS
  <2>2. 1 \in 1..Len(s) /\ 2 \in 1..Len(s)
    OBVIOUS
  <2> QED BY <2>1, <2>2
<1> QED BY <1>1, <1>2

LEMMA InBalance ==
  ASSUME NEW a \in Nat, NEW nb \in Nat, NEW m \in Nat, NEW n \in Nat, NEW s \in Nat,
         a + n = nb + m, s + m = a + n
  PROVE  nb = s
OBVIOUS

LEMMA TapTyped ==
  ASSUME NEW tap \in TapRecs
  PROVE  /\ tap.at \in 0..4 /\ tap.keeps \in BOOLEAN
         /\ tap.taken \in Nat /\ tap.seen \in Nat /\ tap.kept \in Nat /\ tap.dropped \in Nat
         /\ Coming(tap) \in {0, 1} /\ Passed(tap) \in {0, 1} /\ Refused(tap) \in {0, 1}
         /\ tap.seen + Coming(tap) \in Nat /\ tap.kept + Passed(tap) \in Nat /\ tap.dropped + Refused(tap) \in Nat
<1>1. /\ tap.at \in 0..4 /\ tap.keeps \in BOOLEAN
      /\ tap.taken \in Nat /\ tap.seen \in Nat /\ tap.kept \in Nat /\ tap.dropped \in Nat
  BY DEF TapRecs
<1>2. Coming(tap) \in {0, 1}
  BY DEF Coming
<1>3. Passed(tap) \in {0, 1}
  BY DEF Passed
<1>4. Refused(tap) \in {0, 1}
  BY DEF Refused
<1> DEFINE c == Coming(tap)
           p == Passed(tap)
           r == Refused(tap)
           x == tap.seen
           y == tap.kept
           z == tap.dropped
<1>5. x + c \in Nat /\ y + p \in Nat /\ z + r \in Nat
  <2>1. c \in {0, 1} /\ p \in {0, 1} /\ r \in {0, 1} /\ x \in Nat /\ y \in Nat /\ z \in Nat
    BY <1>1, <1>2, <1>3, <1>4
  <2> HIDE DEF c, p, r, x, y, z
  <2> QED BY <2>1
<1> QED BY <1>1, <1>2, <1>3, <1>4, <1>5

LEMMA Counters ==
  ASSUME CountersTyped
  PROVE  /\ SeenBy(taps) \in [Taps -> Nat] /\ KeptBy(taps) \in [Taps -> Nat] /\ DroppedBy(taps) \in [Taps -> Nat]
         /\ DOMAIN slots = {1, 2} /\ slots[1] \in SlotRecs /\ slots[2] \in SlotRecs
         /\ \A t \in Taps : taps[t] \in TapRecs
<1>1. \A t \in Taps : taps[t] \in TapRecs
  BY DEF CountersTyped
<1>2. \A t \in Taps : /\ taps[t].seen + Coming(taps[t]) \in Nat /\ taps[t].kept + Passed(taps[t]) \in Nat
                      /\ taps[t].dropped + Refused(taps[t]) \in Nat
  BY <1>1, TapTyped
<1>3. DOMAIN slots = {1, 2} /\ slots[1] \in SlotRecs /\ slots[2] \in SlotRecs
  <2>1. slots \in Seq(SlotRecs) /\ Len(slots) = 2
    BY DEF CountersTyped
  <2> QED BY <2>1, PairOf
<1> QED BY <1>1, <1>2, <1>3 DEF SeenBy, KeptBy, DroppedBy

\* The counters of the slots and the taps stay as they are.
LEMMA CountersKept ==
  ASSUME CountersInd, taps' = taps, slots' \in Seq(SlotRecs), Len(slots') = 2,
         \A i \in {1, 2} : /\ slots'[i].seen = slots[i].seen /\ slots'[i].kept = slots[i].kept
                           /\ slots'[i].dropped = slots[i].dropped
  PROVE  CountersInd'
BY DEF CountersInd, CountersTyped

\* One tap moves, and the slots count what becomes of its fragment.
LEMMA OneTap ==
  ASSUME CountersInd, NEW t \in Taps, NEW tap \in TapRecs, taps' = [taps EXCEPT ![t] = tap],
         slots' \in Seq(SlotRecs), Len(slots') = 2, slots'[2].seen = slots'[1].kept,
         tap.kept + tap.dropped + (IF tap.at = 4 THEN 1 ELSE 0) = tap.seen,
         slots'[1].seen + (taps[t].seen + Coming(taps[t])) = slots[1].seen + (tap.seen + Coming(tap)),
         slots'[2].kept + (taps[t].kept + Passed(taps[t])) = slots[2].kept + (tap.kept + Passed(tap)),
         (slots'[1].dropped + slots'[2].dropped) + (taps[t].dropped + Refused(taps[t]))
           = (slots[1].dropped + slots[2].dropped) + (tap.dropped + Refused(tap))
  PROVE  CountersInd'
<1>0. CountersTyped
  BY DEF CountersInd
<1>1. CountersTyped' /\ \A u \in Taps : taps'[u] = IF u = t THEN tap ELSE taps[u]
  BY <1>0 DEF CountersTyped
<1>2. /\ SeenBy(taps) \in [Taps -> Nat] /\ KeptBy(taps) \in [Taps -> Nat] /\ DroppedBy(taps) \in [Taps -> Nat]
      /\ slots[1] \in SlotRecs /\ slots[2] \in SlotRecs
  BY <1>0, Counters
<1>3. SeenBy(taps') \in [Taps -> Nat] /\ KeptBy(taps') \in [Taps -> Nat] /\ DroppedBy(taps') \in [Taps -> Nat]
      /\ slots'[1] \in SlotRecs /\ slots'[2] \in SlotRecs
  <2>1. \A u \in Taps : taps'[u] \in TapRecs
    BY <1>1 DEF CountersTyped
  <2>2. \A u \in Taps : /\ taps'[u].seen + Coming(taps'[u]) \in Nat /\ taps'[u].kept + Passed(taps'[u]) \in Nat
                        /\ taps'[u].dropped + Refused(taps'[u]) \in Nat
    BY <2>1, TapTyped
  <2>3. slots'[1] \in SlotRecs /\ slots'[2] \in SlotRecs
    BY PairOf
  <2> QED BY <2>2, <2>3 DEF SeenBy, KeptBy, DroppedBy
<1>4. /\ \A u \in Taps \ {t} : /\ SeenBy(taps)[u] = SeenBy(taps')[u] /\ KeptBy(taps)[u] = KeptBy(taps')[u]
                               /\ DroppedBy(taps)[u] = DroppedBy(taps')[u]
      /\ SeenBy(taps)[t] = taps[t].seen + Coming(taps[t]) /\ SeenBy(taps')[t] = tap.seen + Coming(tap)
      /\ KeptBy(taps)[t] = taps[t].kept + Passed(taps[t]) /\ KeptBy(taps')[t] = tap.kept + Passed(tap)
      /\ DroppedBy(taps)[t] = taps[t].dropped + Refused(taps[t]) /\ DroppedBy(taps')[t] = tap.dropped + Refused(tap)
  BY <1>1 DEF SeenBy, KeptBy, DroppedBy
<1>5. /\ Total(SeenBy(taps)) + SeenBy(taps')[t] = Total(SeenBy(taps')) + SeenBy(taps)[t]
      /\ Total(SeenBy(taps)) \in Nat /\ Total(SeenBy(taps')) \in Nat
  BY <1>2, <1>3, <1>4, TotalChanges
<1>6. /\ Total(KeptBy(taps)) + KeptBy(taps')[t] = Total(KeptBy(taps')) + KeptBy(taps)[t]
      /\ Total(KeptBy(taps)) \in Nat /\ Total(KeptBy(taps')) \in Nat
  BY <1>2, <1>3, <1>4, TotalChanges
<1>7. /\ Total(DroppedBy(taps)) + DroppedBy(taps')[t] = Total(DroppedBy(taps')) + DroppedBy(taps)[t]
      /\ Total(DroppedBy(taps)) \in Nat /\ Total(DroppedBy(taps')) \in Nat
  BY <1>2, <1>3, <1>4, TotalChanges
<1>8. /\ slots[1].seen \in Nat /\ slots[2].kept \in Nat /\ slots[1].dropped \in Nat /\ slots[2].dropped \in Nat
      /\ slots'[1].seen \in Nat /\ slots'[2].kept \in Nat /\ slots'[1].dropped \in Nat /\ slots'[2].dropped \in Nat
      /\ SeenBy(taps)[t] \in Nat /\ SeenBy(taps')[t] \in Nat /\ KeptBy(taps)[t] \in Nat /\ KeptBy(taps')[t] \in Nat
      /\ DroppedBy(taps)[t] \in Nat /\ DroppedBy(taps')[t] \in Nat
  BY <1>2, <1>3 DEF SlotRecs
<1>9. /\ slots'[1].seen + SeenBy(taps)[t] = slots[1].seen + SeenBy(taps')[t]
      /\ slots'[2].kept + KeptBy(taps)[t] = slots[2].kept + KeptBy(taps')[t]
      /\ (slots'[1].dropped + slots'[2].dropped) + DroppedBy(taps)[t]
           = (slots[1].dropped + slots[2].dropped) + DroppedBy(taps')[t]
  BY <1>4
<1>10. /\ Total(SeenBy(taps)) = slots[1].seen /\ Total(KeptBy(taps)) = slots[2].kept
       /\ Total(DroppedBy(taps)) = slots[1].dropped + slots[2].dropped
  BY DEF CountersInd
<1>11. Total(SeenBy(taps')) = slots'[1].seen
  <2>1. slots'[1].seen + SeenBy(taps)[t] = Total(SeenBy(taps)) + SeenBy(taps')[t]
    BY <1>9, <1>10
  <2> QED BY <1>5, <1>8, <2>1, InBalance
<1>12. Total(KeptBy(taps')) = slots'[2].kept
  <2>1. slots'[2].kept + KeptBy(taps)[t] = Total(KeptBy(taps)) + KeptBy(taps')[t]
    BY <1>9, <1>10
  <2> DEFINE a == Total(KeptBy(taps))
             nb == Total(KeptBy(taps'))
             m == KeptBy(taps)[t]
             n == KeptBy(taps')[t]
             s == slots'[2].kept
  <2>2. a \in Nat /\ nb \in Nat /\ m \in Nat /\ n \in Nat /\ s \in Nat /\ a + n = nb + m /\ s + m = a + n
    BY <1>6, <1>8, <2>1
  <2>3. nb = s
    <3> HIDE DEF a, nb, m, n, s
    <3> QED BY <2>2, InBalance
  <2> QED BY <2>3
<1>13. Total(DroppedBy(taps')) = slots'[1].dropped + slots'[2].dropped
  <2>1. (slots'[1].dropped + slots'[2].dropped) + DroppedBy(taps)[t] = Total(DroppedBy(taps)) + DroppedBy(taps')[t]
    BY <1>9, <1>10
  <2>2. slots'[1].dropped + slots'[2].dropped \in Nat
    <3> DEFINE x == slots'[1].dropped
               y == slots'[2].dropped
    <3>1. x \in Nat /\ y \in Nat
      BY <1>8
    <3>2. x + y \in Nat
      <4> HIDE DEF x, y
      <4> QED BY <3>1
    <3> QED BY <3>2
  <2> QED BY <1>7, <1>8, <2>1, <2>2, InBalance
<1>14. \A u \in Taps : taps'[u].kept + taps'[u].dropped + (IF taps'[u].at = 4 THEN 1 ELSE 0) = taps'[u].seen
  BY <1>1 DEF CountersInd
<1> QED BY <1>1, <1>11, <1>12, <1>13, <1>14 DEF CountersInd

\* Where the reloader has no part, and the modules stay.
LEMMA ReloaderKept ==
  ASSUME ReloaderInd, UNCHANGED <<disk, bytes, fileEvents, watching, signalled, reloader, dropping>>,
         slots'[1].module = slots[1].module
  PROVE  ReloaderInd'
BY DEF ReloaderInd, ReloaderTyped, FileFollowed, News
LEMMA NewsComes ==
  ASSUME NEW s \in Seq(BOOLEAN), NEW e \in BOOLEAN
  PROVE  Append(s, e) \in Seq(BOOLEAN) /\ (News(Append(s, e)) <=> News(s) \/ e)
<1> DEFINE a == Append(s, e)
<1>1. /\ a \in Seq(BOOLEAN) /\ DOMAIN a = 1..(Len(s) + 1) /\ DOMAIN s = 1..Len(s) /\ Len(s) \in Nat
      /\ (\A i \in 1..Len(s) : a[i] = s[i]) /\ a[Len(s) + 1] = e
  OBVIOUS
<1>2. \A i \in DOMAIN a : i \in DOMAIN s \/ i = Len(s) + 1
  BY <1>1
<1>3. DOMAIN s \subseteq DOMAIN a /\ Len(s) + 1 \in DOMAIN a
  BY <1>1
<1> HIDE DEF a
<1>4. News(a) <=> News(s) \/ e
  BY <1>1, <1>2, <1>3 DEF News
<1> QED BY <1>1, <1>4 DEF a

LEMMA NewsGoes ==
  ASSUME NEW s \in Seq(BOOLEAN), s # <<>>
  PROVE  Tail(s) \in Seq(BOOLEAN) /\ Head(s) \in BOOLEAN /\ (News(s) <=> Head(s) \/ News(Tail(s)))
<1> DEFINE a == Tail(s)
<1>1. /\ a \in Seq(BOOLEAN) /\ DOMAIN a = 1..(Len(s) - 1) /\ DOMAIN s = 1..Len(s) /\ Len(s) \in Nat \ {0}
      /\ (\A i \in 1..(Len(s) - 1) : a[i] = s[i + 1]) /\ Head(s) = s[1]
  OBVIOUS
<1>2. \A i \in DOMAIN s : i = 1 \/ (i - 1 \in DOMAIN a /\ s[i] = a[i - 1])
  BY <1>1
<1>3. 1 \in DOMAIN s /\ \A i \in DOMAIN a : i + 1 \in DOMAIN s /\ s[i + 1] = a[i]
  BY <1>1
<1>4. Head(s) \in BOOLEAN
  OBVIOUS
<1> HIDE DEF a
<1>5. News(s) <=> s[1] \/ News(a)
  BY <1>2, <1>3 DEF News
<1> QED BY <1>1, <1>4, <1>5 DEF a

LEMMA CountersStay ==
  ASSUME CountersInd, UNCHANGED <<slots, taps>>
  PROVE  CountersInd'
BY DEF CountersInd, CountersTyped

LEMMA NotifiedNews ==
  ASSUME ReloaderTyped, NEW concerns \in BOOLEAN, Notified(concerns), UNCHANGED watching
  PROVE  /\ fileEvents' \in Seq(BOOLEAN)
         /\ watching => (News(fileEvents') <=> News(fileEvents) \/ concerns)
BY NewsComes DEF Notified, ReloaderTyped

LEMMA FileChanges ==
  ASSUME FilterInd, NEW does \in {"pass", "drop", "long", "broken", "partial"}, SaveFile(does) \/ OtherFile
  PROVE  FilterInd'
<1>1. CountersInd'
  BY CountersStay DEF FilterInd, SaveFile, OtherFile
<1>2. ReloaderTyped /\ ReloaderInd
  BY DEF FilterInd, ReloaderInd
<1>3. CASE SaveFile(does)
  <2>1. fileEvents' \in Seq(BOOLEAN) /\ (watching => News(fileEvents'))
    BY <1>2, <1>3, NotifiedNews DEF SaveFile
  <2>2. disk' \in Modules
    <3>1. disk.version \in Nat
      BY <1>2 DEF ReloaderTyped, Modules
    <3>2. disk' = Module(disk.version, does) \/ disk' = Module(disk.version + 1, does)
      BY <1>3 DEF SaveFile
    <3> QED BY <3>1, <3>2 DEF Module, Modules
  <2>3. UNCHANGED <<watching, signalled, reloader, bytes, dropping, slots>>
    BY <1>3 DEF SaveFile
  <2>4. ReloaderTyped'
    BY <1>2, <2>1, <2>2, <2>3 DEF ReloaderTyped
  <2>5. FileFollowed'
    BY <2>1, <2>3 DEF FileFollowed
  <2> QED BY <1>1, <1>2, <2>3, <2>4, <2>5 DEF FilterInd, ReloaderInd
<1>4. CASE OtherFile
  <2>1. fileEvents' \in Seq(BOOLEAN) /\ (watching => (News(fileEvents') <=> News(fileEvents)))
    BY <1>2, <1>4, NotifiedNews DEF OtherFile
  <2>2. UNCHANGED <<disk, watching, signalled, reloader, bytes, dropping, slots>>
    BY <1>4 DEF OtherFile
  <2>3. ReloaderTyped'
    BY <1>2, <2>1, <2>2 DEF ReloaderTyped
  <2>4. FileFollowed'
    BY <1>2, <2>1, <2>2 DEF FileFollowed, ReloaderInd, Compiles
  <2> QED BY <1>1, <1>2, <2>2, <2>3, <2>4 DEF FilterInd, ReloaderInd, Compiles
<1> QED BY <1>3, <1>4

LEMMA ReloaderWorks ==
  ASSUME FilterInd, ReloaderChecks \/ ReloaderReceives \/ ReloaderDrains \/ ReloaderReads
  PROVE  FilterInd'
<1>1. CountersInd'
  BY CountersStay DEF FilterInd, ReloaderChecks, ReloaderReceives, ReloaderDrains, ReloaderReads
<1>2. ReloaderTyped /\ FileFollowed /\ ReloaderInd
  BY DEF FilterInd, ReloaderInd
<1>3. UNCHANGED <<disk, watching, signalled, dropping, slots>>
  BY DEF ReloaderChecks, ReloaderReceives, ReloaderDrains, ReloaderReads
<1>4. Compiles(slots[1].module)' /\ (dropping \in {"join", "done"} => ~watching)'
  BY <1>2, <1>3 DEF ReloaderInd, Compiles
<1>5. CASE ReloaderChecks
  <2>1. ReloaderTyped'
    BY <1>2, <1>5 DEF ReloaderTyped, ReloaderChecks
  <2>2. FileFollowed'
    BY <1>2, <1>5 DEF FileFollowed, ReloaderChecks, Compiles
  <2> QED BY <1>1, <1>4, <2>1, <2>2 DEF FilterInd, ReloaderInd
<1>6. CASE ReloaderReceives
  <2>1. CASE fileEvents # <<>> /\ fileEvents' = Tail(fileEvents)
             /\ reloader' = IF Head(fileEvents) THEN "debounce" ELSE "check"
    <3>1. /\ fileEvents' \in Seq(BOOLEAN) /\ Head(fileEvents) \in BOOLEAN
          /\ News(fileEvents) <=> Head(fileEvents) \/ News(fileEvents')
      BY <1>2, <2>1, NewsGoes DEF ReloaderTyped
    <3>2. UNCHANGED <<disk, watching, signalled, bytes, dropping, slots>> /\ reloader = "recv"
      BY <1>6 DEF ReloaderReceives
    <3>3. ReloaderTyped'
      BY <1>2, <2>1, <3>1, <3>2 DEF ReloaderTyped
    <3>4. FileFollowed'
      <4>1. CASE Head(fileEvents)
        BY <2>1, <4>1 DEF FileFollowed
      <4>2. CASE ~Head(fileEvents)
        BY <1>2, <2>1, <3>1, <3>2, <4>2 DEF FileFollowed, Compiles
      <4> QED BY <4>1, <4>2
    <3> QED BY <1>1, <1>4, <3>3, <3>4 DEF FilterInd, ReloaderInd
  <2>2. CASE fileEvents = <<>> /\ ~watching /\ reloader' = "gone" /\ UNCHANGED fileEvents
    <3>1. ReloaderTyped' /\ FileFollowed'
      BY <1>2, <1>3, <1>6, <2>2 DEF ReloaderTyped, FileFollowed, ReloaderReceives
    <3> QED BY <1>1, <1>4, <3>1 DEF FilterInd, ReloaderInd
  <2> QED BY <1>6, <2>1, <2>2 DEF ReloaderReceives
<1>7. CASE ReloaderDrains
  <2>1. fileEvents' \in Seq(BOOLEAN)
    BY <1>2, <1>7, NewsGoes DEF ReloaderDrains, ReloaderTyped
  <2>2. bytes' = bytes /\ reloader' \in {"debounce", "load"}
    BY <1>7 DEF ReloaderDrains
  <2>3. ReloaderTyped' /\ FileFollowed'
    BY <1>2, <1>3, <2>1, <2>2 DEF ReloaderTyped, FileFollowed
  <2> QED BY <1>1, <1>4, <2>3 DEF FilterInd, ReloaderInd
<1>8. CASE ReloaderReads
  <2>1. ReloaderTyped' /\ FileFollowed'
    BY <1>2, <1>8 DEF ReloaderTyped, FileFollowed, ReloaderReads
  <2> QED BY <1>1, <1>4, <2>1 DEF FilterInd, ReloaderInd
<1> QED BY <1>5, <1>6, <1>7, <1>8
LEMMA EntryReplaced ==
  ASSUME NEW S, NEW s \in Seq(S), NEW e \in S, NEW i \in DOMAIN s
  PROVE  [s EXCEPT ![i] = e] \in Seq(S) /\ Len([s EXCEPT ![i] = e]) = Len(s)
<1> DEFINE r == [s EXCEPT ![i] = e]
<1>1. Len(s) \in Nat /\ DOMAIN s = 1..Len(s) /\ DOMAIN r = DOMAIN s
  OBVIOUS
<1>2. \A j \in 1..Len(s) : s[j] \in S
  OBVIOUS
<1>3. r \in [1..Len(s) -> S]
  BY <1>1, <1>2
<1> HIDE DEF r
<1>4. r \in Seq(S)
  BY <1>1, <1>3
<1>5. Len(r) = Len(s)
  BY <1>1, <1>3
<1> QED BY <1>4, <1>5 DEF r

LEMMA ModuleReplaced ==
  ASSUME CountersTyped, NEW mod \in Modules, slots' = [slots EXCEPT ![1].module = mod]
  PROVE  /\ slots' \in Seq(SlotRecs) /\ Len(slots') = 2 /\ slots'[1].module = mod
         /\ \A i \in {1, 2} : /\ slots'[i].seen = slots[i].seen /\ slots'[i].kept = slots[i].kept
                              /\ slots'[i].dropped = slots[i].dropped
<1> DEFINE one == [slots[1] EXCEPT !.module = mod]
<1>1. DOMAIN slots = {1, 2} /\ slots[1] \in SlotRecs /\ slots[2] \in SlotRecs
  BY Counters
<1>2. one \in SlotRecs /\ one.module = mod
      /\ one.seen = slots[1].seen /\ one.kept = slots[1].kept /\ one.dropped = slots[1].dropped
  BY <1>1 DEF SlotRecs
<1>3. slots' = [slots EXCEPT ![1] = one] /\ slots \in Seq(SlotRecs) /\ Len(slots) = 2
  BY DEF CountersTyped
<1> HIDE DEF one
<1>4. slots' \in Seq(SlotRecs) /\ Len(slots') = 2 /\ slots'[1] = one /\ slots'[2] = slots[2]
  <2> DEFINE R == SlotRecs
  <2>1. one \in R /\ slots \in Seq(R) /\ Len(slots) = 2
    BY <1>2, <1>3
  <2>2. slots' \in Seq(R) /\ Len(slots') = 2
    <3> HIDE DEF R
    <3> QED BY <1>1, <1>3, <2>1, EntryReplaced
  <2> QED BY <1>1, <1>3, <2>2
<1> QED BY <1>2, <1>4

LEMMA ModuleLoads ==
  ASSUME FilterInd, ReloaderLoads
  PROVE  FilterInd'
<1>1. ReloaderTyped /\ FileFollowed /\ ReloaderInd /\ CountersInd /\ CountersTyped
  BY DEF FilterInd, ReloaderInd, CountersInd
<1>2. UNCHANGED <<disk, fileEvents, watching, signalled, bytes, dropping, taps>> /\ bytes \in Modules
  BY <1>1 DEF ReloaderLoads, ReloaderTyped
<1>3. ReloaderTyped'
  BY <1>1, <1>2 DEF ReloaderTyped, ReloaderLoads
<1>4. CASE Compiles(bytes)
  <2>1. slots' = [slots EXCEPT ![1].module = bytes]
    BY <1>4 DEF ReloaderLoads
  <2>2. slots'[1].module = bytes /\ CountersInd'
    BY <1>1, <1>2, <2>1, ModuleReplaced, CountersKept
  <2>3. FileFollowed'
    BY <1>1, <1>2, <2>2 DEF FileFollowed, ReloaderLoads, Compiles
  <2> QED BY <1>1, <1>2, <1>3, <1>4, <2>2, <2>3 DEF FilterInd, ReloaderInd, Compiles
<1>5. CASE ~Compiles(bytes)
  <2>1. slots' = slots
    BY <1>5 DEF ReloaderLoads
  <2>2. CountersInd'
    BY <1>1, <1>2, <2>1, CountersStay
  <2>3. FileFollowed'
    BY <1>1, <1>2, <1>5, <2>1 DEF FileFollowed, ReloaderLoads, Compiles
  <2> QED BY <1>1, <1>2, <1>3, <2>1, <2>2, <2>3 DEF FilterInd, ReloaderInd, Compiles
<1> QED BY <1>4, <1>5

LEMMA ReloaderDrops ==
  ASSUME FilterInd, DropSignals \/ DropUnwatches \/ DropJoins
  PROVE  FilterInd'
<1>1. CountersInd'
  BY CountersStay DEF FilterInd, DropSignals, DropUnwatches, DropJoins
<1>2. ReloaderTyped /\ FileFollowed /\ ReloaderInd
  BY DEF FilterInd, ReloaderInd
<1>3. UNCHANGED <<disk, fileEvents, reloader, bytes, slots>>
  BY DEF DropSignals, DropUnwatches, DropJoins
<1>4. ReloaderTyped'
  BY <1>2 DEF ReloaderTyped, DropSignals, DropUnwatches, DropJoins
<1>5. FileFollowed' /\ (dropping \in {"join", "done"} => ~watching)'
  BY <1>2, <1>3 DEF ReloaderInd, FileFollowed, Compiles, DropSignals, DropUnwatches, DropJoins
<1> QED BY <1>1, <1>2, <1>3, <1>4, <1>5 DEF FilterInd, ReloaderInd, Compiles

LEMMA FilterBeginsAgain == FilterInit' => FilterInd'
BY FilterBegins, PTL

LEMMA FilterComesBack ==
  ASSUME FilterRestarts
  PROVE  FilterInd'
<1>1. FilterInit'
  BY DEF FilterRestarts, FilterInit
<1> QED BY <1>1, FilterBeginsAgain
LEMMA FragmentTaken ==
  ASSUME FilterInd, NEW t \in Taps, TapTakes(t)
  PROVE  FilterInd'
<1> DEFINE tap == [taps[t] EXCEPT !.at = 1, !.keeps = TRUE, !.taken = @ + 1]
           one == [slots[1] EXCEPT !.seen = @ + 1]
<1>1. ReloaderInd /\ CountersInd /\ CountersTyped
  BY DEF FilterInd, CountersInd
<1>2. /\ DOMAIN slots = {1, 2} /\ slots[1] \in SlotRecs /\ slots[2] \in SlotRecs /\ slots \in Seq(SlotRecs) /\ Len(slots) = 2
      /\ taps[t] \in TapRecs /\ taps \in [Taps -> TapRecs]
  BY <1>1, Counters DEF CountersTyped
<1>3. slots[1].seen \in Nat /\ one \in SlotRecs /\ one.seen = slots[1].seen + 1
      /\ one.kept = slots[1].kept /\ one.dropped = slots[1].dropped /\ one.module = slots[1].module
  BY <1>2 DEF SlotRecs
<1>4. tap \in TapRecs /\ tap.at = 1 /\ tap.seen = taps[t].seen /\ tap.kept = taps[t].kept /\ tap.dropped = taps[t].dropped
  <2>1. taps[t].taken + 1 \in Nat /\ 1 \in 0..4 /\ TRUE \in BOOLEAN
    BY <1>2, TapTyped
  <2> QED BY <1>2, <2>1 DEF TapRecs
<1>5. slots' = [slots EXCEPT ![1] = one] /\ taps' = [taps EXCEPT ![t] = tap] /\ taps[t].at = 0
  BY <1>2 DEF TapTakes
<1> HIDE DEF one, tap
<1>6. slots' \in Seq(SlotRecs) /\ Len(slots') = 2
  BY <1>2, <1>3, <1>5, EntryReplaced
<1>7. slots'[1] = one /\ slots'[2] = slots[2]
  BY <1>2, <1>5
<1>8. ReloaderInd'
  BY <1>1, <1>3, <1>7, ReloaderKept DEF TapTakes
<1>9. /\ Coming(taps[t]) = 0 /\ Passed(taps[t]) = 0 /\ Refused(taps[t]) = 0
      /\ Coming(tap) = 1 /\ Passed(tap) = 0 /\ Refused(tap) = 0
  BY <1>4, <1>5 DEF Coming, Passed, Refused
<1>10. taps[t].kept + taps[t].dropped + (IF taps[t].at = 4 THEN 1 ELSE 0) = taps[t].seen
       /\ slots[2].seen = slots[1].kept
  BY <1>1 DEF CountersInd
<1>11. taps[t].seen \in Nat /\ taps[t].kept \in Nat /\ taps[t].dropped \in Nat
       /\ slots[2].kept \in Nat /\ slots[1].dropped \in Nat /\ slots[2].dropped \in Nat
  BY <1>2, TapTyped DEF SlotRecs
<1>12. tap.kept + tap.dropped + (IF tap.at = 4 THEN 1 ELSE 0) = tap.seen /\ slots'[2].seen = slots'[1].kept
  BY <1>3, <1>4, <1>5, <1>7, <1>10
<1>13. slots'[1].seen + (taps[t].seen + Coming(taps[t])) = slots[1].seen + (tap.seen + Coming(tap))
  <2> DEFINE a == slots[1].seen
             nb == taps[t].seen
  <2>1. a \in Nat /\ nb \in Nat /\ slots'[1].seen = a + 1 /\ tap.seen = nb
    BY <1>3, <1>4, <1>7, <1>11
  <2> HIDE DEF a, nb
  <2>2. (a + 1) + (nb + 0) = a + (nb + 1)
    BY <2>1
  <2> QED BY <1>9, <2>1, <2>2 DEF a, nb
<1>14. slots'[2].kept + (taps[t].kept + Passed(taps[t])) = slots[2].kept + (tap.kept + Passed(tap))
  BY <1>4, <1>7, <1>9
<1>15. (slots'[1].dropped + slots'[2].dropped) + (taps[t].dropped + Refused(taps[t]))
         = (slots[1].dropped + slots[2].dropped) + (tap.dropped + Refused(tap))
  BY <1>3, <1>4, <1>7, <1>9
<1>16. CountersInd'
  BY <1>1, <1>4, <1>5, <1>6, <1>12, <1>13, <1>14, <1>15, OneTap
<1> QED BY <1>8, <1>16 DEF FilterInd

LEMMA FragmentCounted ==
  ASSUME FilterInd, NEW t \in Taps, TapSees(t) \/ TapCounts(t)
  PROVE  FilterInd'
<1>1. ReloaderInd /\ CountersInd /\ CountersTyped
  BY DEF FilterInd, CountersInd
<1>2. /\ slots \in Seq(SlotRecs) /\ Len(slots) = 2
      /\ taps[t] \in TapRecs /\ taps \in [Taps -> TapRecs]
  BY <1>1, Counters DEF CountersTyped
<1>3. /\ taps[t].at \in 0..4 /\ taps[t].keeps \in BOOLEAN
      /\ taps[t].taken \in Nat /\ taps[t].seen \in Nat /\ taps[t].kept \in Nat /\ taps[t].dropped \in Nat
  BY <1>2, TapTyped
<1>4. UNCHANGED slots /\ ReloaderInd'
  BY <1>1, ReloaderKept DEF TapSees, TapCounts
<1>5. taps[t].kept + taps[t].dropped + (IF taps[t].at = 4 THEN 1 ELSE 0) = taps[t].seen
       /\ slots[2].seen = slots[1].kept
  BY <1>1 DEF CountersInd
<1>6. CASE TapSees(t)
  <2> DEFINE tap == [taps[t] EXCEPT !.at = @ + 1, !.seen = @ + 1]
  <2>1. taps[t].at = 3 /\ taps' = [taps EXCEPT ![t] = tap]
    <3>1. taps' = [taps EXCEPT ![t] = tap]
      BY <1>2, <1>6 DEF TapSees
    <3> HIDE DEF tap
    <3>2. taps[t].at = Len(slots) + 1
      BY <1>6 DEF TapSees
    <3>3. taps[t].at = 3
      BY <1>2, <3>2
    <3> QED BY <3>1, <3>3
  <2>2. tap \in TapRecs /\ tap.at = 4 /\ tap.keeps = taps[t].keeps /\ tap.seen = taps[t].seen + 1
        /\ tap.kept = taps[t].kept /\ tap.dropped = taps[t].dropped
    <3>1. taps[t].at + 1 = 4 /\ taps[t].seen + 1 \in Nat /\ 4 \in 0..4
      BY <1>3, <2>1
    <3>2. tap = [taps[t] EXCEPT !.at = 4, !.seen = taps[t].seen + 1]
      BY <3>1
    <3> HIDE DEF tap
    <3> QED BY <1>2, <3>1, <3>2 DEF TapRecs
  <2> HIDE DEF tap
  <2>3. Coming(taps[t]) = 1 /\ Coming(tap) = 0
        /\ Passed(tap) = Passed(taps[t]) /\ Refused(tap) = Refused(taps[t])
    BY <2>1, <2>2 DEF Coming, Passed, Refused
  <2>4. tap.seen + Coming(tap) = taps[t].seen + Coming(taps[t])
        /\ tap.kept + Passed(tap) = taps[t].kept + Passed(taps[t])
        /\ tap.dropped + Refused(tap) = taps[t].dropped + Refused(taps[t])
    BY <1>3, <2>2, <2>3
  <2>5. tap.kept + tap.dropped + (IF tap.at = 4 THEN 1 ELSE 0) = tap.seen
    BY <1>3, <1>5, <2>1, <2>2
  <2>6. CountersInd'
    BY <1>1, <1>2, <1>4, <1>5, <2>1, <2>2, <2>4, <2>5, OneTap
  <2> QED BY <1>4, <2>6 DEF FilterInd
<1>7. CASE TapCounts(t)
  <2> DEFINE tap == [Counted(taps[t], taps[t].keeps) EXCEPT !.at = 0]
  <2>1. taps[t].at = 4 /\ taps' = [taps EXCEPT ![t] = tap]
    BY <1>2, <1>7 DEF TapCounts
  <2>2. /\ tap \in TapRecs /\ tap.at = 0 /\ tap.seen = taps[t].seen
        /\ taps[t].keeps => tap.kept = taps[t].kept + 1 /\ tap.dropped = taps[t].dropped
        /\ ~taps[t].keeps => tap.kept = taps[t].kept /\ tap.dropped = taps[t].dropped + 1
    <3>1. CASE taps[t].keeps
      <4>1. Counted(taps[t], taps[t].keeps) = [taps[t] EXCEPT !.kept = taps[t].kept + 1]
        BY <1>2, <3>1 DEF Counted, TapRecs
      <4>2. tap = [taps[t] EXCEPT !.at = 0, !.kept = taps[t].kept + 1]
        BY <1>2, <4>1 DEF TapRecs
      <4>3. taps[t].kept + 1 \in Nat /\ 0 \in 0..4
        BY <1>3
      <4> HIDE DEF tap
      <4> QED BY <1>2, <3>1, <4>2, <4>3 DEF TapRecs
    <3>2. CASE ~taps[t].keeps
      <4>1. Counted(taps[t], taps[t].keeps) = [taps[t] EXCEPT !.dropped = taps[t].dropped + 1]
        BY <1>2, <3>2 DEF Counted, TapRecs
      <4>2. tap = [taps[t] EXCEPT !.at = 0, !.dropped = taps[t].dropped + 1]
        BY <1>2, <4>1 DEF TapRecs
      <4>3. taps[t].dropped + 1 \in Nat /\ 0 \in 0..4
        BY <1>3
      <4> HIDE DEF tap
      <4> QED BY <1>2, <3>2, <4>2, <4>3 DEF TapRecs
    <3> QED BY <3>1, <3>2
  <2> HIDE DEF tap
  <2>3. /\ Coming(taps[t]) = 0 /\ Coming(tap) = 0 /\ Passed(tap) = 0 /\ Refused(tap) = 0
        /\ taps[t].keeps => Passed(taps[t]) = 1 /\ Refused(taps[t]) = 0
        /\ ~taps[t].keeps => Passed(taps[t]) = 0 /\ Refused(taps[t]) = 1
    BY <2>1, <2>2 DEF Coming, Passed, Refused
  <2>4. tap.seen + Coming(tap) = taps[t].seen + Coming(taps[t])
        /\ tap.kept + Passed(tap) = taps[t].kept + Passed(taps[t])
        /\ tap.dropped + Refused(tap) = taps[t].dropped + Refused(taps[t])
    BY <1>3, <2>2, <2>3
  <2>5. tap.kept + tap.dropped + (IF tap.at = 4 THEN 1 ELSE 0) = tap.seen
    BY <1>3, <1>5, <2>1, <2>2
  <2>6. CountersInd'
    BY <1>1, <1>2, <1>4, <1>5, <2>1, <2>2, <2>4, <2>5, OneTap
  <2> QED BY <1>4, <2>6 DEF FilterInd
<1> QED BY <1>6, <1>7

LEMMA SlotCounts ==
  ASSUME NEW slot \in SlotRecs, NEW keeps \in BOOLEAN
  PROVE  /\ Counted(slot, keeps) \in SlotRecs
         /\ Counted(slot, keeps).module = slot.module /\ Counted(slot, keeps).seen = slot.seen
         /\ Counted(slot, keeps).kept = slot.kept + (IF keeps THEN 1 ELSE 0)
         /\ Counted(slot, keeps).dropped = slot.dropped + (IF keeps THEN 0 ELSE 1)
<1>1. slot.kept \in Nat /\ slot.dropped \in Nat
  BY DEF SlotRecs
<1>2. CASE keeps
  <2>1. Counted(slot, keeps) = [slot EXCEPT !.kept = slot.kept + 1]
    BY <1>2 DEF SlotRecs, Counted
  <2>2. slot.kept + 1 \in Nat /\ slot.dropped + 0 = slot.dropped
    BY <1>1
  <2> QED BY <1>2, <2>1, <2>2 DEF SlotRecs
<1>3. CASE ~keeps
  <2>1. Counted(slot, keeps) = [slot EXCEPT !.dropped = slot.dropped + 1]
    BY <1>3 DEF SlotRecs, Counted
  <2>2. slot.dropped + 1 \in Nat /\ slot.kept + 0 = slot.kept
    BY <1>1
  <2> QED BY <1>3, <2>1, <2>2 DEF SlotRecs
<1> QED BY <1>2, <1>3
LEMMA FragmentFiltered ==
  ASSUME FilterInd, NEW t \in Taps, SlotApplies(t)
  PROVE  FilterInd'
<1> DEFINE i == taps[t].at
           keeps == Keeps(slots[i].module)
           done == Counted(slots[i], keeps)
           on == keeps /\ i < Len(slots)
           two == [slots[2] EXCEPT !.seen = @ + 1]
           tap == [taps[t] EXCEPT !.at = IF on THEN i + 1 ELSE Len(slots) + 1, !.keeps = keeps]
<1>1. ReloaderInd /\ CountersInd /\ CountersTyped
  BY DEF FilterInd, CountersInd
<1>2. /\ DOMAIN slots = {1, 2} /\ slots[1] \in SlotRecs /\ slots[2] \in SlotRecs /\ slots \in Seq(SlotRecs) /\ Len(slots) = 2
      /\ taps[t] \in TapRecs /\ taps \in [Taps -> TapRecs]
  BY <1>1, Counters DEF CountersTyped
<1>3. /\ taps[t].seen \in Nat /\ taps[t].kept \in Nat /\ taps[t].dropped \in Nat
      /\ slots[1].seen \in Nat /\ slots[2].seen \in Nat /\ slots[1].kept \in Nat /\ slots[2].kept \in Nat
      /\ slots[1].dropped \in Nat /\ slots[2].dropped \in Nat
  BY <1>2, TapTyped DEF SlotRecs
<1>4. i \in {1, 2} /\ keeps \in BOOLEAN /\ (on <=> keeps /\ i = 1)
  <2>1. i \in {1, 2}
    BY <1>2 DEF SlotApplies
  <2>2. i < 2 <=> i = 1
    BY <2>1
  <2> QED BY <1>2, <2>1, <2>2 DEF Keeps
<1>5. taps' = [taps EXCEPT ![t] = tap]
  <2>1. taps' = [taps EXCEPT ![t].at = IF on THEN i + 1 ELSE Len(slots) + 1, ![t].keeps = keeps]
    BY DEF SlotApplies
  <2> HIDE DEF on, keeps
  <2> QED BY <1>2, <2>1
<1>6. /\ slots' = IF on THEN [[slots EXCEPT ![i] = done] EXCEPT ![i + 1].seen = @ + 1]
                        ELSE [slots EXCEPT ![i] = done]
      /\ UNCHANGED <<disk, bytes, fileEvents, watching, signalled, reloader, dropping>>
  BY DEF SlotApplies
<1>7. done \in SlotRecs /\ done.module = slots[i].module /\ done.seen = slots[i].seen
      /\ done.kept = slots[i].kept + (IF keeps THEN 1 ELSE 0) /\ done.dropped = slots[i].dropped + (IF keeps THEN 0 ELSE 1)
  <2>1. slots[i] \in SlotRecs
    BY <1>2, <1>4
  <2> HIDE DEF i, keeps
  <2> QED BY <1>4, <2>1, SlotCounts
<1>8. two \in SlotRecs /\ two.seen = slots[2].seen + 1 /\ two.module = slots[2].module
      /\ two.kept = slots[2].kept /\ two.dropped = slots[2].dropped
  <2>1. slots[2].seen + 1 \in Nat
    BY <1>3
  <2> QED BY <1>2, <2>1 DEF SlotRecs
<1>9. /\ tap \in TapRecs /\ tap.keeps = keeps /\ tap.at = (IF on THEN 2 ELSE 3)
      /\ tap.seen = taps[t].seen /\ tap.kept = taps[t].kept /\ tap.dropped = taps[t].dropped
  <2>1. (IF on THEN i + 1 ELSE Len(slots) + 1) = (IF on THEN 2 ELSE 3)
    BY <1>2, <1>4
  <2>2. tap = [taps[t] EXCEPT !.at = IF on THEN 2 ELSE 3, !.keeps = keeps]
    BY <2>1
  <2>3. (IF on THEN 2 ELSE 3) \in 0..4
    OBVIOUS
  <2> HIDE DEF tap, on, keeps
  <2> QED BY <1>2, <1>4, <2>2, <2>3 DEF TapRecs
<1>10. taps[t].kept + taps[t].dropped = taps[t].seen /\ slots[2].seen = slots[1].kept
  <2>1. taps[t].kept + taps[t].dropped + (IF taps[t].at = 4 THEN 1 ELSE 0) = taps[t].seen
    BY <1>1 DEF CountersInd
  <2>2. slots[2].seen = slots[1].kept
    BY <1>1 DEF CountersInd
  <2> QED BY <1>3, <1>4, <2>1, <2>2
<1>11. tap.kept + tap.dropped + (IF tap.at = 4 THEN 1 ELSE 0) = tap.seen
  <2>1. tap.at # 4
    BY <1>9
  <2>2. taps[t].kept + taps[t].dropped + 0 = taps[t].seen
    BY <1>3, <1>10
  <2> HIDE DEF tap
  <2> QED BY <1>9, <2>1, <2>2
<1>12. Coming(taps[t]) = 1 /\ Passed(taps[t]) = 0 /\ Refused(taps[t]) = 0
  BY <1>4 DEF Coming, Passed, Refused
<1>13. CASE on
  <2>1. i = 1 /\ keeps /\ slots' = [[slots EXCEPT ![1] = done] EXCEPT ![2].seen = @ + 1] /\ tap.at = 2
    <3>1. i = 1 /\ keeps /\ i + 1 = 2
      BY <1>4, <1>13
    <3> HIDE DEF done, tap, keeps, on, i
    <3>2. slots' = [[slots EXCEPT ![i] = done] EXCEPT ![i + 1].seen = @ + 1]
      BY <1>6, <1>13
    <3>3. tap.at = 2
      BY <1>9, <1>13
    <3> QED BY <3>1, <3>2, <3>3
  <2> HIDE DEF done, tap, keeps, on
  <2>2. slots' = [[slots EXCEPT ![1] = done] EXCEPT ![2] = two]
    BY <1>2, <2>1
  <2> HIDE DEF two
  <2>3. slots' \in Seq(SlotRecs) /\ Len(slots') = 2 /\ slots'[1] = done /\ slots'[2] = two
    <3> DEFINE mid == [slots EXCEPT ![1] = done]
    <3>1. mid \in Seq(SlotRecs) /\ Len(mid) = 2 /\ DOMAIN mid = {1, 2}
      BY <1>2, <1>7, EntryReplaced
    <3>2. slots' = [mid EXCEPT ![2] = two] /\ mid[1] = done
      BY <1>2, <2>2
    <3> HIDE DEF mid
    <3>3. slots' \in Seq(SlotRecs) /\ Len(slots') = 2
      BY <1>8, <3>1, <3>2, EntryReplaced
    <3> QED BY <3>1, <3>2, <3>3
  <2>4. ReloaderInd'
    BY <1>1, <1>6, <1>7, <2>1, <2>3, ReloaderKept
  <2>5. Coming(tap) = 1 /\ Passed(tap) = 0 /\ Refused(tap) = 0
    BY <2>1 DEF Coming, Passed, Refused
  <2>6. /\ slots'[1].seen = slots[1].seen /\ slots'[1].kept = slots[1].kept + 1
        /\ slots'[1].dropped = slots[1].dropped + 0 /\ slots'[2].seen = slots[2].seen + 1
        /\ slots'[2].kept = slots[2].kept /\ slots'[2].dropped = slots[2].dropped
    BY <1>7, <1>8, <2>1, <2>3
  <2>7. slots'[1].dropped = slots[1].dropped
    BY <1>3, <2>6
  <2>8. slots'[2].seen = slots'[1].kept
    BY <1>10, <2>6
  <2>9. CountersInd'
    BY <1>1, <1>5, <1>9, <1>11, <1>12, <2>3, <2>5, <2>6, <2>7, <2>8, OneTap
  <2> QED BY <2>4, <2>9 DEF FilterInd
<1>14. CASE ~on
  <2>1. slots' = [slots EXCEPT ![i] = done] /\ tap.at = 3 /\ (keeps => i = 2)
    BY <1>4, <1>6, <1>9, <1>14
  <2> HIDE DEF done, tap, keeps, on, two, i
  <2>2. slots' \in Seq(SlotRecs) /\ Len(slots') = 2 /\ slots'[i] = done
        /\ \A j \in {1, 2} : j # i => slots'[j] = slots[j]
    BY <1>2, <1>4, <1>7, <2>1, EntryReplaced
  <2>3. slots'[1].module = slots[1].module
    BY <1>4, <1>7, <2>2
  <2>4. ReloaderInd'
    BY <1>1, <1>6, <2>3, ReloaderKept
  <2>5. Coming(tap) = 1 /\ (keeps => Passed(tap) = 1 /\ Refused(tap) = 0) /\ (~keeps => Passed(tap) = 0 /\ Refused(tap) = 1)
    BY <1>9, <2>1 DEF Coming, Passed, Refused
  <2>6. CASE keeps
    <3>1. /\ slots'[1] = slots[1] /\ slots'[2].seen = slots[2].seen
          /\ slots'[2].kept = slots[2].kept + 1 /\ slots'[2].dropped = slots[2].dropped + 0
      BY <1>7, <2>1, <2>2, <2>6
    <3>2. slots'[2].dropped = slots[2].dropped
      BY <1>3, <3>1
    <3>3. slots'[2].seen = slots'[1].kept
      BY <1>10, <3>1
    <3>4. slots'[1].seen + (taps[t].seen + Coming(taps[t])) = slots[1].seen + (tap.seen + Coming(tap))
      BY <1>9, <1>12, <2>5, <3>1
    <3>5. slots'[2].kept + (taps[t].kept + Passed(taps[t])) = slots[2].kept + (tap.kept + Passed(tap))
      <4> DEFINE x == slots[2].kept
                 y == taps[t].kept
      <4>1. x \in Nat /\ y \in Nat /\ slots'[2].kept = x + 1 /\ tap.kept = y
        BY <1>3, <1>9, <3>1
      <4>2. (x + 1) + (y + 0) = x + (y + 1)
        <5> HIDE DEF x, y
        <5> QED BY <4>1
      <4> QED BY <1>12, <2>5, <2>6, <4>1, <4>2
    <3>6. (slots'[1].dropped + slots'[2].dropped) + (taps[t].dropped + Refused(taps[t]))
            = (slots[1].dropped + slots[2].dropped) + (tap.dropped + Refused(tap))
      BY <1>9, <1>12, <2>5, <2>6, <3>1, <3>2
    <3>7. CountersInd'
      BY <1>1, <1>5, <1>9, <1>11, <2>2, <3>3, <3>4, <3>5, <3>6, OneTap
    <3> QED BY <2>4, <3>7 DEF FilterInd
  <2>7. CASE ~keeps
    <3>1. /\ slots'[i].seen = slots[i].seen /\ slots'[i].kept = slots[i].kept + 0
          /\ slots'[i].dropped = slots[i].dropped + 1
      BY <1>7, <2>1, <2>2, <2>7
    <3>2. slots'[i].kept = slots[i].kept
      BY <1>3, <1>4, <3>1
    <3>3. /\ slots'[1].seen = slots[1].seen /\ slots'[2].seen = slots[2].seen
          /\ slots'[1].kept = slots[1].kept /\ slots'[2].kept = slots[2].kept
      BY <1>4, <2>2, <3>1, <3>2
    <3>4. slots'[2].seen = slots'[1].kept
      BY <1>10, <3>3
    <3>5. slots'[1].seen + (taps[t].seen + Coming(taps[t])) = slots[1].seen + (tap.seen + Coming(tap))
      BY <1>9, <1>12, <2>5, <3>3
    <3>6. slots'[2].kept + (taps[t].kept + Passed(taps[t])) = slots[2].kept + (tap.kept + Passed(tap))
      BY <1>9, <1>12, <2>5, <2>7, <3>3
    <3>7. (slots'[1].dropped + slots'[2].dropped) + (taps[t].dropped + Refused(taps[t]))
            = (slots[1].dropped + slots[2].dropped) + (tap.dropped + Refused(tap))
      <4> DEFINE x == slots[1].dropped
                 y == slots[2].dropped
                 z == taps[t].dropped
                 u == slots'[1].dropped
                 v == slots'[2].dropped
      <4>1. x \in Nat /\ y \in Nat /\ z \in Nat /\ tap.dropped = z
            /\ ((u = x + 1 /\ v = y) \/ (u = x /\ v = y + 1))
        BY <1>3, <1>4, <1>9, <2>2, <3>1
      <4>2. (u + v) + (z + 0) = (x + y) + (z + 1)
        <5> HIDE DEF x, y, z, u, v
        <5> QED BY <4>1
      <4> QED BY <1>12, <2>5, <2>7, <4>1, <4>2
    <3>8. CountersInd'
      BY <1>1, <1>5, <1>9, <1>11, <2>2, <3>4, <3>5, <3>6, <3>7, OneTap
    <3> QED BY <2>4, <3>8 DEF FilterInd
  <2> QED BY <1>4, <2>6, <2>7
<1> QED BY <1>13, <1>14

LEMMA FilterProceeds ==
  ASSUME FilterInd, [FilterNext]_filter
  PROVE  FilterInd'
<1>1. CASE UNCHANGED filter
  <2>1. CountersInd'
    BY <1>1, CountersStay DEF FilterInd, filter
  <2>2. ReloaderInd'
    BY <1>1, ReloaderKept DEF FilterInd, filter
  <2> QED BY <2>1, <2>2 DEF FilterInd
<1>2. CASE FilterNext
  <2>1. ASSUME NEW does \in {"pass", "drop", "long", "broken", "partial"}, SaveFile(does)
        PROVE  FilterInd'
    BY <2>1, FileChanges
  <2>2. ASSUME OtherFile
        PROVE  FilterInd'
    <3>1. "pass" \in {"pass", "drop", "long", "broken", "partial"}
      OBVIOUS
    <3> QED BY <2>2, <3>1, FileChanges
  <2>3. ASSUME NEW t \in Taps, TapTakes(t) \/ SlotApplies(t) \/ TapSees(t) \/ TapCounts(t)
        PROVE  FilterInd'
    BY <2>3, FragmentTaken, FragmentFiltered, FragmentCounted
  <2> QED BY <1>2, <2>1, <2>2, <2>3, ReloaderWorks, ModuleLoads, ReloaderDrops, FilterComesBack DEF FilterNext
<1> QED BY <1>1, <1>2

\* The running totals agree, and so do the plain counters once no tap is busy.
LEMMA FilterIsRight == FilterInd => FilterInv
<1> SUFFICES ASSUME FilterInd PROVE FilterInv
  OBVIOUS
<1>1. ReloaderInd /\ ReloaderTyped /\ FileFollowed /\ CountersInd /\ CountersTyped
  BY DEF FilterInd, ReloaderInd, CountersInd
<1>2. ReloadSettles
  <2>1. fileEvents = <<>> => ~News(fileEvents)
    BY DEF News
  <2> QED BY <1>1, <2>1 DEF ReloadSettles, ReloaderInd, FileFollowed
<1>3. JoinReturns
  BY <1>1 DEF JoinReturns, ReloaderInd
<1> DEFINE seen == [t \in Taps |-> taps[t].seen]
           kept == [t \in Taps |-> taps[t].kept]
           dropped == [t \in Taps |-> taps[t].dropped]
<1>4. /\ SeenBy(taps) \in [Taps -> Nat] /\ KeptBy(taps) \in [Taps -> Nat] /\ DroppedBy(taps) \in [Taps -> Nat]
      /\ \A t \in Taps : taps[t] \in TapRecs
  BY <1>1, Counters
<1>5. \A t \in Taps : /\ taps[t].seen \in Nat /\ taps[t].kept \in Nat /\ taps[t].dropped \in Nat
                      /\ Coming(taps[t]) \in {0, 1}
  BY <1>4, TapTyped
<1>6. slots[2].seen = slots[1].kept
      /\ \A t \in Taps : taps[t].kept + taps[t].dropped <= taps[t].seen
  <2>1. \A t \in Taps : taps[t].kept + taps[t].dropped + (IF taps[t].at = 4 THEN 1 ELSE 0) = taps[t].seen
    BY <1>1 DEF CountersInd
  <2>2. ASSUME NEW t \in Taps
        PROVE  taps[t].kept + taps[t].dropped <= taps[t].seen
    BY <1>5, <2>1
  <2> QED BY <1>1, <2>2 DEF CountersInd
<1>7. Total(seen) <= slots[1].seen
  <2>1. seen \in [Taps -> Nat] /\ \A t \in Taps : seen[t] <= SeenBy(taps)[t]
    BY <1>5 DEF SeenBy
  <2>2. Total(SeenBy(taps)) = slots[1].seen
    BY <1>1 DEF CountersInd
  <2> HIDE DEF seen
  <2> QED BY <1>4, <2>1, <2>2, TotalOrder
<1>8. ASSUME \A t \in Taps : taps[t].at = 0
      PROVE  /\ Total(seen) = slots[1].seen /\ Total(kept) = slots[2].kept
             /\ Total(dropped) = slots[1].dropped + slots[2].dropped
  <2>1. \A t \in Taps : /\ taps[t].seen + Coming(taps[t]) = taps[t].seen
                        /\ taps[t].kept + Passed(taps[t]) = taps[t].kept
                        /\ taps[t].dropped + Refused(taps[t]) = taps[t].dropped
    BY <1>5, <1>8 DEF Coming, Passed, Refused
  <2>2. SeenBy(taps) = seen /\ KeptBy(taps) = kept /\ DroppedBy(taps) = dropped
    BY <2>1 DEF SeenBy, KeptBy, DroppedBy
  <2> HIDE DEF seen, kept, dropped
  <2> QED BY <1>1, <2>2 DEF CountersInd
<1>9. CountsAgree
  BY <1>6, <1>7, <1>8 DEF CountsAgree
<1> QED BY <1>2, <1>3, <1>9 DEF FilterInv
=============================================================================
