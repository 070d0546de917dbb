---------------------------- MODULE CaptionAgent ----------------------------
(***************************************************************************)
(* The captions agent (crates/lvqr-agent-whisper): the agent's callbacks   *)
(* hand AAC frames to a worker thread over a bounded queue, the thread     *)
(* decodes them into a window and runs the speech model over each full     *)
(* window, and its captions go to a broadcaster the agent put into the     *)
(* registry.                                                               *)
(***************************************************************************)
EXTENDS Naturals, FiniteSets, Sequences

CONSTANTS
  FrameQueue,      \* WORKER_QUEUE_DEPTH
  WindowFrames,    \* frames that fill a window
  MaxFrames        \* bound: fragments of a publication

ASSUME CaptionAgentAssumption == FrameQueue \in Nat /\ WindowFrames \in Nat \ {0} /\ MaxFrames \in Nat

VARIABLES
  speaker,         \* the agent
  entryUp,         \* the captions entry in the registry
  heardTo,         \* the fragment that comes next
  frames,          \* the worker's queue
  scribe,          \* the worker thread
  window,          \* window_start_dts (0: none) and the frames in pcm
  cues,            \* captions that were published
  accepted,        \* history: frames the queue took
  spent            \* history: frames that went through the model or could not be decoded

speech == <<speaker, entryUp, heardTo, frames, scribe, window, cues, accepted, spent>>

NoWindow == [start |-> 0, pcm |-> <<>>]

SpeechInit ==
  /\ speaker = "none" /\ entryUp = FALSE /\ heardTo = 1 /\ frames = <<>> /\ scribe = "none"
  /\ window = NoWindow /\ cues = <<>> /\ accepted = {} /\ spent = {}

-----------------------------------------------------------------------------
(* The agent's callbacks.                                                  *)

\* on_start: without an audio configuration the agent does nothing; the entry
\* is there before the model is loaded, which can fail.
OnStart ==
  /\ speaker = "none"
  /\ \/ speaker' = "mute" /\ UNCHANGED <<entryUp, scribe>>
     \/ speaker' = "mute" /\ entryUp' = TRUE /\ UNCHANGED scribe
     \/ speaker' = "run" /\ entryUp' = TRUE /\ scribe' \in {"run", "gone"}
  /\ UNCHANGED <<heardTo, frames, window, cues, accepted, spent>>

\* on_fragment: a fragment without mdat is skipped; try_send drops a frame that
\* finds the queue full or the worker gone.
OnFragment ==
  /\ speaker \in {"run", "mute"} /\ heardTo <= MaxFrames
  /\ heardTo' = heardTo + 1
  /\ \/ speaker = "run" /\ scribe # "gone" /\ Len(frames) < FrameQueue
        /\ frames' = Append(frames, heardTo) /\ accepted' = accepted \cup {heardTo}
     \/ UNCHANGED <<frames, accepted>>
  /\ UNCHANGED <<speaker, entryUp, scribe, window, cues, spent>>

\* on_stop: shutdown drops the sender.
OnStop ==
  /\ speaker \in {"run", "mute"}
  /\ speaker' = IF speaker = "run" THEN "join" ELSE "remove"
  /\ UNCHANGED <<entryUp, heardTo, frames, scribe, window, cues, accepted, spent>>

\* mutant: the entry is removed while the worker still runs
JoinScribeLate ==
  /\ speaker = "join" /\ speaker' = "remove"
  /\ UNCHANGED <<entryUp, heardTo, frames, scribe, window, cues, accepted, spent>>
\* shutdown joins the thread.
JoinScribe ==
  /\ speaker = "join" /\ scribe = "gone" /\ speaker' = "remove"
  /\ UNCHANGED <<entryUp, heardTo, frames, scribe, window, cues, accepted, spent>>

RemoveEntry ==
  /\ speaker = "remove" /\ speaker' = "done" /\ entryUp' = FALSE
  /\ UNCHANGED <<heardTo, frames, scribe, window, cues, accepted, spent>>

\* The next publication.
Republish ==
  /\ speaker = "done" /\ scribe \in {"none", "gone"}
  /\ speaker' = "none" /\ entryUp' = FALSE /\ heardTo' = 1 /\ frames' = <<>> /\ scribe' = "none"
  /\ window' = NoWindow /\ cues' = <<>> /\ accepted' = {} /\ spent' = {}

-----------------------------------------------------------------------------
(* The worker thread.                                                      *)

\* run: one frame.  The window starts at the first frame it receives, whether
\* or not that one can be decoded.
ScribeTakes ==
  /\ scribe = "run" /\ frames # <<>> /\ frames' = Tail(frames)
  /\ LET dts == Head(frames)
         start == IF window.start = 0 THEN dts ELSE window.start
     IN  \/ /\ window' = [start |-> start, pcm |-> Append(window.pcm, dts)]
            /\ scribe' = IF Len(window.pcm) + 1 >= WindowFrames THEN "infer" ELSE "run"
            /\ UNCHANGED spent
         \/ window' = [window EXCEPT !.start = start] /\ spent' = spent \cup {dts} /\ UNCHANGED scribe
  /\ UNCHANGED <<speaker, entryUp, heardTo, cues, accepted>>

Caption == [start |-> window.start, of |-> window.pcm, listed |-> entryUp]

\* mutant: the window keeps its start
InferKeepsStart ==
  /\ scribe \in {"infer", "last"}
  /\ scribe' = IF scribe = "last" THEN "gone" ELSE "run"
  /\ cues' \in {cues, Append(cues, Caption)}
  /\ window' = [window EXCEPT !.pcm = <<>>] /\ spent' = spent \cup {window.pcm[i] : i \in DOMAIN window.pcm}
  /\ UNCHANGED <<speaker, entryUp, heardTo, frames, accepted>>
\* run_inference: the model may fail or hear nothing.
Infer ==
  /\ scribe \in {"infer", "last"}
  /\ scribe' = IF scribe = "last" THEN "gone" ELSE "run"
  /\ cues' \in {cues, Append(cues, Caption)}
  /\ window' = NoWindow /\ spent' = spent \cup {window.pcm[i] : i \in DOMAIN window.pcm}
  /\ UNCHANGED <<speaker, entryUp, heardTo, frames, accepted>>

\* mutant: what is left in the window is given up
ScribeEndsNow ==
  /\ scribe = "run" /\ frames = <<>> /\ speaker \notin {"run", "mute"} /\ scribe' = "gone"
  /\ UNCHANGED <<speaker, entryUp, heardTo, frames, window, cues, accepted, spent>>
\* The queue is empty and its sender gone: a last pass over what is left.
ScribeEnds ==
  /\ scribe = "run" /\ frames = <<>> /\ speaker \notin {"run", "mute"}
  /\ scribe' = IF window.pcm # <<>> THEN "last" ELSE "gone"
  /\ UNCHANGED <<speaker, entryUp, heardTo, frames, window, cues, accepted, spent>>

SpeechNext ==
  \/ OnStart \/ OnFragment \/ OnStop \/ JoinScribe \/ RemoveEntry \/ Republish
  \/ ScribeTakes \/ Infer \/ ScribeEnds

-----------------------------------------------------------------------------
(* Properties.                                                             *)

\* When on_stop returns, every frame the queue took has been through the model
\* or could not be decoded: the last window is not lost.
NoneUnheard == speaker = "done" => accepted \subseteq spent

\* Every caption was published while its track was in the registry, where a
\* playlist's drain can still see it.
CuesReachTheTrack == \A i \in DOMAIN cues : cues[i].listed

\* A caption is timed from a frame no later than the speech it holds, and later
\* than everything the captions before it hold.
CuesTimed ==
  \A i \in DOMAIN cues :
    /\ \A j \in DOMAIN cues[i].of : cues[i].start <= cues[i].of[j]
    /\ \A h \in 1..(i - 1) : \A j \in DOMAIN cues[h].of : cues[h].of[j] < cues[i].start

SpeechInv == NoneUnheard /\ CuesReachTheTrack /\ CuesTimed
=============================================================================
