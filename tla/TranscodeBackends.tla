------------------------- MODULE TranscodeBackends --------------------------
(***************************************************************************)
(* The transcoders: the worker that every encoder has, and the encoders.   *)
(***************************************************************************)
EXTENDS Naturals, Sequences
-----------------------------------------------------------------------------
(***************************************************************************)
(* One transcoder of the ladder (crates/lvqr-transcode): a drain task      *)
(* hands fragments over a bounded channel to a worker thread, which feeds  *)
(* an encoder pipeline whose callback emits the output.  The drain joins   *)
(* the thread when its source ends, and when it is aborted.  What the six  *)
(* encoders have in common is here, as software.rs has it; who differs     *)
(* where is below.                                                         *)
(*                                                                         *)
(* The pipeline is external: it takes buffers while it plays, finds        *)
(* nothing to decode in them unless it was given an init segment first,    *)
(* gives back a header and then what it took in order, and answers an end  *)
(* of stream, fails or hangs.                                              *)
(***************************************************************************)

CONSTANTS
  Depth,      \* WORKER_QUEUE_DEPTH (64)
  Inputs      \* bound: fragments of the source

ASSUME WorkerAssumption == {Depth, Inputs} \subseteq Nat \ {0}

VARIABLES
  feed,       \* fragments the drain has taken from its source
  drain,      \* the drain task: idle, refused, start, run, join (inside shutdown) or ended
  sender,     \* does the drain hold the sending end
  chan,       \* the channel
  thread,     \* the worker: none, start, recv, drain (wait_for_drain) or exited
  encoder,    \* the pipeline: Null, or what it holds, whether it had a header, how it is
  emitted,    \* history: fragments emitted to the output broadcaster
  lost,       \* history: fragments dropped at a full channel, and whether the pipeline failed
  init,       \* is an init segment known: of the source, to the transcoder, of the output
  backend     \* the encoder, and the element this host has not installed

worker == <<feed, drain, sender, chan, thread, encoder, emitted, lost, init, backend>>

Null == [at |-> "null", holds |-> <<>>, primed |-> FALSE]

-----------------------------------------------------------------------------
(* The source and the drain task.                                          *)

\* The source announces its init segment: after its creation, which called the
\* runner back, and before its first fragment.
SourceInit ==
  /\ ~init.source /\ drain # "refused"
  /\ init' = [init EXCEPT !.source = TRUE]
  /\ UNCHANGED <<feed, drain, sender, chan, thread, encoder, emitted, lost, backend>>

\* mutant: a missing element is not looked at
BuildAnyway(required) ==
  /\ drain = "idle"
  /\ drain' = "start"
  /\ UNCHANGED <<feed, sender, chan, thread, encoder, emitted, lost, init, backend>>
\* The factory probes the elements it requires, and builds a transcoder only
\* if all of them are installed.
Build(required) ==
  /\ drain = "idle"
  /\ drain' = IF backend.missing \in required THEN "refused" ELSE "start"
  /\ UNCHANGED <<feed, sender, chan, thread, encoder, emitted, lost, init, backend>>

\* on_start: the init segment of the refreshed meta is taken, the pipeline
\* built and the thread spawned.
WorkerSpawn ==
  /\ drain = "start"
  /\ drain' = "run" /\ sender' = TRUE /\ thread' = "start"
  /\ init' = [init EXCEPT !.known = init.source]
  /\ lost' = [lost EXCEPT !.broken = @ \/ ~init.source]
  /\ UNCHANGED <<feed, chan, encoder, emitted, backend>>

\* The pipeline cannot be built, or the thread not be spawned: the transcoder
\* has no worker and drops every fragment.
WorkerSpawnFails ==
  /\ drain = "start"
  /\ drain' = "run" /\ lost' = [lost EXCEPT !.broken = TRUE]
  /\ UNCHANGED <<feed, sender, chan, thread, encoder, emitted, init, backend>>

\* mutant: the channel has no bound
PushUnbounded ==
  /\ drain = "run" /\ init.source /\ feed < Inputs
  /\ feed' = feed + 1
  /\ chan' = IF sender /\ thread # "exited" THEN Append(chan, feed + 1) ELSE chan
  /\ UNCHANGED <<drain, sender, thread, encoder, emitted, lost, init, backend>>
\* on_fragment: try_send.  A full channel costs the fragment; a worker that has
\* left, too.
Push ==
  /\ drain = "run" /\ init.source /\ feed < Inputs
  /\ feed' = feed + 1
  /\ IF ~sender \/ thread = "exited" THEN UNCHANGED <<chan, lost>>
     ELSE IF Len(chan) < Depth THEN chan' = Append(chan, feed + 1) /\ UNCHANGED lost
     ELSE lost' = [lost EXCEPT !.full = @ \cup {feed + 1}] /\ UNCHANGED chan
  /\ UNCHANGED <<drain, sender, thread, encoder, emitted, init, backend>>

\* mutant: the thread is joined before the sender is dropped
ShutdownJoinFirst ==
  /\ drain = "run"
  /\ drain' = "join"
  /\ UNCHANGED <<feed, sender, chan, thread, encoder, emitted, lost, init, backend>>
\* on_stop when the source has ended, or Drop when the task is aborted between
\* two fragments: the sender is dropped, then the thread joined.
WorkerShutdown ==
  /\ drain = "run"
  /\ drain' = "join" /\ sender' = FALSE
  /\ UNCHANGED <<feed, chan, thread, encoder, emitted, lost, init, backend>>

\* mutant: the drain does not wait for its thread
JoinNot ==
  /\ drain = "join"
  /\ drain' = "ended"
  /\ UNCHANGED <<feed, sender, chan, thread, encoder, emitted, lost, init, backend>>
Join ==
  /\ drain = "join" /\ thread \in {"none", "exited"}
  /\ drain' = "ended"
  /\ UNCHANGED <<feed, sender, chan, thread, encoder, emitted, lost, init, backend>>

-----------------------------------------------------------------------------
(* run_worker.                                                             *)

\* mutant: the header is not given to the pipeline
PipelinePlaysBare ==
  /\ thread = "start"
  /\ thread' = "recv" /\ encoder' = [Null EXCEPT !.at = "plays"]
  /\ UNCHANGED <<feed, drain, sender, chan, emitted, lost, init, backend>>
\* The pipeline plays, and is given the init segment if one is known.
PipelinePlays ==
  /\ thread = "start"
  /\ thread' = "recv" /\ encoder' = [Null EXCEPT !.at = "plays", !.primed = init.known]
  /\ UNCHANGED <<feed, drain, sender, chan, emitted, lost, init, backend>>

\* Refused: the worker returns, and the receiving end goes with it.
PipelineRefuses ==
  /\ thread = "start"
  /\ thread' = "exited" /\ chan' = <<>> /\ lost' = [lost EXCEPT !.broken = TRUE]
  /\ UNCHANGED <<feed, drain, sender, encoder, emitted, init, backend>>

Recv ==
  /\ thread = "recv" /\ chan # <<>> /\ encoder.at = "plays"
  /\ chan' = Tail(chan)
  /\ encoder' = [encoder EXCEPT !.holds = IF encoder.primed THEN Append(@, Head(chan)) ELSE @]
  /\ UNCHANGED <<feed, drain, sender, thread, emitted, lost, init, backend>>

\* push_buffer is refused: the loop is left with the rest of the channel unread.
RecvRefused ==
  /\ thread = "recv" /\ chan # <<>> /\ encoder.at = "failed"
  /\ chan' = Tail(chan)
  /\ thread' = "drain"
  /\ UNCHANGED <<feed, drain, sender, encoder, emitted, lost, init, backend>>

\* mutant: the loop ends with the sender, whatever is in the channel
EndOfStreamEarly ==
  /\ thread = "recv" /\ ~sender
  /\ thread' = "drain"
  /\ encoder' = IF encoder.at = "plays" THEN [encoder EXCEPT !.at = "eos"] ELSE encoder
  /\ UNCHANGED <<feed, drain, sender, chan, emitted, lost, init, backend>>
\* The sender is gone and the channel empty: end of stream.
EndOfStream ==
  /\ thread = "recv" /\ chan = <<>> /\ ~sender
  /\ thread' = "drain"
  /\ encoder' = IF encoder.at = "plays" THEN [encoder EXCEPT !.at = "eos"] ELSE encoder
  /\ UNCHANGED <<feed, drain, sender, chan, emitted, lost, init, backend>>

\* wait_for_drain saw the end of stream or an error, or gave up after
\* SHUTDOWN_TIMEOUT: the pipeline is set to Null and the thread ends.
WorkerExit ==
  /\ thread = "drain"
  /\ lost' = [lost EXCEPT !.broken = @ \/ encoder.holds # <<>> \/ encoder.at = "failed"]
  /\ thread' = "exited" /\ chan' = <<>> /\ encoder' = Null
  /\ UNCHANGED <<feed, drain, sender, emitted, init, backend>>

RunWorker == PipelinePlays \/ PipelineRefuses \/ Recv \/ RecvRefused \/ EndOfStream \/ WorkerExit

-----------------------------------------------------------------------------
(* The callback of the pipeline's last element, on a thread of the         *)
(* pipeline.                                                               *)

Gives == encoder.holds # <<>> /\ encoder.at \in {"plays", "eos"}

\* mutant: the header goes out as a fragment
HeaderEmitted ==
  /\ Gives /\ ~init.output
  /\ init' = [init EXCEPT !.output = TRUE] /\ emitted' = Append(emitted, 0)
  /\ UNCHANGED <<feed, drain, sender, chan, thread, encoder, lost, backend>>
\* The buffer is a header: the init segment of the output.
OutputHeader ==
  /\ Gives /\ ~init.output
  /\ init' = [init EXCEPT !.output = TRUE]
  /\ UNCHANGED <<feed, drain, sender, chan, thread, encoder, emitted, lost, backend>>

\* Any other buffer: the next fragment of the output.
OutputFragment ==
  /\ Gives /\ init.output
  /\ emitted' = Append(emitted, Head(encoder.holds))
  /\ encoder' = [encoder EXCEPT !.holds = Tail(@)]
  /\ UNCHANGED <<feed, drain, sender, chan, thread, lost, init, backend>>

Output == OutputHeader \/ OutputFragment

PipelineFails ==
  /\ encoder.at \in {"plays", "eos"}
  /\ encoder' = [encoder EXCEPT !.at = "failed", !.holds = <<>>]
  /\ lost' = [lost EXCEPT !.broken = TRUE]
  /\ UNCHANGED <<feed, drain, sender, chan, thread, emitted, init, backend>>

-----------------------------------------------------------------------------
(* Properties.                                                             *)

WorkerTypeOK ==
  /\ feed \in 0..Inputs /\ sender \in BOOLEAN
  /\ drain \in {"idle", "refused", "start", "run", "join", "ended"}
  /\ Len(chan) <= Depth
  /\ thread \in {"none", "start", "recv", "drain", "exited"}
  /\ encoder.at \in {"null", "plays", "eos", "failed"}
  /\ lost \in [full : SUBSET (1..Inputs), broken : BOOLEAN]
  /\ init \in [source : BOOLEAN, known : BOOLEAN, output : BOOLEAN]

\* The output of a transcoder that has ended is the source in order, without
\* what a full channel cost: nothing that was accepted is lost at the end of
\* the source, unless the pipeline failed or did not drain in time, or the
\* source had no init segment when the transcoder started.
OutputIsInput ==
  drain = "ended" /\ ~lost.broken =>
    /\ \A i, j \in DOMAIN emitted : i < j => emitted[i] < emitted[j]
    /\ {emitted[i] : i \in DOMAIN emitted} = (1..feed) \ lost.full

\* Once the drain has ended, its pipeline is torn down and emits nothing to an
\* output that its successor may write ("the transcoder is the single owner of
\* the worker"; "so the pipeline's GStreamer streaming threads aren't leaked").
NoOutputAfterEnd == drain = "ended" => encoder = Null /\ thread \in {"none", "exited"}

\* The drain that shuts its worker down ends, also with a full channel and a
\* pipeline that failed: nobody waits for the other.
ShutdownReturns == drain = "join" ~> drain = "ended"
-----------------------------------------------------------------------------
(***************************************************************************)
(* The six encoders of crates/lvqr-transcode: x264 in software, VA-API,    *)
(* Quick Sync, NVENC and VideoToolbox for the video of a rendition, and    *)
(* AAC to Opus for the audio of a WebRTC viewer.  Each file repeats the    *)
(* worker above with a list of elements its factory probes, a pipeline    *)
(* that names elements, and an output of its own.  Two that need           *)
(* no worker forward what they are given: the audio of a rendition, and    *)
(* the observing pass-through.                                             *)
(***************************************************************************)

Nothing == "nothing"       \* the element missing on a host that has them all

\* A video pipeline decodes, scales, encodes and muxes; `encode` is its encoder.
VideoPipeline(encode) ==
  <<"appsrc", "qtdemux", "h264parse", "avdec_h264", "videoscale", "videoconvert",
    encode, "h264parse", "mp4mux", "appsink">>
Names(pipeline) == {pipeline[i] : i \in DOMAIN pipeline}
Decoding == {"appsrc", "qtdemux", "h264parse", "avdec_h264", "videoscale", "videoconvert"}
Muxing == {"mp4mux", "appsink"}

\* What a backend does from the probe of its elements to its exit: the factory
\* builds, on_start spawns, on_fragment pushes, on_stop or Drop shuts down.
Transcoder(pipeline) ==
  \/ backend.missing \notin Names(pipeline) /\ WorkerSpawn
  \/ WorkerSpawnFails
  \/ WorkerShutdown
Handle == Push \/ Join

-----------------------------------------------------------------------------
(* software.rs                                                               *)

SoftwareElements == Decoding \cup {"x264enc"} \cup Muxing
SoftwarePipeline == VideoPipeline("x264enc")
SoftwareFactory == backend.name = "software" /\ Build(SoftwareElements)
SoftwareTranscoder == backend.name = "software" /\ Transcoder(SoftwarePipeline)
SoftwareHandle == backend.name = "software" /\ Handle
SoftwareWorker == backend.name = "software" /\ RunWorker
SoftwareOutput == backend.name = "software" /\ Output
SoftwareNext ==
  SoftwareFactory \/ SoftwareTranscoder \/ SoftwareHandle \/ SoftwareWorker \/ SoftwareOutput

-----------------------------------------------------------------------------
(* vaapi.rs                                                                  *)

VaapiElements == Decoding \cup {"vah264enc"} \cup Muxing
VaapiPipeline == VideoPipeline("vah264enc")
VaapiFactory == backend.name = "vaapi" /\ Build(VaapiElements)
VaapiTranscoder == backend.name = "vaapi" /\ Transcoder(VaapiPipeline)
VaapiHandle == backend.name = "vaapi" /\ Handle
VaapiWorker == backend.name = "vaapi" /\ RunWorker
VaapiOutput == backend.name = "vaapi" /\ Output
VaapiNext ==
  VaapiFactory \/ VaapiTranscoder \/ VaapiHandle \/ VaapiWorker \/ VaapiOutput

-----------------------------------------------------------------------------
(* qsv.rs                                                                    *)

QsvElements == Decoding \cup {"qsvh264enc"} \cup Muxing
QsvPipeline == VideoPipeline("qsvh264enc")
QsvFactory == backend.name = "qsv" /\ Build(QsvElements)
QsvTranscoder == backend.name = "qsv" /\ Transcoder(QsvPipeline)
QsvHandle == backend.name = "qsv" /\ Handle
QsvWorker == backend.name = "qsv" /\ RunWorker
QsvOutput == backend.name = "qsv" /\ Output
QsvNext ==
  QsvFactory \/ QsvTranscoder \/ QsvHandle \/ QsvWorker \/ QsvOutput

-----------------------------------------------------------------------------
(* nvenc.rs                                                                  *)

\* mutant: the list of probed elements lacks the encoder
NvencElementsShort == Decoding \cup Muxing
NvencElements == Decoding \cup {"nvh264enc"} \cup Muxing
NvencPipeline == VideoPipeline("nvh264enc")
NvencFactory == backend.name = "nvenc" /\ Build(NvencElements)
NvencTranscoder == backend.name = "nvenc" /\ Transcoder(NvencPipeline)
NvencHandle == backend.name = "nvenc" /\ Handle
NvencWorker == backend.name = "nvenc" /\ RunWorker
NvencOutput == backend.name = "nvenc" /\ Output
NvencNext ==
  NvencFactory \/ NvencTranscoder \/ NvencHandle \/ NvencWorker \/ NvencOutput

-----------------------------------------------------------------------------
(* videotoolbox.rs                                                           *)

VideoToolboxElements == Decoding \cup {"vtenc_h264_hw"} \cup Muxing
VideoToolboxPipeline == VideoPipeline("vtenc_h264_hw")
VideoToolboxFactory == backend.name = "videotoolbox" /\ Build(VideoToolboxElements)
VideoToolboxTranscoder == backend.name = "videotoolbox" /\ Transcoder(VideoToolboxPipeline)
VideoToolboxHandle == backend.name = "videotoolbox" /\ Handle
VideoToolboxWorker == backend.name = "videotoolbox" /\ RunWorker
VideoToolboxOutput == backend.name = "videotoolbox" /\ Output
VideoToolboxNext ==
  VideoToolboxFactory \/ VideoToolboxTranscoder \/ VideoToolboxHandle \/ VideoToolboxWorker \/ VideoToolboxOutput

-----------------------------------------------------------------------------
(* aac_opus.rs: one encoder per WebRTC viewer, of the session's loop.      *)

AacElements ==
  {"appsrc", "aacparse", "avdec_aac", "audioconvert", "audioresample", "opusenc", "appsink"}
AacPipeline ==
  <<"appsrc", "aacparse", "avdec_aac", "audioconvert", "audioresample", "opusenc", "appsink">>
AacFactory == backend.name = "aac_opus" /\ Build(AacElements)

\* build: the encoder is spawned at once, and a failure leaves the session
\* without one.
AacSpawn ==
  /\ backend.name = "aac_opus" /\ drain = "start"
  /\ \/ backend.missing \notin Names(AacPipeline) /\ WorkerSpawn
     \/ drain' = "refused"
        /\ UNCHANGED <<feed, sender, chan, thread, encoder, emitted, lost, init, backend>>
\* push, and Drop when the session ends.
AacEncoder == backend.name = "aac_opus" /\ (Push \/ WorkerShutdown \/ Join)

\* Every access unit is wrapped into an ADTS frame of its own.
AacWorker == backend.name = "aac_opus" /\ RunWorker

\* The Opus header is skipped, a packet is sent to the session.  A session that
\* has ended receives nothing, and the pipeline is told to end.
AacOutput ==
  /\ backend.name = "aac_opus"
  /\ Output \/ (Gives /\ drain = "join" /\ PipelineFails)

AacNext == AacFactory \/ AacSpawn \/ AacEncoder \/ AacWorker \/ AacOutput

\* mutant: two bits of the length are lost between the bytes
WrapAdtsShort(len) ==
  LET total == len + 7
  IN  <<(total \div 2048) % 4, (total \div 16) % 256, (total % 8) * 32 + 31>>
\* wrap_adts: the 13 bits of the frame length lie across the low bits of byte 3,
\* byte 4 and the high bits of byte 5.
WrapAdts(len) ==
  LET total == len + 7
  IN  <<(total \div 2048) % 4, (total \div 8) % 256, (total % 8) * 32 + 31>>
\* What a reader of the header (aacparse) takes the frame's length to be.
FrameLength(header) == header[1] * 2048 + header[2] * 8 + header[3] \div 32

-----------------------------------------------------------------------------
(* audio_passthrough.rs and passthrough.rs: no worker.                     *)

Forwarders == {"audio_passthrough", "passthrough"}

\* on_start copies the init segment of the refreshed meta to the output.
ForwarderStart ==
  /\ backend.name \in Forwarders /\ drain = "idle"
  /\ drain' = "run"
  /\ init' = [init EXCEPT !.known = init.source, !.output = init.source]
  /\ lost' = [lost EXCEPT !.broken = ~init.source]
  /\ UNCHANGED <<feed, sender, chan, thread, encoder, emitted, backend>>

\* mutant: nothing is forwarded before the output has its init segment
ForwardLate ==
  /\ backend.name = "audio_passthrough" /\ drain = "run" /\ init.source /\ feed < Inputs
  /\ feed' = feed + 1
  /\ emitted' = IF feed = 0 THEN emitted ELSE Append(emitted, feed + 1)
  /\ UNCHANGED <<drain, sender, chan, thread, encoder, lost, init, backend>>
AudioForward ==
  /\ backend.name = "audio_passthrough" /\ drain = "run" /\ init.source /\ feed < Inputs
  /\ feed' = feed + 1 /\ emitted' = Append(emitted, feed + 1)
  /\ UNCHANGED <<drain, sender, chan, thread, encoder, lost, init, backend>>

\* The observing transcoder counts and has no output.
Observe ==
  /\ backend.name = "passthrough" /\ drain = "run" /\ init.source /\ feed < Inputs
  /\ feed' = feed + 1
  /\ UNCHANGED <<drain, sender, chan, thread, encoder, emitted, lost, init, backend>>

ForwarderStop ==
  /\ backend.name \in Forwarders /\ drain = "run"
  /\ drain' = "ended"
  /\ UNCHANGED <<feed, sender, chan, thread, encoder, emitted, lost, init, backend>>

-----------------------------------------------------------------------------
Pipelines ==
  [software |-> SoftwarePipeline, vaapi |-> VaapiPipeline, qsv |-> QsvPipeline,
   nvenc |-> NvencPipeline, videotoolbox |-> VideoToolboxPipeline, aac_opus |-> AacPipeline,
   audio_passthrough |-> <<>>, passthrough |-> <<>>]

\* A host misses nothing, or an element that the backend's pipeline names.
WorkerInit ==
  /\ feed = 0 /\ drain = "idle" /\ sender = FALSE /\ chan = <<>> /\ thread = "none"
  /\ encoder = Null /\ emitted = <<>> /\ lost = [full |-> {}, broken |-> FALSE]
  /\ \E b \in DOMAIN Pipelines : \E e \in Names(Pipelines[b]) \cup {Nothing} :
       backend = [name |-> b, missing |-> e]
  /\ init = [source |-> backend.name = "aac_opus", known |-> FALSE, output |-> FALSE]

WorkerNext ==
  \/ SourceInit
  \/ SoftwareNext \/ VaapiNext \/ QsvNext \/ NvencNext \/ VideoToolboxNext \/ AacNext
  \/ PipelineFails
  \/ ForwarderStart \/ AudioForward \/ Observe \/ ForwarderStop

-----------------------------------------------------------------------------
(* Properties.                                                             *)

\* A transcoder is built only on a host with every element its pipeline names:
\* each backend's list of required elements covers its pipeline description, so
\* an encoder that is missing makes the factory decline and never fails at the
\* first publication ("missing elements cause the factory to opt out").
ProbeCoversPipeline ==
  drain \notin {"idle", "refused"} => backend.missing \notin Names(Pipelines[backend.name])

\* Lengths of access units at the carries between the header's bytes.
AuLengths == {1, 8, 9, 248, 249, 250, 2040, 2041, 2042, 8184}

\* The parser that cuts the stream of ADTS frames back into access units finds
\* the lengths that wrap_adts wrote, up to the 13 bits the header has.
AdtsFramed == drain = "idle" => \A n \in AuLengths : FrameLength(WrapAdts(n)) = n + 7

\* An encoder's output has its init segment before its first fragment
\* (attach_output_callback).
OutputHasInit == emitted # <<>> /\ ~lost.broken => init.output

\* The worker and its bounded channel are well-typed, what was accepted comes
\* out in order and after its init segment, and nothing comes out after the
\* end (on_stop, Drop), whichever encoder it is.
WorkerInv ==
  /\ WorkerTypeOK /\ (OutputIsInput \/ backend.name = "passthrough")
  /\ NoOutputAfterEnd /\ ProbeCoversPipeline /\ AdtsFramed /\ OutputHasInit
=============================================================================
