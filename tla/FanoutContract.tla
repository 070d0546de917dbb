--------------------------- MODULE FanoutContract ---------------------------
(***************************************************************************)
(* What a FragmentBroadcaster promises a subscriber, with the ring buffer, *)
(* the reference counts and the counters abstracted away                   *)
(* (crates/lvqr-fragment/src/broadcaster.rs, module documentation).        *)
(*                                                                         *)
(* A subscriber walks forward through the fragments accepted after it      *)
(* joined.  It may be made to skip some of them, every skip is accounted   *)
(* for, and the end of the stream is reported only when the producer side  *)
(* is gone and nothing is left to read.                                    *)
(***************************************************************************)
EXTENDS Integers

CONSTANTS Subs      \* subscriber identities

VARIABLES open,     \* some producer-side handle is alive
          sent,     \* fragments accepted by the channel
          phase,    \* "off" -> "on" -> "ended" or "gone"
          pos,      \* fragments of the channel this subscriber is past
          lost      \* how many of those it was made to skip

cvars == <<open, sent, phase, pos, lost>>

CInit ==
  /\ open = TRUE
  /\ sent = 0
  /\ phase = [s \in Subs |-> "off"]
  /\ pos = [s \in Subs |-> 0]
  /\ lost = [s \in Subs |-> 0]

Accept ==
  /\ open
  /\ sent' = sent + 1
  /\ UNCHANGED <<open, phase, pos, lost>>

Shut ==
  /\ open
  /\ open' = FALSE
  /\ UNCHANGED <<sent, phase, pos, lost>>

Join(s) ==
  /\ open /\ phase[s] = "off"
  /\ phase' = [phase EXCEPT ![s] = "on"]
  /\ pos' = [pos EXCEPT ![s] = sent]
  /\ UNCHANGED <<open, sent, lost>>

Deliver(s) ==
  /\ phase[s] = "on" /\ pos[s] < sent
  /\ pos' = [pos EXCEPT ![s] = @ + 1]
  /\ UNCHANGED <<open, sent, phase, lost>>

\* A skip never reaches the newest fragment: something is left to deliver.
Skip(s) ==
  /\ phase[s] = "on"
  /\ \E n \in (pos[s] + 1)..(sent - 1) :
       /\ pos' = [pos EXCEPT ![s] = n]
       /\ lost' = [lost EXCEPT ![s] = @ + (n - pos[s])]
  /\ UNCHANGED <<open, sent, phase>>

End(s) ==
  /\ phase[s] = "on" /\ ~open /\ pos[s] = sent
  /\ phase' = [phase EXCEPT ![s] = "ended"]
  /\ UNCHANGED <<open, sent, pos, lost>>

Leave(s) ==
  /\ phase[s] \in {"on", "ended"}
  /\ phase' = [phase EXCEPT ![s] = "gone"]
  /\ UNCHANGED <<open, sent, pos, lost>>

CNext ==
  \/ Accept \/ Shut
  \/ \E s \in Subs : Join(s) \/ Deliver(s) \/ Skip(s) \/ End(s) \/ Leave(s)

CSpec == CInit /\ [][CNext]_cvars
=============================================================================
