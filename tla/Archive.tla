------------------------------ MODULE Archive -------------------------------
(***************************************************************************)
(* The DVR archive of one track: the drain tasks of                        *)
(* crates/lvqr-cli/src/archive.rs, the files that                          *)
(* crates/lvqr-archive/src/writer.rs writes, the index of                  *)
(* crates/lvqr-archive/src/index.rs and the signed asset made when a drain *)
(* ends (archive.rs, crates/lvqr-archive/src/provenance.rs).               *)
(*                                                                         *)
(* A drain hands every fragment to a blocking task that nobody awaits: it  *)
(* writes the file and then the row, in any order with its siblings.  File *)
(* numbers restart with every publication of the name, so publications     *)
(* share files, and the drain of one may run while the next one's does.    *)
(* Files and rows survive a crash of the process; drains and blocking      *)
(* tasks do not.  A write truncates the file before it fills it.           *)
(*                                                                         *)
(* Fragment k of a publication has the decode time k * Period and is known *)
(* as <<publication, decode time>>.                                        *)
(***************************************************************************)
EXTENDS Naturals, FiniteSets, Sequences, SequencesExt

CONSTANTS
  Recordings,   \* publications of the name, 1..n in the order they start
  Fragments,    \* bound: fragments of one publication
  Kept,         \* bound: fragments stored by all publications together
  Period,       \* decode time from one fragment to the next
  Lengths,      \* durations a fragment may have
  Signing,      \* does the server have a C2PA configuration
  MaxCrashes    \* bound

ASSUME ArchiveAssumption ==
  /\ Recordings \subseteq Nat \ {0} /\ Lengths \subseteq Nat \ {0} /\ Signing \in BOOLEAN
  /\ {Fragments, Kept, Period, MaxCrashes} \subseteq Nat

VARIABLES
  tap,        \* publication -> its drain
  writes,     \* blocking tasks of write_segment and record
  files,      \* file number -> the fragment in it, or how it is not one
  rows,       \* decode time -> the row of the index
  initFile,   \* is there an init.mp4
  signed,     \* finalized.mp4 and finalized.c2pa
  crashes     \* crashes so far

archive == <<tap, writes, files, rows, initFile, signed, crashes>>

Missing == <<>>
Torn == <<0>>
Numbers == 1..Fragments
NewTap == [at |-> "new", read |-> 0, seq |-> 0, init |-> FALSE, list |-> <<>>]
Unsigned == [asset |-> <<>>, manifest |-> <<>>]

ArchiveInit ==
  /\ tap = [p \in Recordings |-> NewTap]
  /\ writes = {} /\ rows = <<>>
  /\ files = [n \in Numbers |-> Missing]
  /\ initFile = FALSE /\ signed = Unsigned /\ crashes = 0

Times == {k * Period : k \in 1..Fragments}
Recorded == Recordings \X Times
ArchiveTypeOK ==
  /\ \A p \in Recordings :
       /\ tap[p].at \in {"new", "read", "init", "keep", "end", "list", "sign", "seal", "done"}
       /\ tap[p].read \in 0..Fragments /\ tap[p].seq \in 0..Fragments
  /\ \A w \in writes : w.at \in {"open", "fill", "record"} /\ w.seq \in Numbers
  /\ \A n \in Numbers : files[n] \in Recorded \cup {Missing, Torn}
  /\ \A d \in DOMAIN rows : rows[d].end > d /\ rows[d].seq \in Numbers
  /\ initFile \in BOOLEAN /\ crashes \in 0..MaxCrashes
-----------------------------------------------------------------------------
(* The index. *)

\* decode times in the order of their keys
Ordered(dts) ==
  CHOOSE s \in [1..Cardinality(dts) -> dts] : \A j, k \in DOMAIN s : j < k => s[j] < s[k]

\* mutant: a row that ends where the query starts
LeadingTouching(from) ==
  LET before == {d \in DOMAIN rows : d < from}
  IN IF before # {} /\ rows[Max(before)].end >= from THEN {Max(before)} ELSE {}

\* the last row that starts before the query, if it reaches into it
Leading(from) ==
  LET before == {d \in DOMAIN rows : d < from}
  IN IF before # {} /\ rows[Max(before)].end > from THEN {Max(before)} ELSE {}

\* find_range, as the decode times of the rows it returns
find_range(from, to) ==
  IF to <= from THEN <<>> ELSE Ordered(Leading(from) \cup {d \in DOMAIN rows : from <= d /\ d < to})
-----------------------------------------------------------------------------
(* The drain. *)

Tap(p, t) == tap' = [tap EXCEPT ![p] = t]
Over(p) == [NewTap EXCEPT !.at = "done", !.seq = tap[p].seq]
disk == <<files, rows, initFile, signed, crashes>>

\* on_entry_created, for a publication that follows the last one
Install(p) ==
  /\ tap[p].at = "new" /\ \A q \in Recordings : q < p => tap[q].at # "new"
  /\ Tap(p, [tap[p] EXCEPT !.at = "read"])
  /\ UNCHANGED <<writes, disk>>

\* Fragments the drain was too slow for are skipped by its subscription.
Lagged(p) ==
  /\ tap[p].at = "read" /\ tap[p].read < Fragments
  /\ Tap(p, [tap[p] EXCEPT !.read = @ + 1])
  /\ UNCHANGED <<writes, disk>>

\* The broadcaster has an init by now that is not persisted.
NextFragment(p) ==
  /\ tap[p].at = "read" /\ tap[p].read < Fragments /\ ~ tap[p].init
  /\ Tap(p, [tap[p] EXCEPT !.read = @ + 1, !.at = "init"])
  /\ UNCHANGED <<writes, disk>>

\* write_init, awaited; tried again with the next fragment when it fails,
\* before or after the file was made
WriteInit(p, ok) ==
  /\ tap[p].at = "init"
  /\ initFile' \in IF ok THEN {TRUE} ELSE {initFile, TRUE}
  /\ Tap(p, [tap[p] EXCEPT !.at = "keep", !.init = ok])
  /\ UNCHANGED <<writes, files, rows, signed, crashes>>

\* A fragment is at hand: the one the init was written for, or the next one
\* of a drain that has nothing to write before it.
AtHand(p) == tap[p].at = "keep" \/ (tap[p].at = "read" /\ tap[p].read < Fragments)
Number(p) == IF tap[p].at = "keep" THEN tap[p].read ELSE tap[p].read + 1

\* A fragment without duration is passed over.
PassOver(p) ==
  /\ AtHand(p)
  /\ Tap(p, [tap[p] EXCEPT !.at = "read", !.read = Number(p)])
  /\ UNCHANGED <<writes, disk>>

\* spawn_blocking
Keep(p, duration) ==
  /\ AtHand(p) /\ FoldFunction(LAMBDA t, n : t.seq + n, 0, tap) < Kept
  /\ Tap(p, [tap[p] EXCEPT !.at = "read", !.read = Number(p), !.seq = @ + 1])
  /\ writes' = writes \cup {[at |-> "open", pub |-> p, seq |-> tap[p].seq + 1, mixed |-> FALSE,
                             dts |-> Number(p) * Period, end |-> Number(p) * Period + duration]}
  /\ UNCHANGED disk

\* The producers are gone: the drain ends, with or without an asset to sign.
Finish(p) ==
  /\ tap[p].at = "read"
  /\ Tap(p, IF Signing THEN [Over(p) EXCEPT !.at = "end"] ELSE Over(p))
  /\ UNCHANGED <<writes, disk>>
-----------------------------------------------------------------------------
(* A blocking task. *)

Content(w) == <<w.pub, w.dts>>
Becomes(w, at) == (writes \ {w}) \cup {[w EXCEPT !.at = at]}

\* create and truncate
OpenFile(w) ==
  /\ w.at = "open"
  /\ files' = [files EXCEPT ![w.seq] = Torn]
  /\ writes' = Becomes(w, "fill")
  /\ UNCHANGED <<tap, rows, initFile, signed, crashes>>

\* The bytes go in.  Over those that another task has put there meanwhile they
\* may leave a mixture.
FillFile(w, result) ==
  /\ w.at = "fill" /\ result \in {Content(w)} \cup (IF w.mixed THEN {Torn} ELSE {})
  /\ files' = [files EXCEPT ![w.seq] = result]
  /\ writes' = {IF v # w /\ v.seq = w.seq /\ v.at = "fill" THEN [v EXCEPT !.mixed = TRUE] ELSE v :
                v \in Becomes(w, "record")}
  /\ UNCHANGED <<tap, rows, initFile, signed, crashes>>

\* A full disk, a missing permission, a failed commit: the task gives up.
GiveUp(w) ==
  /\ writes' = writes \ {w}
  /\ UNCHANGED <<tap, disk>>

Row(w) == [seq |-> w.seq, pub |-> w.pub, end |-> w.end]
WithRow(d, row) == [e \in DOMAIN rows \cup {d} |-> IF e = d THEN row ELSE rows[e]]

\* mutant: the row first
RecordEarly(w) ==
  /\ w.at # "open"
  /\ rows' = WithRow(w.dts, Row(w))
  /\ writes' = IF w.at = "record" THEN writes \ {w} ELSE writes
  /\ UNCHANGED <<tap, files, initFile, signed, crashes>>

\* one transaction
Record(w) ==
  /\ w.at = "record"
  /\ rows' = WithRow(w.dts, Row(w))
  /\ writes' = writes \ {w}
  /\ UNCHANGED <<tap, files, initFile, signed, crashes>>

Blocking(w) ==
  \/ OpenFile(w) \/ Record(w) \/ GiveUp(w)
  \/ \E result \in {Content(w), Torn} : FillFile(w, result)
-----------------------------------------------------------------------------
(* finalize_c2pa. *)

\* No init, or no row: nothing is signed.
ListRows(p) ==
  /\ tap[p].at = "end"
  /\ LET found == find_range(0, Max(Times) + 1) IN
     Tap(p, IF ~ initFile \/ found = <<>> THEN Over(p)
            ELSE [tap[p] EXCEPT !.at = "list", !.list = [k \in DOMAIN found |-> rows[found[k]].seq]])
  /\ UNCHANGED <<writes, disk>>

\* concat_assets: the files as they are by then
Concat(p) ==
  /\ tap[p].at = "list"
  /\ Tap(p, [tap[p] EXCEPT !.at = "sign", !.list = [k \in DOMAIN @ |-> files[@[k]]]])
  /\ UNCHANGED <<writes, disk>>

\* mutant: the manifest first
WriteAssetLate(p) ==
  /\ tap[p].at = "sign"
  /\ signed' = [signed EXCEPT !.manifest = tap[p].list]
  /\ Tap(p, [tap[p] EXCEPT !.at = "seal"])
  /\ UNCHANGED <<writes, files, rows, initFile, crashes>>

\* write_signed_pair: the asset, then its manifest
WriteAsset(p) ==
  /\ tap[p].at = "sign"
  /\ signed' = [signed EXCEPT !.asset = tap[p].list]
  /\ Tap(p, [tap[p] EXCEPT !.at = "seal"])
  /\ UNCHANGED <<writes, files, rows, initFile, crashes>>

WriteManifest(p) ==
  /\ tap[p].at = "seal"
  /\ signed' = [signed EXCEPT !.manifest = tap[p].list]
  /\ Tap(p, Over(p))
  /\ UNCHANGED <<writes, files, rows, initFile, crashes>>

\* Signing or one of the writes fails.
FinalizeFailed(p) ==
  /\ tap[p].at \in {"list", "sign", "seal"}
  /\ Tap(p, Over(p))
  /\ UNCHANGED <<writes, disk>>
-----------------------------------------------------------------------------
\* The process ends and is started again on the same directory.
Crash ==
  /\ crashes < MaxCrashes /\ \E p \in Recordings : tap[p].at # "new"
  /\ crashes' = crashes + 1
  /\ writes' = {}
  /\ tap' = [p \in Recordings |-> IF tap[p].at = "new" THEN tap[p]
                                  ELSE Over(p)]
  /\ UNCHANGED <<files, rows, initFile, signed>>

Tapping(p) ==
  \/ Install(p) \/ Lagged(p) \/ NextFragment(p) \/ PassOver(p) \/ Finish(p)
  \/ \E ok \in BOOLEAN : WriteInit(p, ok)
  \/ \E duration \in Lengths : Keep(p, duration)
Finalizing(p) == ListRows(p) \/ Concat(p) \/ WriteAsset(p) \/ WriteManifest(p) \/ FinalizeFailed(p)

ArchiveNext ==
  \/ \E p \in Recordings : Tapping(p) \/ Finalizing(p)
  \/ \E w \in writes : Blocking(w)
  \/ Crash
-----------------------------------------------------------------------------
\* A row is only there once its file was whole, in every interleaving of the
\* blocking tasks and through a crash: the file a row names holds the row's
\* fragment, unless another publication has used the same file number.
RowServesItsFragment ==
  \A d \in DOMAIN rows :
    \/ files[rows[d].seq] = <<rows[d].pub, d>>
    \/ \E q \in Recordings \ {rows[d].pub} : tap[q].seq >= rows[d].seq

Overlap(from, to) == {d \in DOMAIN rows : d < to /\ rows[d].end > from}
\* rows that start within the row d, before the query does
Hiding(d, from) == {e \in DOMAIN rows : d < e /\ e < from}

\* A scrub query returns rows that overlap it, in decode order, whatever
\* mixture of publications and lost fragments the index was built from.  It
\* misses an overlapping row in one case only: the row starts before the query
\* and another row starts inside it, still before the query.  find_range looks
\* at the last row before the query and at no earlier one, so this is where
\* "every segment whose extent overlaps" of the trait's comment does not hold.
RangeExact == rows # <<>> =>
  \A from, to \in 0..(Max(Times) + Period) : from < to =>
    LET found == find_range(from, to) IN
    /\ ToSet(found) \subseteq Overlap(from, to)
    /\ \A d \in Overlap(from, to) \ ToSet(found) : d < from /\ Hiding(d, from) # {}
    /\ \A j, k \in DOMAIN found : j < k => found[j] < found[k]

\* The signed asset of a name that was published once is made of whole
\* fragments in decode order, and a manifest is only found next to the asset
\* it was made for, also after a crash between the two writes.
AssetSound ==
  (\A p, q \in Recordings : tap[p].at # "new" /\ tap[q].at # "new" => p = q) =>
    /\ signed.manifest \in {<<>>, signed.asset}
    /\ \A k \in DOMAIN signed.asset : signed.asset[k] \in Recorded
    /\ \A j, k \in DOMAIN signed.asset : j < k => signed.asset[j][2] < signed.asset[k][2]

\* Rows, files and signed assets agree, whatever the order of the blocking
\* tasks and wherever the server crashed.
ArchiveInv == ArchiveTypeOK /\ RowServesItsFragment /\ RangeExact /\ AssetSound
=============================================================================
