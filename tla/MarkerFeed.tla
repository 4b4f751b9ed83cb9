----------------------------- MODULE MarkerFeed -----------------------------
(* What justerm-core promises the holder of a marker index: the pulled answer  *)
(* of Engine::marker_index, the evicted_total and marker_epoch that date it,   *)
(* and the MarkerCreated / MarkerDisposed events (justerm-core/src/term/       *)
(* markers.rs, ADR-0020 and ADR-0029).  Module Anchors shows that the          *)
(* terminal's verbs keep the promise; module MarkerIndex runs the browser's    *)
(* cache against every behaviour the promise allows.                           *)
(*                                                                             *)
(* A step that leaves the epoch alone moves every surviving marker by the same *)
(* amount, which evicted_total counts, and announces each marker that dies.    *)
(* A step that moves the epoch may leave any index behind, but still announces *)
(* deaths, never revives an id and never reissues one.                         *)
EXTENDS Naturals, FiniteSets, Sequences, SequencesExt

CONSTANTS Ids,        \* the marker ids the instance may issue: 0 .. n
          Lines,      \* the absolute lines a marker may be on: 0 .. n
          Totals,     \* the values of evicted_total an instance explores
          Epochs      \* the values of marker_epoch an instance explores

ASSUME FeedConstants ==
  /\ Ids \subseteq Nat /\ Lines \subseteq Nat
  /\ Totals \subseteq Nat /\ Epochs \subseteq Nat
  /\ 0 \in Totals /\ 0 \in Epochs

VARIABLES
  index,     \* the active buffer's markers: id -> absolute line (marker_index)
  live,      \* the live markers of both buffers
  born,      \* next_marker_id: the ids below it have been issued
  evicted,   \* evicted_total
  epoch,     \* marker_epoch
  emitted    \* the TermEvents the last step pushed

feedVars == <<index, live, born, evicted, epoch, emitted>>

Created(id, line) ==
  [kind |-> "created", id |-> id, line |-> line,
   evicted |-> evicted, epoch |-> epoch]
Disposed(id) == [kind |-> "disposed", id |-> id]

(* the announcements of D's deaths, in an order of the engine's choosing *)
Deaths(D) ==
  {[i \in DOMAIN s |-> Disposed(s[i])] : s \in SetToSeqs(D)}

Indexes(S) == UNION {[T -> Lines] : T \in SUBSET S}

FeedInit ==
  /\ index = <<>> /\ live = {} /\ born = 0
  /\ evicted = 0 /\ epoch = 0 /\ emitted = <<>>

(* n lines left the front (or none), D died; nothing moved but by those n *)
Retire(n, D) ==
  LET kept == DOMAIN index \ D IN
  /\ UNCHANGED <<born, epoch>>
  /\ evicted + n \in Totals
  /\ evicted' = evicted + n
  /\ live' = live \ D
  /\ \A id \in kept : index[id] >= n
  /\ index' = [id \in kept |-> index[id] - n]
  /\ emitted' \in Deaths(D)

(* a marker is registered on the active buffer; the cap may retire others.     *)
(* The birth carries the basis and the epoch its line is true at               *)
Birth(line, D) ==
  LET id == born
      kept == DOMAIN index \ D
  IN
  /\ UNCHANGED <<evicted, epoch>>
  /\ id \in Ids
  /\ born' = id + 1
  /\ D \subseteq DOMAIN index
  /\ live' = (live \ D) \cup {id}
  /\ index' = [x \in kept \cup {id} |-> IF x = id THEN line ELSE index[x]]
  /\ \E ds \in Deaths(D) : emitted' = Append(ds, Created(id, line))

(* the buffer changed in a way one number cannot express: a region rotate that *)
(* moved a survivor, a reflow, an alternate-screen swap, a reset               *)
Disturb(D) ==
  /\ epoch' \in {e \in Epochs : e > epoch}
  /\ UNCHANGED born
  /\ live' = live \ D
  /\ evicted' \in Totals
  /\ index' \in Indexes(live \ D)
  /\ emitted' \in Deaths(D)

FeedNext ==
  \/ \E n \in Lines, D \in SUBSET live : Retire(n, D)
  \/ \E line \in Lines, D \in SUBSET live : Birth(line, D)
  \/ \E D \in SUBSET live : Disturb(D)

FeedSpec == FeedInit /\ [][FeedNext]_feedVars
=============================================================================
