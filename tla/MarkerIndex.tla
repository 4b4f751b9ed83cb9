---------------------------- MODULE MarkerIndex -----------------------------
(* The browser's marker index (justerm-web/src/marker-index.ts,                *)
(* MarkerIndexCache) over any engine that keeps the promise of MarkerFeed.     *)
(* Frames, events and pulls travel on channels of the host's own (ADR-0017):   *)
(* each of the first two keeps its order, nothing couples the three, and a     *)
(* pull may fail.                                                              *)
EXTENDS MarkerFeed, Integers

CONSTANTS
  MaxFeeds,      \* bound: what the engine does before it falls quiet
  MaxFrames,     \* bound: frames in transit
  MaxRefusals,   \* bound: pulls the transport refuses
  MaxTroubles    \* bound: refusals and detachments from the session

ASSUME IndexConstants ==
  /\ {MaxFeeds, MaxRefusals, MaxTroubles} \subseteq Nat
  /\ MaxFrames \in Nat \ {0}

VARIABLES
  onWire,    \* frames on their way to the widget, oldest first
  news,      \* events on their way to it, oldest first
  pulls,     \* index() calls out: their token and, once evaluated, the answer
  cache,     \* the MarkerIndexCache
  shown,     \* the index, in the engine, of the frame last synced; or {}
  told,      \* the deaths the widget has been told of
  spent      \* engine steps, refusals and detachments so far

vars == <<feedVars, onWire, news, pulls, cache, shown, told, spent>>
widgetVars == <<onWire, pulls, cache, shown, told>>

(* an epoch the cache may not have is a set of at most one                     *)
Null == {}

Empty ==
  [lines |-> <<>>,        \* id -> [line, basis]
   basis |-> 0,           \* the newest frame's evicted_total
   adopted |-> Null,      \* the epoch the contents describe
   seen |-> Null,         \* the epoch of the newest frame
   seq |-> 0,
   inFlight |-> FALSE,
   failed |-> FALSE,      \* lastAttemptFailed
   pending |-> <<>>]      \* pendingOps

Init ==
  /\ FeedInit
  /\ onWire = <<>> /\ news = <<>> /\ pulls = {} /\ cache = Empty
  /\ shown = Null /\ told = {}
  /\ spent = [steps |-> 0, refusals |-> 0, resets |-> 0]

(* ---- the cache ------------------------------------------------------------ *)
Put(lines, id, entry) ==
  [x \in DOMAIN lines \cup {id} |-> IF x = id THEN entry ELSE lines[x]]
Drop(lines, id) == [x \in DOMAIN lines \ {id} |-> lines[x]]

Invalidate(c) == [c EXCEPT !.lines = <<>>, !.adopted = Null]

(* what a frame says of what is held: it moved (another epoch), or the         *)
(* population drifted (another count)                                          *)
Judged(c, f) ==
  LET based == [c EXCEPT !.basis = f.evicted] IN
  IF c.seen # {f.epoch}
    THEN Invalidate([based EXCEPT !.seen = {f.epoch}, !.failed = FALSE])
  ELSE IF c.adopted # Null /\ f.count # Cardinality(DOMAIN c.lines)
    THEN Invalidate(based)
  ELSE based

(* (mutant) only an empty cache asks; one that holds a stale answer does not   *)
WantsPullWhenEmpty(c) == c.adopted = Null /\ ~ c.inFlight /\ ~ c.failed

(* the one place a pull starts asks a state: what is held does not describe    *)
(* the newest frame, nothing is out, and the transport did not refuse          *)
WantsPull(c) == c.adopted # c.seen /\ ~ c.inFlight /\ ~ c.failed

Pulling(c) == [Invalidate(c) EXCEPT !.inFlight = TRUE, !.seq = @ + 1]

(* onMarkerCreated: a birth is adopted only into the generation it names       *)
OnCreated(c, e) ==
  IF c.adopted # Null /\ c.adopted # {e.epoch} THEN c
  ELSE [c EXCEPT
          !.lines = Put(@, e.id, [line |-> e.line, basis |-> e.evicted]),
          !.pending = IF c.inFlight THEN Append(@, e) ELSE @]

OnDisposed(c, e) ==
  [c EXCEPT !.lines = Drop(@, e.id),
            !.pending = IF c.inFlight THEN Append(@, e) ELSE @]

(* (mutant) a queued birth is replayed whatever its generation                 *)
AppliesUndated(op, e) == TRUE

(* of the events that landed while the pull was out, those its answer of epoch *)
(* e takes: deaths always, births of its own generation                        *)
Applies(op, e) == op.kind = "disposed" \/ op.epoch = e

(* an id's entry once they are replayed in order onto the answer, or none: the *)
(* last of them about the id decides                                           *)
Replayed(c, snap, id) ==
  LET ops == {i \in DOMAIN c.pending :
                c.pending[i].id = id /\ Applies(c.pending[i], snap.epoch)}
      last == c.pending[CHOOSE i \in ops : \A j \in ops : j <= i]
  IN IF ops = {}
       THEN {[line |-> snap.index[x], basis |-> snap.evicted] :
               x \in DOMAIN snap.index \cap {id}}
     ELSE IF last.kind = "disposed" THEN {}
     ELSE {[line |-> last.line, basis |-> last.evicted]}

Pulled(c, snap) ==
  LET mentioned == DOMAIN snap.index \cup {c.pending[i].id : i \in DOMAIN c.pending}
      kept == {id \in mentioned : Replayed(c, snap, id) # {}}
  IN [c EXCEPT !.inFlight = FALSE,
               !.lines = [id \in kept |-> CHOOSE x \in Replayed(c, snap, id) : TRUE],
               !.pending = <<>>,
               !.adopted = {snap.epoch},
               !.failed = FALSE]

(* a refusal leaves the index empty and what was queued queued                 *)
Rejected(c) == [c EXCEPT !.inFlight = FALSE, !.failed = TRUE]

(* reset: everything goes, and a pull still out is orphaned                    *)
Detached(c) == [Empty EXCEPT !.seq = c.seq + 1]

(* lineOf: absent unless the contents describe the newest frame's buffer       *)
Answers(c) == IF c.adopted # Null /\ c.adopted = c.seen THEN DOMAIN c.lines
              ELSE {}
LineOf(c, id) == c.lines[id].line - (c.basis - c.lines[id].basis)

(* ---- the engine and the channels ------------------------------------------ *)
EngineStep ==
  /\ spent.steps < MaxFeeds
  /\ FeedNext
  /\ feedVars' # feedVars
  /\ news' = news \o emitted'
  /\ spent' = [spent EXCEPT !.steps = @ + 1]
  /\ UNCHANGED widgetVars

EngineIdle ==
  /\ UNCHANGED <<index, live, born, evicted, epoch>>
  /\ emitted' = <<>>

SendFrame ==
  /\ Len(onWire) < MaxFrames
  /\ onWire' = Append(onWire, [evicted |-> evicted, epoch |-> epoch,
                               count |-> Cardinality(DOMAIN index),
                               index |-> index])
  /\ EngineIdle
  /\ UNCHANGED <<news, pulls, cache, shown, told, spent>>

(* sync, once per frame                                                        *)
Sync ==
  /\ onWire # <<>>
  /\ LET f == Head(onWire)
         c == Judged(cache, f)
     IN /\ IF WantsPull(c)
             THEN /\ cache' = Pulling(c)
                  /\ pulls' = pulls \cup {[seq |-> c.seq + 1, answer |-> Null]}
             ELSE cache' = c /\ UNCHANGED pulls
        /\ shown' = {f.index}
  /\ onWire' = Tail(onWire)
  /\ EngineIdle
  /\ UNCHANGED <<news, told, spent>>

HearBirth ==
  /\ news # <<>> /\ Head(news).kind = "created"
  /\ cache' = OnCreated(cache, Head(news))
  /\ news' = Tail(news)
  /\ EngineIdle
  /\ UNCHANGED <<onWire, pulls, shown, told, spent>>

HearDeath ==
  /\ news # <<>> /\ Head(news).kind = "disposed"
  /\ cache' = OnDisposed(cache, Head(news))
  /\ told' = told \cup {Head(news).id}
  /\ news' = Tail(news)
  /\ EngineIdle
  /\ UNCHANGED <<onWire, pulls, shown, spent>>

(* the backend evaluates a pull, at an instant of its own                      *)
Evaluate(p) ==
  /\ p.answer = Null
  /\ pulls' = (pulls \ {p}) \cup
       {[p EXCEPT !.answer = {[index |-> index, evicted |-> evicted,
                               epoch |-> epoch]}]}
  /\ EngineIdle
  /\ UNCHANGED <<onWire, news, cache, shown, told, spent>>

Land(p) ==
  /\ \E snap \in p.answer :
       cache' = IF p.seq = cache.seq THEN Pulled(cache, snap) ELSE cache
  /\ pulls' = pulls \ {p}
  /\ EngineIdle
  /\ UNCHANGED <<onWire, news, shown, told, spent>>

Reject(p) ==
  /\ spent.refusals < MaxRefusals
  /\ spent.refusals + spent.resets < MaxTroubles
  /\ spent' = [spent EXCEPT !.refusals = @ + 1]
  /\ cache' = IF p.seq = cache.seq THEN Rejected(cache) ELSE cache
  /\ pulls' = pulls \ {p}
  /\ EngineIdle
  /\ UNCHANGED <<onWire, news, shown, told>>

Reset ==
  /\ spent.refusals + spent.resets < MaxTroubles
  /\ spent' = [spent EXCEPT !.resets = @ + 1]
  /\ cache' = Detached(cache)
  /\ shown' = Null
  /\ EngineIdle
  /\ UNCHANGED <<onWire, news, pulls, told>>

Next ==
  \/ EngineStep \/ SendFrame \/ Sync \/ HearBirth \/ HearDeath \/ Reset
  \/ \E p \in pulls : Evaluate(p) \/ Land(p) \/ Reject(p)

(* Frames keep coming, what is in transit arrives, and a pull that is out is   *)
(* evaluated and answered; the engine owes nothing                             *)
Fairness ==
  /\ WF_vars(SendFrame) /\ WF_vars(Sync)
  /\ WF_vars(HearBirth) /\ WF_vars(HearDeath)
  /\ WF_vars(\E p \in pulls : Evaluate(p))
  /\ WF_vars(\E p \in pulls : Land(p))

Spec == Init /\ [][Next]_vars /\ Fairness

(* ---- what the index may be asked for -------------------------------------- *)
TypeOK ==
  /\ cache.adopted = Null \/ \E e \in Epochs : cache.adopted = {e}
  /\ cache.inFlight => cache.adopted = Null
  /\ cache.inFlight <=> \E p \in pulls : p.seq = cache.seq
  /\ DOMAIN cache.lines \subseteq 0..(born - 1)

(* An answer is never another line's: whatever raced, a line the cache gives   *)
(* for a marker the newest frame's buffer has is that marker's line in that    *)
(* buffer ("absent beats wrong", #741).                                        *)
NeverWrong ==
  \A held \in shown : \A id \in Answers(cache) \cap DOMAIN held :
    LineOf(cache, id) = held[id]

(* A marker whose disposal was delivered has no line from then on              *)
(* (invalidate's comment: a queued birth replayed onto a later snapshot cannot *)
(* "resurrect a marker disposed in between").                                  *)
DeadStayDead == Answers(cache) \cap told = {}

(* ... which holds as long as no pull is refused.                              *)
DeadStayDeadIfAnswered == spent.refusals = 0 => DeadStayDead

(* Between them: what may be read off the cache is true of a live marker.      *)
AnswersAreTrue == TypeOK /\ NeverWrong /\ DeadStayDeadIfAnswered

(* Once the engine is quiet the index settles on its markers, unless the       *)
(* transport refused the last pull, which is the host's to retry: no race      *)
(* leaves it unusable, short of a marker or holding one too many (#746).       *)
Agrees ==
  /\ cache.adopted = {epoch} /\ cache.seen = {epoch}
  /\ Answers(cache) = DOMAIN index
  /\ \A id \in DOMAIN index : LineOf(cache, id) = index[id]
Settles == <>[](cache.failed \/ Agrees)
=============================================================================
