---------------------------- MODULE WidgetProofs ----------------------------
(***************************************************************************)
(* Proofs about the parts of the terminal widget that ask the engine and    *)
(* get their answers late, and about the gesture that selects.              *)
(*                                                                         *)
(* SearchBox, for any occurrences, and any number of searches, steps and    *)
(* changes of the buffer.  A search is two round trips and a show: its      *)
(* request, the total, the question where the emphasis goes, its answer,    *)
(* the show.  Several are out at once, superseded ones among them, and an   *)
(* earlier one's question may follow a later one's request.  Progress       *)
(* follows the last request that replaces the set of matches, through the   *)
(* five places it can be in, to the box that counts that set.               *)
(*                                                                         *)
(* LinkTracker, for any height of the viewport, and any number of writes    *)
(* and moves.  The answers held may be wrong for the mirror while they are  *)
(* unchecked, and the links wrong for the answers while they are stale;     *)
(* LinkInv says that neither is so while the pointer is on the grid, and    *)
(* that a press and a release look again before they take a link.           *)
(*                                                                         *)
(* MarkerIndex, for every engine that keeps the promise of MarkerFeed and   *)
(* any sets of ids, lines, totals and epochs.  While an epoch lasts, a      *)
(* marker's line and what was evicted before it add up to one number, its   *)
(* place.  Every line in the system is a sighting of a marker in some       *)
(* epoch: in the engine, in a frame, an event or an answer on its way,      *)
(* among the queued events, in the cache's contents.  Truth says that all   *)
(* sightings of a marker in an epoch give the same place, and that none is  *)
(* of an epoch or an id still to come.  So contents and frame of one epoch  *)
(* agree, whatever crossed on the way.  A delivered death stays delivered   *)
(* because an answer that has the marker belongs to a pull that was out     *)
(* when the death arrived, and so the death is among the events replayed    *)
(* onto it (Buried).                                                        *)
(*                                                                         *)
(* Pointer, for any pane, any history and any sets of events an application *)
(* asks for.  Believed says what the selection controller may think in a    *)
(* gesture: a drag is the widget's own and has a selection, which is the    *)
(* engine's unless the engine dropped it.  Announced says that anchor and   *)
(* report are the engine's selection seen from the view, and holds while    *)
(* the view has not moved and the engine dropped nothing since; so a report *)
(* that is swallowed is one that would say nothing new.                     *)
(*                                                                         *)
(* Composition, for any texts around the caret and any number of            *)
(* keystrokes.  A commit is Plain (nothing open, nothing to be read), a     *)
(* Syllable (open), Ended (closed, its text to be read by a task) or        *)
(* Following (the next one open before the last one is read).  Each phase   *)
(* says what of committed is not sent yet: nothing, the edit a waiting task *)
(* will find, or the piece of the textarea from where the composition began *)
(* to the caret or to the next one's beginning.  ImeQueue says which tasks  *)
(* may wait in it.                                                          *)
(***************************************************************************)
EXTENDS SearchBox, LinkTracker, MarkerIndex, Pointer, Composition, Iteration, FiniteSetTheorems, SequenceTheorems

-----------------------------------------------------------------------------
(* SearchBox: what travels, and where a search may be.                       *)

Conts(at) == [does : {"search", "reSearch"}, at : {at}, epoch : Nat, total : Nat]
Requests == [ask : {"search"}, k : Conts("total")] \cup [ask : {"where"}, k : Conts("where")]
            \cup [ask : {"show"}, index : Nat] \cup [ask : {"clear", "clearHighlights"}]
Returns == [k : Conts("total") \cup Conts("where"), total : Nat, anchored : Int, lines : Seq(Nat)]
Queries == {"none", "valid", "invalid"}

Typed ==
  /\ box \in [query : Queries, total : Nat, index : Nat, lines : Seq(Nat), epoch : Nat, timer : BOOLEAN]
  /\ up \in Seq(Requests) /\ down \in Seq(Returns)
  /\ back \in [buffer : Seq(Nat), held : Seq(Nat), paint : Seq(Nat), active : Nat, anchor : Nat]
  /\ acts \in Nat /\ changes \in Nat /\ due \in BOOLEAN

-----------------------------------------------------------------------------
(* What is on its way, in order: nothing of T, or last of T one of V.        *)
NoneIn(s, T) == \A i \in DOMAIN s : s[i] \notin T
LastIn(s, T, V) == \E i \in DOMAIN s : s[i] \in V /\ \A j \in DOMAIN s : j > i => s[j] \notin T

Clearing == {r \in Requests : r.ask \in {"clear", "clearHighlights"}}
Replacing == {r \in Requests : r.ask \in {"search", "clear", "clearHighlights"}}
Searches(e) == {r \in Requests : r.ask = "search" /\ r.k.epoch = e}
Wheres(e) == {r \in Requests : r.ask = "where" /\ r.k.epoch = e}
Shows == {r \in Requests : r.ask = "show"}
Counts(e) == {a \in Returns : a.k.epoch = e /\ a.k.at = "total"}
Places(e) == {a \in Returns : a.k.epoch = e /\ a.k.at = "where"}

\* No question of the epoch e is out.
Unasked(e) == NoneIn(up, Searches(e)) /\ NoneIn(up, Wheres(e)) /\ NoneIn(down, Counts(e)) /\ NoneIn(down, Places(e))

\* No question is of an epoch to come.
Dated == (\A e \in Nat : e > box.epoch => Unasked(e)) /\ (box.query = "none" => ~box.timer)

\* A search that was left or rejected: nothing out is its own, and what clears it is the last
\* thing asked.
Left ==
  /\ box.total = 0 /\ box.lines = <<>> /\ Unasked(box.epoch)
  /\ IF up = <<>> THEN back.paint = <<>> /\ back.active = Nothing ELSE LastIn(up, Requests, Clearing)

(* Where the last search is:                                                 *)
\* on its way to the backend, with nothing behind it that replaces its matches;
Requested == LastIn(up, Replacing, Searches(box.epoch))
\* its total on its way back;
Counting(e, held) == {a \in Counts(e) : a.total = Len(held)}
Counted == LastIn(down, Counts(box.epoch), Counting(box.epoch, back.held))
\* its second question on its way;
Locating(e, held) == {r \in Wheres(e) : r.k.total = Len(held)}
Located == LastIn(up, Wheres(box.epoch), Locating(box.epoch, back.held)) /\ NoneIn(down, Counts(box.epoch))
\* the answer to it on its way back, the last there will be;
Placing(e, held) == {a \in Places(e) : a.k.total = Len(held) /\ a.lines \in {<<>>, held}}
Placed ==
  /\ LastIn(down, Places(box.epoch), Placing(box.epoch, back.held))
  /\ NoneIn(down, Counts(box.epoch)) /\ NoneIn(up, Wheres(box.epoch))
\* or installed: the box counts the backend's set, and the last show is of its current match.
Shown == \/ LastIn(up, Shows, {Show(box.index)})
         \/ NoneIn(up, Shows) /\ (back.paint = <<>> \/ back.active = back.held[box.index + 1])
Installed ==
  /\ NoneIn(down, Counts(box.epoch)) /\ NoneIn(down, Places(box.epoch)) /\ NoneIn(up, Wheres(box.epoch))
  /\ box.total = Len(back.held) /\ box.lines \in {<<>>, back.held}
  /\ Shown

Settled == NoneIn(up, Replacing)
Stage == back.held = <<>> \/ Counted \/ Located \/ Placed \/ Installed
Progress == Requested \/ (Settled /\ Stage)

Bounded == (box.total > 0 => box.index < box.total) /\ back.paint \in {<<>>, back.held}

Inv ==
  /\ Typed /\ Dated /\ Bounded
  /\ box.query # "valid" => Left
  /\ box.query = "valid" => Progress

-----------------------------------------------------------------------------
(* Sequences: one element taken from the front or added at the back.         *)

LEMMA Pop ==
  ASSUME NEW S, NEW s \in Seq(S), s # <<>>
  PROVE  /\ Len(s) \in Nat /\ Len(s) > 0 /\ DOMAIN s = 1..Len(s) /\ Head(s) = s[1] /\ Head(s) \in S
         /\ Tail(s) \in Seq(S) /\ Len(Tail(s)) = Len(s) - 1 /\ DOMAIN Tail(s) = 1..(Len(s) - 1)
         /\ \A i \in 1..(Len(s) - 1) : Tail(s)[i] = s[i + 1]
  OBVIOUS

LEMMA Push ==
  ASSUME NEW S, NEW s \in Seq(S), NEW x \in S
  PROVE  /\ Len(s) \in Nat /\ DOMAIN s = 1..Len(s)
         /\ Append(s, x) \in Seq(S) /\ Append(s, x) # <<>> /\ DOMAIN Append(s, x) = 1..(Len(s) + 1)
         /\ Append(s, x)[Len(s) + 1] = x /\ \A i \in 1..Len(s) : Append(s, x)[i] = s[i]
  OBVIOUS

LEMMA PushTyped ==
  ASSUME NEW S, NEW s \in Seq(S), NEW t, t = s \/ \E x \in S : t = Append(s, x)
  PROVE  t \in Seq(S)
  OBVIOUS

LEMMA NonePop ==
  ASSUME NEW S, NEW s \in Seq(S), s # <<>>, NEW T, NoneIn(s, T)
  PROVE  NoneIn(Tail(s), T) /\ Head(s) \notin T
  BY Pop DEF NoneIn

LEMMA NonePush ==
  ASSUME NEW S, NEW s \in Seq(S), NEW x \in S, NEW T, NoneIn(s, T), x \notin T
  PROVE  NoneIn(Append(s, x), T)
  <1>1. \A i \in 1..(Len(s) + 1) : i \in 1..Len(s) \/ i = Len(s) + 1
    BY Push
  <1>2. QED
    BY <1>1, Push DEF NoneIn

LEMMA LastPop ==
  ASSUME NEW S, NEW s \in Seq(S), s # <<>>, NEW T, NEW V, LastIn(s, T, V)
  PROVE  LastIn(Tail(s), T, V) \/ (Head(s) \in V /\ NoneIn(Tail(s), T))
  <1>1. PICK i \in DOMAIN s : s[i] \in V /\ \A j \in DOMAIN s : j > i => s[j] \notin T
    BY DEF LastIn
  <1>2. CASE i = 1
    <2>1. \A j \in 1..(Len(s) - 1) : j + 1 \in DOMAIN s /\ j + 1 > 1 /\ Tail(s)[j] = s[j + 1]
      BY Pop
    <2>2. QED
      BY <1>1, <1>2, <2>1, Pop DEF NoneIn
  <1>3. CASE i # 1
    <2>1. i - 1 \in DOMAIN Tail(s) /\ Tail(s)[i - 1] = s[i]
      BY <1>1, <1>3, Pop
    <2>2. \A j \in DOMAIN Tail(s) : j > i - 1 => Tail(s)[j] \notin T
      <3>1. \A j \in 1..(Len(s) - 1) : j + 1 \in DOMAIN s /\ Tail(s)[j] = s[j + 1] /\ (j > i - 1 => j + 1 > i)
        BY <1>1, Pop
      <3>2. QED
        BY <1>1, <3>1, Pop
    <2>3. QED
      BY <1>1, <2>1, <2>2 DEF LastIn
  <1>4. QED
    BY <1>2, <1>3

LEMMA LastPush ==
  ASSUME NEW S, NEW s \in Seq(S), NEW x \in S, NEW T, NEW V, LastIn(s, T, V), x \notin T
  PROVE  LastIn(Append(s, x), T, V)
  <1>1. PICK i \in DOMAIN s : s[i] \in V /\ \A j \in DOMAIN s : j > i => s[j] \notin T
    BY DEF LastIn
  <1>2. i \in DOMAIN Append(s, x) /\ Append(s, x)[i] = s[i]
    BY <1>1, Push
  <1>3. \A j \in 1..(Len(s) + 1) : j \in 1..Len(s) \/ j = Len(s) + 1
    BY Push
  <1>4. \A j \in DOMAIN Append(s, x) : j > i => Append(s, x)[j] \notin T
    BY <1>1, <1>3, Push
  <1>5. QED
    BY <1>1, <1>2, <1>4 DEF LastIn

LEMMA LastNew ==
  ASSUME NEW S, NEW s \in Seq(S), NEW T, NEW V, NEW x \in S, x \in V
  PROVE  LastIn(Append(s, x), T, V)
  <1>1. \A j \in 1..(Len(s) + 1) : ~ (j > Len(s) + 1)
    BY Push
  <1>2. QED
    BY <1>1, Push DEF LastIn

LEMMA LastIsIn ==
  ASSUME NEW s, NEW T, NEW V, LastIn(s, T, V), V \subseteq T
  PROVE  ~NoneIn(s, T)
  BY DEF LastIn, NoneIn

-----------------------------------------------------------------------------
(* Requests and answers.                                                     *)

LEMMA Kinds ==
  ASSUME NEW r \in Requests
  PROVE  /\ r.ask \in {"search", "where", "show", "clear", "clearHighlights"}
         /\ r.ask = "search" => r.k \in Conts("total") /\ r \in Searches(r.k.epoch)
         /\ r.ask = "where" => r.k \in Conts("where") /\ r \in Wheres(r.k.epoch)
         /\ r.ask = "show" => r.index \in Nat /\ r = Show(r.index)
         /\ r \in Replacing <=> r.ask \in {"search", "clear", "clearHighlights"}
         /\ r \in Clearing <=> r.ask \in {"clear", "clearHighlights"}
         /\ r \in Shows <=> r.ask = "show"
         /\ \A e : /\ r \in Searches(e) <=> r.ask = "search" /\ r.k.epoch = e
                   /\ r \in Wheres(e) <=> r.ask = "where" /\ r.k.epoch = e
  BY DEF Requests, Conts, Searches, Wheres, Shows, Replacing, Clearing, Show

LEMMA SearchAsked ==
  ASSUME NEW does \in {"search", "reSearch"}, NEW e \in Nat
  PROVE  LET r == [ask |-> "search", k |-> Cont(does, "total", e, 0)]
         IN  r \in Requests /\ r \in Searches(e) /\ r.ask = "search" /\ r.k.epoch = e
  BY DEF Requests, Conts, Cont, Searches

LEMMA WhereAsked ==
  ASSUME NEW k \in Conts("total"), NEW n \in Nat
  PROVE  LET r == [ask |-> "where", k |-> Cont(k.does, "where", k.epoch, n)]
         IN  r \in Requests /\ r \in Wheres(k.epoch) /\ r.ask = "where" /\ r.k.epoch = k.epoch /\ r.k.total = n
  BY DEF Requests, Conts, Cont, Wheres

LEMMA ShowAsked ==
  ASSUME NEW i \in Nat
  PROVE  Show(i) \in Requests /\ Show(i).ask = "show" /\ Show(i).index = i
  BY DEF Requests, Show

LEMMA ClearAsked ==
  ASSUME NEW ask \in {"clear", "clearHighlights"}
  PROVE  LET r == [ask |-> ask] IN r \in Requests /\ r.ask = ask
  BY DEF Requests

LEMMA Answered ==
  ASSUME NEW a \in Returns
  PROVE  /\ a.k.epoch \in Nat /\ a.total \in Nat /\ a.k.total \in Nat /\ a.lines \in Seq(Nat) /\ a.anchored \in Int
         /\ a.k.at \in {"total", "where"} /\ a.k.does \in {"search", "reSearch"}
         /\ a.k.at = "total" => a.k \in Conts("total")
         /\ \A e : /\ a \in Counts(e) <=> a.k.epoch = e /\ a.k.at = "total"
                   /\ a \in Places(e) <=> a.k.epoch = e /\ a.k.at = "where"
  BY DEF Returns, Conts, Counts, Places

LEMMA AnchoredIs ==
  ASSUME NEW b, b.held \in Seq(Nat)
  PROVE  AnchoredIndex(b) \in Int
  <1> DEFINE after == {i \in 1..Len(b.held) : b.held[i] >= b.anchor}
             first == CHOOSE i \in after : \A j \in after : i <= j
  <1>1. CASE after = {}
    BY <1>1 DEF AnchoredIndex, Absent
  <1>2. CASE after # {}
    <2>1. after \in SUBSET Nat
      OBVIOUS
    <2>2. \E x \in after : \A y \in after : x <= y
      BY <1>2, <2>1, Smallest
    <2>3. first \in after
      BY <2>2
    <2>4. first - 1 \in Int
      BY <2>3
    <2>5. AnchoredIndex(b) \in {Absent, 0, first - 1}
      BY DEF AnchoredIndex
    <2>6. QED
      BY <2>4, <2>5 DEF Absent
  <1>3. QED
    BY <1>1, <1>2

-----------------------------------------------------------------------------
(* What each step does.                                                      *)

BoxRecord == [query : Queries, total : Nat, index : Nat, lines : Seq(Nat), epoch : Nat, timer : BOOLEAN]
BackRecord == [buffer : Seq(Nat), held : Seq(Nat), paint : Seq(Nat), active : Nat, anchor : Nat]

LEMMA HandledIs ==
  ASSUME NEW b \in BackRecord, NEW r \in Requests
  PROVE  LET c == Handled(b, r)
         IN  /\ c \in BackRecord
             /\ r.ask = "search" => c.held = b.buffer /\ c.paint = b.buffer
             /\ r.ask = "where" => c = b
             /\ r.ask = "show" => /\ c.held = b.held /\ c.paint = b.paint
                                  /\ c.active = IF r.index < Len(b.held) THEN b.held[r.index + 1] ELSE b.active
             /\ r.ask \in {"clear", "clearHighlights"} => c.held = <<>> /\ c.paint = <<>> /\ c.active = Nothing
  <1>1. CASE r.ask = "search"
    BY <1>1 DEF Handled, BackRecord, Nothing
  <1>2. CASE r.ask = "where"
    BY <1>2 DEF Handled
  <1>3. CASE r.ask = "show"
    <2>1. r.index \in Nat
      BY <1>3, Kinds
    <2>2. Handled(b, r) = Designated(b, r.index)
      BY <1>3 DEF Handled
    <2>3. CASE r.index < Len(b.held)
      <3>1. PICK m \in Nat : m = b.held[r.index + 1]
        BY <2>1, <2>3 DEF BackRecord
      <3>2. Handled(b, r) = [b EXCEPT !.active = m, !.anchor = m]
        BY <2>2, <2>3, <3>1 DEF Designated
      <3>3. /\ Handled(b, r) \in BackRecord /\ Handled(b, r).active = m
            /\ Handled(b, r).held = b.held /\ Handled(b, r).paint = b.paint
        BY <3>2 DEF BackRecord
      <3>4. QED
        BY <1>3, <2>3, <3>1, <3>3
    <2>4. CASE ~(r.index < Len(b.held))
      BY <1>3, <2>2, <2>4 DEF Designated
    <2>5. QED
      BY <2>3, <2>4
  <1>4. CASE r.ask = "clear"
    <2>1. Handled(b, r) = [b EXCEPT !.paint = <<>>, !.held = <<>>, !.active = Nothing, !.anchor = Nothing]
      BY <1>4 DEF Handled
    <2>2. <<>> \in Seq(Nat) /\ Nothing \in Nat
      BY DEF Nothing
    <2>3. Handled(b, r) \in BackRecord
      BY <2>1, <2>2 DEF BackRecord
    <2>4. Handled(b, r).held = <<>> /\ Handled(b, r).paint = <<>> /\ Handled(b, r).active = Nothing
      BY <2>1 DEF BackRecord
    <2>5. QED
      BY <1>4, <2>3, <2>4
  <1>5. CASE r.ask = "clearHighlights"
    <2>1. Handled(b, r) = [b EXCEPT !.paint = <<>>, !.held = <<>>, !.active = Nothing]
      BY <1>5 DEF Handled
    <2>2. <<>> \in Seq(Nat) /\ Nothing \in Nat
      BY DEF Nothing
    <2>3. Handled(b, r) \in BackRecord
      BY <2>1, <2>2 DEF BackRecord
    <2>4. Handled(b, r).held = <<>> /\ Handled(b, r).paint = <<>> /\ Handled(b, r).active = Nothing
      BY <2>1 DEF BackRecord
    <2>5. QED
      BY <1>5, <2>3, <2>4
  <1>6. QED
    BY <1>1, <1>2, <1>3, <1>4, <1>5, Kinds

\* The answer a question gets.
LEMMA BackendIs ==
  ASSUME Typed, Backend
  PROVE  /\ up # <<>> /\ up' = Tail(up) /\ Head(up) \in Requests /\ UNCHANGED <<box, due, acts, changes>>
         /\ back' = Handled(back, Head(up)) /\ back' \in BackRecord
         /\ Head(up).ask \notin {"search", "where"} => down' = down
         /\ Head(up).ask \in {"search", "where"} =>
              \E a \in Returns : /\ down' = Append(down, a) /\ a.k = Head(up).k /\ a.total = Len(back'.held)
                                 /\ Head(up).ask = "where" => a.lines \in {<<>>, back'.held}
  <1>1. up # <<>> /\ up' = Tail(up) /\ Head(up) \in Requests /\ UNCHANGED <<box, due, acts, changes>>
    BY Pop DEF Typed, Backend
  <1>2. back' = Handled(back, Head(up))
    BY DEF Backend
  <1>3. back' \in BackRecord
    BY <1>1, <1>2, HandledIs DEF Typed, BackRecord
  <1>4. PICK lines \in (IF Head(up).ask = "where" THEN {back'.held, <<>>} ELSE {<<>>}) :
          down' = IF Head(up).ask \in {"search", "where"}
                  THEN Append(down, [k |-> Head(up).k, total |-> Len(back'.held),
                                     anchored |-> AnchoredIndex(back'), lines |-> lines])
                  ELSE down
    BY <1>2 DEF Backend
  <1> DEFINE a == [k |-> Head(up).k, total |-> Len(back'.held), anchored |-> AnchoredIndex(back'), lines |-> lines]
  <1>5. ASSUME Head(up).ask \in {"search", "where"}
        PROVE  a \in Returns
    <2> DEFINE b == back'
    <2>0. b.held \in Seq(Nat)
      BY <1>3 DEF BackRecord
    <2>1. AnchoredIndex(b) \in Int /\ Len(b.held) \in Nat /\ lines \in Seq(Nat)
      <3>1. AnchoredIndex(b) \in Int
        BY <2>0, AnchoredIs
      <3>2. lines \in {b.held, <<>>}
        OBVIOUS
      <3>3. <<>> \in Seq(Nat)
        OBVIOUS
      <3>4. lines \in Seq(Nat)
        <4>1. CASE lines = b.held
          BY <2>0, <4>1
        <4>2. CASE lines = <<>>
          BY <3>3, <4>2
        <4>3. QED
          BY <3>2, <4>1, <4>2
      <3>5. QED
        BY <2>0, <3>1, <3>4
    <2>2. Head(up).k \in Conts("total") \cup Conts("where")
      BY <1>1, <1>5, Kinds
    <2>3. QED
      BY <2>1, <2>2 DEF Returns
  <1>6. QED
    BY <1>1, <1>2, <1>3, <1>4, <1>5

\* What a box takes from an answer that is not superseded.
LEMMA InstallIs ==
  ASSUME Typed, NEW k, k.does \in {"search", "reSearch"}, NEW total \in Nat, NEW anchored \in Int, NEW lines \in Seq(Nat),
         Install(k, total, anchored, lines)
  PROVE  /\ box' \in BoxRecord /\ box'.total = total /\ box'.lines = lines
         /\ box'.epoch = box.epoch /\ box'.query = box.query /\ box'.timer = box.timer
         /\ total > 0 => box'.index < total /\ up' = Append(up, Show(box'.index))
         /\ total = 0 => up' = up
  <1>1. box \in BoxRecord
    BY DEF Typed, BoxRecord
  <1>2. Landed(k, total, anchored) \in Nat /\ (total > 0 => Landed(k, total, anchored) < total)
    BY <1>1 DEF Landed, Smaller, BoxRecord
  <1>3. box' = [box EXCEPT !.total = total, !.index = Landed(k, total, anchored), !.lines = lines]
    BY DEF Install
  <1>4. /\ box' \in BoxRecord /\ box'.total = total /\ box'.lines = lines /\ box'.index = Landed(k, total, anchored)
        /\ box'.epoch = box.epoch /\ box'.query = box.query /\ box'.timer = box.timer
    BY <1>1, <1>2, <1>3 DEF BoxRecord
  <1>5. QED
    BY <1>2, <1>4 DEF Install, Ask

\* A show of another match, in range.
LEMMA StepIs ==
  ASSUME Typed, Bounded, NextMatch \/ PrevMatch
  PROVE  /\ box.total # 0 /\ box' \in BoxRecord /\ box'.index < box'.total /\ up' = Append(up, Show(box'.index))
         /\ box'.total = box.total /\ box'.lines = box.lines /\ box'.epoch = box.epoch /\ box'.query = box.query
         /\ box'.timer = box.timer /\ UNCHANGED <<down, back, due, changes>>
  <1>1. box \in BoxRecord
    BY DEF Typed, BoxRecord
  <1>2. PICK place : Step(place) /\ place \in {(box.index + 1) % box.total, (box.index - 1 + box.total) % box.total}
    BY DEF NextMatch, PrevMatch
  <1>3. box.total \in Nat /\ box.total > 0 /\ box.index \in Nat
    BY <1>1, <1>2 DEF Step, BoxRecord
  <1>4. place \in Nat /\ place < box.total
    BY <1>2, <1>3
  <1>5. box' = [box EXCEPT !.index = place]
    BY <1>2 DEF Step
  <1>6. /\ box' \in BoxRecord /\ box'.index = place /\ box'.total = box.total /\ box'.lines = box.lines
        /\ box'.epoch = box.epoch /\ box'.query = box.query /\ box'.timer = box.timer
    BY <1>1, <1>4, <1>5 DEF BoxRecord
  <1>7. QED
    BY <1>2, <1>3, <1>4, <1>6 DEF Step, Ask

LEMMA AnswerIs ==
  ASSUME Typed, Answer
  PROVE  /\ down # <<>> /\ down' = Tail(down) /\ Head(down) \in Returns /\ UNCHANGED <<back, due, acts, changes>>
         /\ Head(down).k.epoch # box.epoch => box' = box /\ up' = up
         /\ Head(down).k.epoch = box.epoch =>
              /\ Head(down).k.at = "where" =>
                   Install(Head(down).k, Head(down).k.total, Head(down).anchored, Head(down).lines)
              /\ Head(down).k.at = "total" /\ Head(down).total = 0 => Install(Head(down).k, 0, Absent, <<>>)
              /\ Head(down).k.at = "total" /\ Head(down).total # 0 =>
                   /\ box' = box
                   /\ up' = Append(up, [ask |-> "where", k |-> Cont(Head(down).k.does, "where", Head(down).k.epoch,
                                                                    Head(down).total)])
  BY Pop DEF Typed, Answer, Superseded, Ask

\* What an answer that is not superseded leads to: a question, or a box that counts its set.
LEMMA TakenIs ==
  ASSUME Typed, Answer, Head(down).k.epoch = box.epoch
  PROVE  /\ box' \in BoxRecord /\ UNCHANGED <<box.epoch, box.query, box.timer>> /\ (Bounded => Bounded')
         /\ Head(down) \in Places(box.epoch) =>
              /\ box'.total = Head(down).k.total /\ box'.lines = Head(down).lines
              /\ box'.total > 0 => box'.index \in Nat /\ up' = Append(up, Show(box'.index))
              /\ box'.total = 0 => up' = up
         /\ Head(down) \in Counts(box.epoch) /\ Head(down).total = 0 => up' = up
         /\ Head(down) \in Counts(box.epoch) /\ Head(down).total # 0 =>
              \E r \in Requests : /\ up' = Append(up, r) /\ r.ask = "where" /\ r.k.epoch = box.epoch
                                  /\ r.k.total = Head(down).total
  <1> DEFINE a == Head(down)
  <1>1. a \in Returns /\ back' = back /\ box \in BoxRecord
    BY AnswerIs DEF Typed, BoxRecord
  <1>2. CASE a.k.at = "where"
    <2>1. Install(a.k, a.k.total, a.anchored, a.lines)
      BY <1>2, AnswerIs
    <2>2. a.k.does \in {"search", "reSearch"} /\ a.k.total \in Nat /\ a.anchored \in Int /\ a.lines \in Seq(Nat)
      BY <1>1, Answered
    <2>3. /\ box' \in BoxRecord /\ box'.total = a.k.total /\ box'.lines = a.lines
          /\ box'.epoch = box.epoch /\ box'.query = box.query /\ box'.timer = box.timer
          /\ a.k.total > 0 => box'.index < a.k.total /\ up' = Append(up, Show(box'.index))
          /\ a.k.total = 0 => up' = up
      BY <2>1, <2>2, InstallIs
    <2>4. a \notin Counts(box.epoch)
      BY <1>1, <1>2, Answered
    <2>5. Bounded => Bounded'
      BY <1>1, <2>3 DEF Bounded
    <2>6. QED
      BY <2>3, <2>4, <2>5 DEF BoxRecord
  <1>3. CASE a.k.at = "total" /\ a.total = 0
    <2>1. PICK k : k = a.k
      OBVIOUS
    <2>2. PICK n \in Nat : n = 0
      OBVIOUS
    <2>3. PICK at \in Int : at = Absent
      <3>1. Absent \in Int
        BY DEF Absent
      <3>2. QED
        BY <3>1
    <2>4. PICK lines \in Seq(Nat) : lines = <<>>
      BY EmptySeq
    <2>5. Install(k, n, at, lines)
      BY <1>3, <2>1, <2>2, <2>3, <2>4, AnswerIs
    <2>6. k.does \in {"search", "reSearch"}
      BY <1>1, <2>1, Answered
    <2>7. /\ box' \in BoxRecord /\ box'.total = n /\ up' = up
          /\ box'.epoch = box.epoch /\ box'.query = box.query /\ box'.timer = box.timer
      BY <2>2, <2>5, <2>6, InstallIs
    <2>8. a \notin Places(box.epoch)
      BY <1>1, <1>3, Answered
    <2>9. Bounded => Bounded'
      BY <1>1, <2>2, <2>7 DEF Bounded
    <2>10. QED
      BY <1>3, <2>2, <2>7, <2>8, <2>9
  <1>4. CASE a.k.at = "total" /\ a.total # 0
    <2> DEFINE r == [ask |-> "where", k |-> Cont(a.k.does, "where", a.k.epoch, a.total)]
    <2>1. box' = box /\ up' = Append(up, r)
      BY <1>4, AnswerIs
    <2>2. a.k \in Conts("total") /\ a.total \in Nat
      BY <1>1, <1>4, Answered
    <2>3. r \in Requests /\ r.ask = "where" /\ r.k.epoch = a.k.epoch /\ r.k.total = a.total
      BY <2>2, WhereAsked
    <2>4. a \notin Places(box.epoch)
      BY <1>1, <1>4, Answered
    <2>5. Bounded => Bounded'
      BY <1>1, <2>1 DEF Bounded
    <2>6. UNCHANGED <<box.epoch, box.query, box.timer>> /\ r.k.epoch = box.epoch
      BY <2>1, <2>3
    <2> HIDE DEF r
    <2>7. \E q \in Requests : /\ up' = Append(up, q) /\ q.ask = "where" /\ q.k.epoch = box.epoch
                              /\ q.k.total = a.total
      BY <2>1, <2>3, <2>6
    <2>8. QED
      BY <1>1, <1>4, <2>1, <2>4, <2>5, <2>6, <2>7
  <1>5. QED
    BY <1>1, <1>2, <1>3, <1>4, Answered

\* It asks at most one thing more, of the same epoch.
LEMMA TakenAsks ==
  ASSUME Typed, Answer, Head(down).k.epoch = box.epoch
  PROVE  \/ up' = up
         \/ \E r \in Requests : /\ up' = Append(up, r) /\ r.ask \in {"show", "where"}
                                /\ r.ask = "where" => r.k.epoch = box.epoch
  <1>1. Head(down) \in Returns
    BY AnswerIs
  <1>2. CASE Head(down) \in Counts(box.epoch)
    BY <1>2, TakenIs
  <1>3. CASE Head(down) \in Places(box.epoch)
    <2>1. Head(down).k.total \in Nat
      BY <1>1, Answered
    <2>2. CASE Head(down).k.total = 0
      BY <1>3, <2>2, TakenIs
    <2>3. CASE Head(down).k.total > 0
      <3>1. box'.index \in Nat /\ up' = Append(up, Show(box'.index))
        BY <1>3, <2>3, TakenIs
      <3>2. Show(box'.index) \in Requests /\ Show(box'.index).ask = "show"
        BY <3>1, ShowAsked
      <3>3. QED
        BY <3>1, <3>2
    <2>4. QED
      BY <2>1, <2>2, <2>3
  <1>4. QED
    BY <1>1, <1>2, <1>3, Answered

-----------------------------------------------------------------------------
(* Types.                                                                    *)

LEMMA UserIs ==
  ASSUME Typed, User
  PROVE  acts' \in Nat
  BY DEF Typed, User

\* The searches and their ends.
LEMMA LeaveIs ==
  ASSUME Typed, SearchInvalid \/ Clear
  PROVE  /\ box' \in BoxRecord /\ box'.epoch = box.epoch + 1 /\ box'.query \in {"none", "invalid"}
         /\ box'.total = 0 /\ box'.lines = <<>> /\ (box'.query = "none" => ~box'.timer)
         /\ acts' \in Nat /\ UNCHANGED <<down, back, due, changes>>
         /\ \E r \in Requests : up' = Append(up, r) /\ r.ask \in {"clear", "clearHighlights"}
  <1>1. box \in BoxRecord /\ <<>> \in Seq(Nat)
    BY DEF Typed, BoxRecord
  <1>2. CASE SearchInvalid
    <2>1. box' = [box EXCEPT !.epoch = box.epoch + 1, !.query = "invalid", !.total = 0, !.index = 0, !.lines = <<>>]
      BY <1>2 DEF SearchInvalid
    <2>2. /\ box' \in BoxRecord /\ box'.epoch = box.epoch + 1 /\ box'.query = "invalid"
          /\ box'.total = 0 /\ box'.lines = <<>>
      <3> DEFINE none == <<>>
                 query == "invalid"
                 e == box.epoch + 1
      <3>1. none \in Seq(Nat) /\ query \in Queries /\ e \in Nat
        BY <1>1 DEF Queries, BoxRecord
      <3>2. box' = [box EXCEPT !.epoch = e, !.query = query, !.total = 0, !.index = 0, !.lines = none]
        BY <2>1
      <3> HIDE DEF none, query, e
      <3>3. box' \in BoxRecord /\ box'.epoch = e /\ box'.query = query /\ box'.total = 0 /\ box'.lines = none
        BY <1>1, <3>1, <3>2 DEF BoxRecord
      <3>4. QED
        BY <3>3 DEF none, query, e
    <2>3. up' = Append(up, [ask |-> "clearHighlights"]) /\ UNCHANGED <<down, back, due, changes>> /\ acts' \in Nat
      BY <1>2, UserIs DEF SearchInvalid, Ask
    <2>4. QED
      BY <2>2, <2>3, ClearAsked
  <1>3. CASE Clear
    <2>1. box' = [query |-> "none", total |-> 0, index |-> 0, lines |-> <<>>, epoch |-> box.epoch + 1, timer |-> FALSE]
      BY <1>3 DEF Clear
    <2>2. /\ box' \in BoxRecord /\ box'.epoch = box.epoch + 1 /\ box'.query = "none"
          /\ box'.total = 0 /\ box'.lines = <<>> /\ ~box'.timer
      BY <1>1, <2>1 DEF BoxRecord, Queries
    <2>3. up' = Append(up, [ask |-> "clear"]) /\ UNCHANGED <<down, back, due, changes>> /\ acts' \in Nat
      BY <1>3, UserIs DEF Clear, Ask
    <2>4. QED
      BY <2>2, <2>3, ClearAsked
  <1>4. QED
    BY <1>2, <1>3

LEMMA SearchIs ==
  ASSUME Typed, Search
  PROVE  /\ box' \in BoxRecord /\ box'.epoch = box.epoch + 1 /\ box'.query = "valid"
         /\ box'.total = box.total /\ box'.index = box.index
         /\ acts' \in Nat /\ UNCHANGED <<down, back, due, changes>>
         /\ \E r \in Requests : up' = Append(up, r) /\ r.ask = "search" /\ r.k.epoch = box'.epoch
  <1>1. box' = [box EXCEPT !.epoch = box.epoch + 1, !.query = "valid"] /\ box \in BoxRecord
    BY DEF Typed, BoxRecord, Search
  <1>2. /\ box' \in BoxRecord /\ box'.epoch = box.epoch + 1 /\ box'.query = "valid"
        /\ box'.total = box.total /\ box'.index = box.index
    <2> DEFINE query == "valid"
               f == box.epoch + 1
    <2>1. query \in Queries /\ f \in Nat /\ box' = [box EXCEPT !.epoch = f, !.query = query]
      BY <1>1 DEF Queries, BoxRecord
    <2> HIDE DEF query, f
    <2>2. box' \in BoxRecord /\ box'.epoch = f /\ box'.query = query /\ UNCHANGED <<box.total, box.index>>
      BY <1>1, <2>1 DEF BoxRecord
    <2>3. QED
      BY <2>2 DEF query, f
  <1> DEFINE e == box.epoch + 1
             r == [ask |-> "search", k |-> Cont("search", "total", e, 0)]
  <1>3. e \in Nat /\ box'.epoch = e
    BY <1>1, <1>2 DEF BoxRecord
  <1>4. up' = Append(up, r) /\ UNCHANGED <<down, back, due, changes>> /\ acts' \in Nat
    BY <1>3, UserIs DEF Search, Ask
  <1>5. r \in Requests /\ r.ask = "search" /\ r.k.epoch = e
    BY <1>3, SearchAsked
  <1> HIDE DEF r
  <1>6. QED
    BY <1>2, <1>3, <1>4, <1>5

LEMMA ReSearchIs ==
  ASSUME Typed, ReSearch
  PROVE  /\ box.timer /\ box' = [box EXCEPT !.timer = FALSE] /\ box' \in BoxRecord /\ ~box'.timer
         /\ UNCHANGED <<box.query, box.total, box.index, box.lines, box.epoch>>
         /\ UNCHANGED <<down, back, due, acts, changes>>
         /\ box.query = "invalid" => up' = up
         /\ box.query # "invalid" =>
              \E r \in Requests : up' = Append(up, r) /\ r.ask = "search" /\ r.k.epoch = box.epoch
  <1>1. box.timer /\ box' = [box EXCEPT !.timer = FALSE] /\ box \in BoxRecord
    BY DEF Typed, BoxRecord, ReSearch
  <1>2. box' \in BoxRecord /\ ~box'.timer /\ UNCHANGED <<box.query, box.total, box.index, box.lines, box.epoch>>
    BY <1>1 DEF BoxRecord
  <1> DEFINE r == [ask |-> "search", k |-> Cont("reSearch", "total", box.epoch, 0)]
  <1>3. r \in Requests /\ r.ask = "search" /\ r.k.epoch = box.epoch
    BY <1>1, SearchAsked DEF BoxRecord
  <1>4. box.query = "invalid" => up' = up
    BY DEF ReSearch
  <1>5. box.query # "invalid" => up' = Append(up, r)
    BY DEF ReSearch, Ask
  <1>6. UNCHANGED <<down, back, due, acts, changes>>
    BY DEF ReSearch
  <1> HIDE DEF r
  <1>7. QED
    BY <1>1, <1>2, <1>3, <1>4, <1>5, <1>6

LEMMA OnFrameIs ==
  ASSUME Typed, OnFrame
  PROVE  /\ box' \in BoxRecord /\ UNCHANGED <<box.query, box.total, box.index, box.lines, box.epoch>>
         /\ due' = FALSE /\ UNCHANGED <<up, down, back, acts, changes>>
         /\ box.query = "none" => box' = box
  <1>1. box' \in {box, [box EXCEPT !.timer = TRUE]} /\ box \in BoxRecord
    BY DEF Typed, BoxRecord, OnFrame
  <1>2. QED
    BY <1>1 DEF BoxRecord, OnFrame

LEMMA ChangeIs ==
  ASSUME Typed, Change
  PROVE  /\ back' \in BackRecord /\ back'.held = back.held /\ back'.paint = <<>> /\ back'.active = Nothing
         /\ due' = TRUE /\ changes' \in Nat /\ UNCHANGED <<box, up, down, acts>>
  <1>1. back \in BackRecord /\ <<>> \in Seq(Nat) /\ Nothing \in Nat
    BY DEF Typed, BackRecord, Nothing
  <1>2. PICK b \in Buffers : back' = [back EXCEPT !.buffer = b, !.paint = <<>>, !.active = Nothing]
    BY DEF Change
  <1>3. b \in Seq(Nat)
    BY <1>2, BuffersAreOccurrences
  <1>4. back' \in BackRecord /\ back'.held = back.held /\ back'.paint = <<>> /\ back'.active = Nothing
    BY <1>1, <1>2, <1>3 DEF BackRecord
  <1>5. QED
    BY <1>4 DEF Change, Typed

LEMMA InitTyped ==
  ASSUME SearchInit
  PROVE  Typed
  <1>1. PICK b \in Buffers : back = [buffer |-> b, held |-> <<>>, paint |-> <<>>, active |-> Nothing, anchor |-> Nothing]
    BY DEF SearchInit
  <1>2. b \in Seq(Nat) /\ <<>> \in Seq(Nat) /\ Nothing \in Nat
    BY <1>1, BuffersAreOccurrences DEF Nothing
  <1>3. back \in BackRecord
    BY <1>1, <1>2 DEF BackRecord
  <1>4. box \in BoxRecord
    BY <1>2 DEF SearchInit, BoxRecord, Queries
  <1>5. up \in Seq(Requests) /\ down \in Seq(Returns) /\ acts \in Nat /\ changes \in Nat /\ due \in BOOLEAN
    <2>1. \A S : <<>> \in Seq(S)
      OBVIOUS
    <2>2. up \in Seq(Requests) /\ down \in Seq(Returns)
      BY <2>1 DEF SearchInit
    <2>3. acts \in Nat /\ changes \in Nat /\ due \in BOOLEAN
      BY DEF SearchInit
    <2>4. QED
      BY <2>2, <2>3
  <1>6. QED
    BY <1>3, <1>4, <1>5 DEF Typed, BoxRecord, BackRecord

LEMMA NextTyped ==
  ASSUME Typed, Bounded, SearchNext
  PROVE  Typed'
  <1>1. SUFFICES /\ box' \in BoxRecord /\ back' \in BackRecord /\ up' \in Seq(Requests) /\ down' \in Seq(Returns)
                 /\ acts' \in Nat /\ changes' \in Nat /\ due' \in BOOLEAN
    BY DEF Typed, BoxRecord, BackRecord
  <1>2. /\ box \in BoxRecord /\ back \in BackRecord /\ up \in Seq(Requests) /\ down \in Seq(Returns)
        /\ acts \in Nat /\ changes \in Nat /\ due \in BOOLEAN
    BY DEF Typed, BoxRecord, BackRecord
  <1>3. CASE Backend
    <2>1. up' \in Seq(Requests) /\ back' \in BackRecord /\ UNCHANGED <<box, due, acts, changes>>
      BY <1>2, <1>3, BackendIs, Pop
    <2>2. down' = down \/ \E a \in Returns : down' = Append(down, a)
      BY <1>3, BackendIs
    <2>3. down' \in Seq(Returns)
      BY <1>2, <2>2, PushTyped
    <2>4. QED
      BY <1>2, <2>1, <2>3
  <1>4. CASE Change
    BY <1>2, <1>4, ChangeIs
  <1>5. CASE Search
    <2>1. PICK r \in Requests : up' = Append(up, r)
      BY <1>5, SearchIs
    <2>2. QED
      BY <1>2, <1>5, <2>1, SearchIs, Push
  <1>6. CASE SearchInvalid \/ Clear
    <2>1. PICK r \in Requests : up' = Append(up, r)
      BY <1>6, LeaveIs
    <2>2. QED
      BY <1>2, <1>6, <2>1, LeaveIs, Push
  <1>7. CASE NextMatch \/ PrevMatch
    <2>1. box' \in BoxRecord /\ up' = Append(up, Show(box'.index)) /\ UNCHANGED <<down, back, due, changes>>
      BY <1>7, StepIs
    <2>2. Show(box'.index) \in Requests
      BY <2>1, ShowAsked DEF BoxRecord
    <2>3. acts' \in Nat
      BY <1>7, UserIs DEF NextMatch, PrevMatch, Step
    <2>4. QED
      BY <1>2, <2>1, <2>2, <2>3, Push
  <1>8. CASE OnFrame
    BY <1>2, <1>8, OnFrameIs
  <1>9. CASE ReSearch
    <2>1. up' = up \/ \E r \in Requests : up' = Append(up, r)
      BY <1>9, ReSearchIs
    <2>2. up' \in Seq(Requests)
      BY <1>2, <2>1, PushTyped
    <2>3. box' \in BoxRecord /\ UNCHANGED <<down, back, due, acts, changes>>
      BY <1>9, ReSearchIs
    <2>4. QED
      BY <1>2, <2>2, <2>3
  <1>10. CASE Answer
    <2>1. down' \in Seq(Returns) /\ UNCHANGED <<back, due, acts, changes>> /\ Head(down) \in Returns
      BY <1>2, <1>10, AnswerIs, Pop
    <2>2. CASE Head(down).k.epoch # box.epoch
      BY <1>2, <1>10, <2>1, <2>2, AnswerIs
    <2>3. CASE Head(down).k.epoch = box.epoch
      <3>1. box' \in BoxRecord
        BY <1>10, <2>3, TakenIs
      <3>2. up' = up \/ \E r \in Requests : up' = Append(up, r)
        BY <1>10, <2>3, TakenAsks
      <3>3. up' \in Seq(Requests)
        BY <1>2, <3>2, PushTyped
      <3>4. QED
        BY <1>2, <2>1, <3>1, <3>3
    <2>4. QED
      BY <2>2, <2>3
  <1>11. QED
    BY <1>3, <1>4, <1>5, <1>6, <1>7, <1>8, <1>9, <1>10 DEF SearchNext

-----------------------------------------------------------------------------
(* An epoch nothing is out of stays so while it is not the box's.            *)

LEMMA UnaskedBackend ==
  ASSUME Typed, Backend, NEW e, Unasked(e)
  PROVE  Unasked(e)'
  <1>1. up \in Seq(Requests) /\ down \in Seq(Returns) /\ up # <<>> /\ up' = Tail(up) /\ Head(up) \in Requests
    BY BackendIs DEF Typed
  <1>2. /\ NoneIn(up', Searches(e)) /\ Head(up) \notin Searches(e)
        /\ NoneIn(up', Wheres(e)) /\ Head(up) \notin Wheres(e)
    BY <1>1, NonePop DEF Unasked
  <1>3. down' = down \/ \E a \in Returns : down' = Append(down, a) /\ a.k.epoch # e
    <2>1. Head(up).ask \in {"search", "where"} => Head(up).k.epoch # e
      BY <1>1, <1>2, Kinds
    <2>2. QED
      BY <2>1, <1>1, BackendIs, Kinds
  <1>4. NoneIn(down', Counts(e)) /\ NoneIn(down', Places(e))
    <2>1. CASE down' = down
      BY <2>1 DEF Unasked
    <2>2. ASSUME NEW a \in Returns, down' = Append(down, a), a.k.epoch # e
          PROVE  NoneIn(down', Counts(e)) /\ NoneIn(down', Places(e))
      <3>1. a \notin Counts(e) /\ a \notin Places(e)
        BY <2>2, Answered
      <3>2. QED
        BY <1>1, <2>2, <3>1, NonePush DEF Unasked
    <2>3. QED
      BY <1>3, <2>1, <2>2
  <1>5. QED
    BY <1>2, <1>4 DEF Unasked

LEMMA UnaskedPush ==
  ASSUME Typed, NEW r \in Requests, up' = Append(up, r), UNCHANGED down, NEW e, Unasked(e),
         r.ask \in {"search", "where"} => r.k.epoch # e
  PROVE  Unasked(e)'
  <1>1. r \notin Searches(e) /\ r \notin Wheres(e)
    BY Kinds
  <1>2. QED
    BY <1>1, NonePush DEF Unasked, Typed

LEMMA UnaskedAnswer ==
  ASSUME Typed, Answer, NEW e, Unasked(e)
  PROVE  Unasked(e)'
  <1>1. /\ up \in Seq(Requests) /\ down \in Seq(Returns) /\ down # <<>> /\ down' = Tail(down)
        /\ Head(down) \in Returns /\ box.epoch \in Nat
    BY AnswerIs DEF Typed
  <1>2. /\ NoneIn(down', Counts(e)) /\ Head(down) \notin Counts(e)
        /\ NoneIn(down', Places(e)) /\ Head(down) \notin Places(e)
    BY <1>1, NonePop DEF Unasked
  <1>3. Head(down).k.epoch # e
    BY <1>1, <1>2, Answered
  <1>4. up' = up \/ \E r \in Requests : up' = Append(up, r) /\ (r.ask \in {"search", "where"} => r.k.epoch # e)
    <2>1. CASE Head(down).k.epoch # box.epoch
      BY <2>1, AnswerIs
    <2>2. CASE Head(down).k.epoch = box.epoch
      BY <1>3, <2>2, TakenAsks
    <2>3. QED
      BY <2>1, <2>2
  <1>5. NoneIn(up', Searches(e)) /\ NoneIn(up', Wheres(e))
    <2>1. CASE up' = up
      BY <2>1 DEF Unasked
    <2>2. ASSUME NEW r \in Requests, up' = Append(up, r), r.ask \in {"search", "where"} => r.k.epoch # e
          PROVE  NoneIn(up', Searches(e)) /\ NoneIn(up', Wheres(e))
      <3>1. r \notin Searches(e) /\ r \notin Wheres(e)
        BY <2>2, Kinds
      <3>2. QED
        BY <1>1, <2>2, <3>1, NonePush DEF Unasked
    <2>3. QED
      BY <1>4, <2>1, <2>2
  <1>6. QED
    BY <1>2, <1>5 DEF Unasked

LEMMA UnaskedHolds ==
  ASSUME Typed, Bounded, SearchNext, NEW e \in Nat, Unasked(e), e # box'.epoch
  PROVE  Unasked(e)'
  <1>1. CASE Backend
    BY <1>1, UnaskedBackend
  <1>2. CASE Answer
    BY <1>2, UnaskedAnswer
  <1>3. CASE Change
    BY <1>3, ChangeIs DEF Unasked
  <1>4. CASE OnFrame
    BY <1>4, OnFrameIs DEF Unasked
  <1>5. CASE Search
    <2>1. PICK r \in Requests : up' = Append(up, r) /\ r.k.epoch = box'.epoch
      BY <1>5, SearchIs
    <2>2. QED
      BY <1>5, <2>1, SearchIs, UnaskedPush
  <1>6. CASE SearchInvalid \/ Clear
    <2>1. PICK r \in Requests : up' = Append(up, r) /\ r.ask \in {"clear", "clearHighlights"}
      BY <1>6, LeaveIs
    <2>2. QED
      BY <1>6, <2>1, LeaveIs, UnaskedPush
  <1>7. CASE NextMatch \/ PrevMatch
    <2>1. box' \in BoxRecord /\ up' = Append(up, Show(box'.index)) /\ UNCHANGED <<down, back, due, changes>>
      BY <1>7, StepIs
    <2>2. Show(box'.index) \in Requests /\ Show(box'.index).ask = "show"
      BY <2>1, ShowAsked DEF BoxRecord
    <2>3. QED
      BY <2>1, <2>2, UnaskedPush
  <1>8. CASE ReSearch
    <2>1. CASE box.query = "invalid"
      BY <1>8, <2>1, ReSearchIs DEF Unasked
    <2>2. CASE box.query # "invalid"
      <3>1. PICK r \in Requests : up' = Append(up, r) /\ r.k.epoch = box.epoch
        BY <1>8, <2>2, ReSearchIs
      <3>2. box'.epoch = box.epoch
        BY <1>8, ReSearchIs
      <3>3. QED
        BY <1>8, <3>1, <3>2, ReSearchIs, UnaskedPush
    <2>3. QED
      BY <2>1, <2>2
  <1>9. QED
    BY <1>1, <1>2, <1>3, <1>4, <1>5, <1>6, <1>7, <1>8 DEF SearchNext

\* What a step does to the query and the epoch, and to the ranges.
LEMMA BoxIs ==
  ASSUME Typed, Bounded, SearchNext, box.query # "valid" => Left
  PROVE  /\ UNCHANGED <<box.epoch, box.query>> \/ box'.epoch = box.epoch + 1
         /\ Bounded'
         /\ (box.query = "none" => ~box.timer) => (box'.query = "none" => ~box'.timer)
  <1>1. box \in BoxRecord /\ back \in BackRecord
    BY DEF Typed, BoxRecord, BackRecord
  <1>2. CASE Backend
    <2>1. UNCHANGED box /\ back' = Handled(back, Head(up)) /\ Head(up) \in Requests
      BY <1>2, BackendIs
    <2>2. back'.paint \in {<<>>, back'.held}
      BY <1>1, <2>1, HandledIs, Kinds DEF Bounded
    <2>3. QED
      BY <2>1, <2>2 DEF Bounded
  <1>3. CASE Answer
    <2>1. CASE Head(down).k.epoch # box.epoch
      BY <1>3, <2>1, AnswerIs DEF Bounded
    <2>2. CASE Head(down).k.epoch = box.epoch
      BY <1>3, <2>2, TakenIs
    <2>3. QED
      BY <2>1, <2>2
  <1>4. CASE Change
    BY <1>4, ChangeIs DEF Bounded
  <1>5. CASE OnFrame
    BY <1>5, OnFrameIs DEF Bounded
  <1>6. CASE Search
    BY <1>6, SearchIs DEF Bounded
  <1>7. CASE SearchInvalid \/ Clear
    BY <1>7, LeaveIs DEF Bounded
  <1>8. CASE NextMatch \/ PrevMatch
    BY <1>8, StepIs DEF Bounded
  <1>9. CASE ReSearch
    BY <1>9, ReSearchIs DEF Bounded
  <1>10. QED
    BY <1>2, <1>3, <1>4, <1>5, <1>6, <1>7, <1>8, <1>9 DEF SearchNext

LEMMA DatedHolds ==
  ASSUME Typed, Bounded, Dated, SearchNext, box.query # "valid" => Left
  PROVE  Dated'
  <1>1. box'.epoch \in {box.epoch, box.epoch + 1} /\ box.epoch \in Nat
    BY BoxIs DEF Typed
  <1>2. ASSUME NEW e \in Nat, e > box'.epoch
        PROVE  Unasked(e)'
    <2>1. e > box.epoch /\ e # box'.epoch
      BY <1>1, <1>2
    <2>2. QED
      BY <2>1, UnaskedHolds DEF Dated
  <1>3. QED
    BY <1>2, BoxIs DEF Dated

-----------------------------------------------------------------------------
(* A search that was left stays left.                                        *)

LEMMA LeftBackend ==
  ASSUME Typed, Left, Backend
  PROVE  Left'
  <1>1. /\ up # <<>> /\ up' = Tail(up) /\ up \in Seq(Requests) /\ Head(up) \in Requests /\ UNCHANGED box
        /\ back' = Handled(back, Head(up)) /\ back \in BackRecord
    BY BackendIs DEF Typed, BackRecord
  <1>2. Unasked(box.epoch)'
    <2>0. PICK e : e = box.epoch
      OBVIOUS
    <2>1. Unasked(e) /\ e = box'.epoch
      BY <1>1, <2>0 DEF Left
    <2>2. Unasked(e)'
      BY <2>1, UnaskedBackend
    <2>3. QED
      BY <2>1, <2>2 DEF Unasked
  <1>3. LastIn(up', Requests, Clearing) \/ (Head(up) \in Clearing /\ NoneIn(up', Requests))
    BY <1>1, LastPop DEF Left
  <1>4. CASE up' = <<>>
    <2>1. ~LastIn(up', Requests, Clearing)
      BY <1>4 DEF LastIn
    <2>2. Head(up).ask \in {"clear", "clearHighlights"}
      BY <1>1, <1>3, <2>1, Kinds
    <2>3. back'.paint = <<>> /\ back'.active = Nothing
      BY <1>1, <2>2, HandledIs
    <2>4. QED
      BY <1>1, <1>2, <1>4, <2>3 DEF Left
  <1>5. CASE up' # <<>>
    <2>1. ~NoneIn(up', Requests)
      <3>1. up' \in Seq(Requests)
        BY <1>1, Pop
      <3>2. 1 \in DOMAIN up' /\ up'[1] \in Requests
        BY <1>5, <3>1, Pop
      <3>3. QED
        BY <3>2 DEF NoneIn
    <2>2. QED
      BY <1>1, <1>2, <1>3, <1>5, <2>1 DEF Left
  <1>6. QED
    BY <1>4, <1>5

LEMMA LeftHolds ==
  ASSUME Typed, Bounded, Dated, SearchNext, box.query # "valid" => Left, box'.query # "valid"
  PROVE  Left'
  <1>1. CASE Search
    BY <1>1, SearchIs
  <1>2. CASE SearchInvalid \/ Clear
    <2>0. PICK e : e = box.epoch + 1
      OBVIOUS
    <2>1. PICK r \in Requests : up' = Append(up, r) /\ r.ask \in {"clear", "clearHighlights"}
      BY <1>2, LeaveIs
    <2>2. box'.epoch = e /\ e \in Nat /\ e > box.epoch /\ box'.total = 0 /\ box'.lines = <<>> /\ UNCHANGED down
      <3>1. e \in Nat /\ e > box.epoch
        BY <2>0 DEF Typed
      <3>2. box'.epoch = e /\ box'.total = 0 /\ box'.lines = <<>> /\ UNCHANGED down
        BY <1>2, <2>0, LeaveIs
      <3>3. QED
        BY <3>1, <3>2
    <2>3. Unasked(e)
      BY <2>2 DEF Dated
    <2>4. Unasked(e)'
      BY <2>1, <2>2, <2>3, UnaskedPush
    <2>5. r \in Clearing
      BY <2>1, Kinds
    <2>6. up' # <<>> /\ LastIn(up', Requests, Clearing)
      BY <2>1, <2>5, LastNew, Push DEF Typed
    <2>7. QED
      BY <2>2, <2>4, <2>6 DEF Left, Unasked
  <1>3. CASE ~(Search \/ SearchInvalid \/ Clear)
    <2>1. box'.query = box.query /\ Left
      <3>1. CASE Backend
        BY <3>1, BackendIs
      <3>2. CASE Answer
        <4>1. CASE Head(down).k.epoch # box.epoch
          BY <3>2, <4>1, AnswerIs
        <4>2. CASE Head(down).k.epoch = box.epoch
          BY <3>2, <4>2, TakenIs
        <4>3. QED
          BY <4>1, <4>2
      <3>3. CASE Change
        BY <3>3, ChangeIs
      <3>4. CASE OnFrame
        BY <3>4, OnFrameIs
      <3>5. CASE NextMatch \/ PrevMatch
        BY <3>5, StepIs
      <3>6. CASE ReSearch
        BY <3>6, ReSearchIs
      <3>7. QED
        BY <1>3, <3>1, <3>2, <3>3, <3>4, <3>5, <3>6 DEF SearchNext
    <2>2. CASE Backend
      BY <2>1, <2>2, LeftBackend
    <2>3. CASE Answer
      <3>0. PICK e : e = box.epoch
        OBVIOUS
      <3>1. Unasked(e)
        BY <2>1, <3>0 DEF Left
      <3>2. Unasked(e)'
        BY <2>3, <3>1, UnaskedAnswer
      <3>3. Head(down).k.epoch # e
        <4>1. down \in Seq(Returns) /\ down # <<>> /\ Head(down) \in Returns
          BY <2>3, AnswerIs DEF Typed
        <4>2. Head(down) \notin Counts(e) /\ Head(down) \notin Places(e)
          BY <3>1, <4>1, NonePop DEF Unasked
        <4>3. QED
          BY <4>1, <4>2, Answered
      <3>4. box' = box /\ up' = up /\ back' = back
        BY <2>3, <3>0, <3>3, AnswerIs
      <3>5. QED
        BY <2>1, <3>0, <3>2, <3>4 DEF Left, Unasked
    <2>4. CASE Change
      BY <2>1, <2>4, ChangeIs DEF Left, Unasked
    <2>5. CASE OnFrame
      BY <2>1, <2>5, OnFrameIs DEF Left, Unasked
    <2>6. CASE NextMatch \/ PrevMatch
      BY <2>1, <2>6, StepIs DEF Left
    <2>7. CASE ReSearch
      <3>1. box.query = "invalid"
        BY <2>1, <2>7, ReSearchIs DEF Dated, Typed, Queries
      <3>2. QED
        BY <2>1, <2>7, <3>1, ReSearchIs DEF Left, Unasked
    <2>8. QED
      BY <1>3, <2>2, <2>3, <2>4, <2>5, <2>6, <2>7 DEF SearchNext
  <1>4. QED
    BY <1>1, <1>2, <1>3

-----------------------------------------------------------------------------
(* The last search that replaced the matches, from its request on.           *)

LEMMA RequestedBackend ==
  ASSUME Typed, Requested, Backend
  PROVE  Requested' \/ (Settled' /\ Counted')
  <1>1. PICK e : e = box.epoch
    OBVIOUS
  <1>2. /\ up # <<>> /\ up' = Tail(up) /\ up \in Seq(Requests) /\ Head(up) \in Requests /\ UNCHANGED box
        /\ down \in Seq(Returns)
    BY BackendIs DEF Typed
  <1>3. LastIn(up', Replacing, Searches(e)) \/ (Head(up) \in Searches(e) /\ NoneIn(up', Replacing))
    BY <1>1, <1>2, LastPop DEF Requested
  <1>4. CASE Head(up) \in Searches(e) /\ NoneIn(up', Replacing)
    <2>1. Head(up).ask = "search" /\ Head(up).k.epoch = e /\ Head(up).k.at = "total"
      BY <1>2, <1>4, Kinds DEF Conts
    <2>2. PICK a \in Returns : down' = Append(down, a) /\ a.k = Head(up).k /\ a.total = Len(back'.held)
      BY <2>1, BackendIs
    <2>3. a \in Counting(e, back'.held)
      BY <2>1, <2>2, Answered DEF Counting
    <2>4. LastIn(down', Counts(e), Counting(e, back'.held))
      BY <1>2, <2>2, <2>3, LastNew
    <2>5. QED
      BY <1>1, <1>2, <1>4, <2>4 DEF Settled, Counted
  <1>5. QED
    BY <1>1, <1>2, <1>3, <1>4 DEF Requested

LEMMA RequestedPush ==
  ASSUME Typed, Requested, NEW r \in Requests, up' = Append(up, r), box'.epoch = box.epoch,
         r.ask \in {"show", "where"} \/ (r.ask = "search" /\ r.k.epoch = box.epoch)
  PROVE  Requested'
  <1>1. CASE r.ask \in {"show", "where"}
    <2>1. r \notin Replacing
      BY <1>1, Kinds
    <2>2. QED
      BY <2>1, LastPush DEF Requested, Typed
  <1>2. CASE r.ask = "search" /\ r.k.epoch = box.epoch
    <2>1. r \in Searches(box.epoch)
      BY <1>2, Kinds
    <2>2. QED
      BY <2>1, LastNew DEF Requested, Typed
  <1>3. QED
    BY <1>1, <1>2

\* A search that begins, and every re-search, is the last.
LEMMA SearchRequests ==
  ASSUME Typed, NEW r \in Requests, up' = Append(up, r), r.ask = "search", r.k.epoch = box'.epoch
  PROVE  Requested'
  <1>1. r \in Searches(box'.epoch)
    BY Kinds
  <1>2. QED
    BY <1>1, LastNew DEF Requested, Typed

\* The backend handles a request that replaces nothing.
LEMMA SettledBackend ==
  ASSUME Typed, Bounded, Settled, Stage, Backend
  PROVE  Settled' /\ Stage'
  <1>1. PICK e : e = box.epoch
    OBVIOUS
  <1>2. /\ up # <<>> /\ up' = Tail(up) /\ up \in Seq(Requests) /\ Head(up) \in Requests /\ UNCHANGED box
        /\ down \in Seq(Returns) /\ back \in BackRecord /\ back' = Handled(back, Head(up))
    BY BackendIs DEF Typed, BackRecord
  <1>3. NoneIn(up', Replacing) /\ Head(up).ask \in {"show", "where"}
    BY <1>2, NonePop, Kinds DEF Settled
  <1>4. PICK held : held = back.held
    OBVIOUS
  <1>5. back'.held = held /\ back'.paint = back.paint
    BY <1>2, <1>3, <1>4, HandledIs
  <1>6. \/ Head(up).ask = "show" /\ down' = down
        \/ /\ Head(up).ask = "where" /\ back' = back
           /\ \E a \in Returns : /\ down' = Append(down, a) /\ a.k = Head(up).k
                                 /\ a.lines \in {<<>>, held}
    BY <1>2, <1>3, <1>5, BackendIs, HandledIs
  <1>7. \A a \in Returns : a.k = Head(up).k /\ Head(up).ask = "where" =>
          /\ a.k.epoch = Head(up).k.epoch /\ a \in Places(a.k.epoch)
          /\ \A f : a \notin Counts(f) /\ (a \in Places(f) <=> Head(up) \in Wheres(f))
    <2> SUFFICES ASSUME NEW a \in Returns, a.k = Head(up).k, Head(up).ask = "where"
                 PROVE  /\ a.k.epoch = Head(up).k.epoch /\ a \in Places(a.k.epoch)
                        /\ \A f : a \notin Counts(f) /\ (a \in Places(f) <=> Head(up) \in Wheres(f))
      OBVIOUS
    <2>1. a.k.at = "where"
      BY <1>2, Kinds DEF Conts
    <2>2. QED
      BY <1>2, <2>1, Answered, Kinds
  <1>8. ASSUME NoneIn(down, Counts(e)) PROVE NoneIn(down', Counts(e))
    <2>1. CASE down' = down
      BY <1>8, <2>1
    <2>2. ASSUME NEW a \in Returns, down' = Append(down, a), a \notin Counts(e)
          PROVE  NoneIn(down', Counts(e))
      BY <1>2, <1>8, <2>2, NonePush
    <2>3. QED
      BY <1>6, <1>7, <2>1, <2>2
  <1>9. CASE Counted
    <2>1. LastIn(down, Counts(e), Counting(e, held))
      BY <1>1, <1>4, <1>9 DEF Counted
    <2>2. LastIn(down', Counts(e), Counting(e, held))
      BY <1>2, <1>6, <1>7, <2>1, LastPush
    <2>3. QED
      BY <1>1, <1>2, <1>3, <1>5, <2>2 DEF Settled, Stage, Counted
  <1>10. CASE Located
    <2>1. LastIn(up, Wheres(e), Locating(e, held)) /\ NoneIn(down', Counts(e))
      BY <1>1, <1>4, <1>8, <1>10 DEF Located
    <2>2. LastIn(up', Wheres(e), Locating(e, held)) \/ (Head(up) \in Locating(e, held) /\ NoneIn(up', Wheres(e)))
      BY <1>2, <2>1, LastPop
    <2>3. CASE Head(up) \in Locating(e, held) /\ NoneIn(up', Wheres(e))
      <3>1. Head(up) \in Wheres(e) /\ Head(up).k.total = Len(held) /\ Head(up).ask = "where"
        BY <1>2, <2>3, Kinds DEF Locating
      <3>2. PICK a \in Returns : down' = Append(down, a) /\ a.k = Head(up).k /\ a.lines \in {<<>>, held}
        BY <1>6, <3>1
      <3>3. a \in Placing(e, held)
        BY <1>7, <3>1, <3>2 DEF Placing
      <3>4. LastIn(down', Places(e), Placing(e, held))
        BY <1>2, <3>2, <3>3, LastNew
      <3>5. QED
        BY <1>1, <1>2, <1>3, <1>5, <2>1, <2>3, <3>4 DEF Settled, Stage, Placed
    <2>4. QED
      BY <1>1, <1>2, <1>3, <1>5, <2>1, <2>2, <2>3 DEF Settled, Stage, Located
  <1>11. ASSUME NoneIn(up, Wheres(e))
         PROVE  /\ NoneIn(up', Wheres(e))
                /\ \A a \in Returns : a.k = Head(up).k /\ Head(up).ask = "where" => a \notin Places(e)
    BY <1>2, <1>7, <1>11, NonePop
  <1>12. CASE Placed
    <2>1. /\ LastIn(down, Places(e), Placing(e, held)) /\ NoneIn(down', Counts(e)) /\ NoneIn(up', Wheres(e))
          /\ \A a \in Returns : a.k = Head(up).k /\ Head(up).ask = "where" => a \notin Places(e)
      BY <1>1, <1>4, <1>8, <1>11, <1>12 DEF Placed
    <2>2. LastIn(down', Places(e), Placing(e, held))
      BY <1>2, <1>6, <2>1, LastPush
    <2>3. QED
      BY <1>1, <1>2, <1>3, <1>5, <2>1, <2>2 DEF Settled, Stage, Placed
  <1>13. CASE Installed
    <2>1. /\ NoneIn(down, Places(e)) /\ NoneIn(down', Counts(e)) /\ NoneIn(up', Wheres(e))
          /\ \A a \in Returns : a.k = Head(up).k /\ Head(up).ask = "where" => a \notin Places(e)
      BY <1>1, <1>8, <1>11, <1>13 DEF Installed
    <2>2. NoneIn(down', Places(e))
      BY <1>2, <1>6, <2>1, NonePush
    <2>3. box'.total = Len(back'.held) /\ box'.lines \in {<<>>, back'.held}
      BY <1>2, <1>4, <1>5, <1>13 DEF Installed
    <2>4. held = <<>> \/ Shown'
      <3>1. CASE LastIn(up, Shows, {Show(box.index)})
        <4>1. PICK place : place = box.index
          OBVIOUS
        <4>2. LastIn(up', Shows, {Show(place)}) \/ (Head(up) \in {Show(place)} /\ NoneIn(up', Shows))
          BY <1>2, <3>1, <4>1, LastPop
        <4>3. CASE Head(up) = Show(place) /\ NoneIn(up', Shows) /\ held # <<>>
          <5>1. Head(up).ask = "show" /\ Head(up).index = place /\ place \in Nat
            BY <4>1, <4>3, ShowAsked DEF Typed
          <5>2. box.total = Len(held) /\ Len(held) > 0 /\ place < Len(held)
            BY <1>2, <1>4, <1>13, <4>1, <4>3 DEF Installed, Bounded, BackRecord
          <5>3. back'.active = back'.held[place + 1]
            BY <1>2, <1>4, <1>5, <5>1, <5>2, HandledIs
          <5>4. QED
            BY <1>2, <4>1, <4>3, <5>3 DEF Shown
        <4>4. QED
          BY <1>2, <4>1, <4>2, <4>3 DEF Shown
      <3>2. CASE NoneIn(up, Shows) /\ (back.paint = <<>> \/ back.active = back.held[box.index + 1])
        <4>1. NoneIn(up', Shows) /\ Head(up).ask # "show"
          BY <1>2, <3>2, NonePop, Kinds
        <4>2. back' = back
          BY <1>6, <4>1
        <4>3. QED
          BY <1>2, <3>2, <4>1, <4>2 DEF Shown
      <3>3. QED
        BY <1>13, <3>1, <3>2 DEF Installed, Shown
    <2>5. QED
      BY <1>1, <1>2, <1>3, <1>5, <2>1, <2>2, <2>3, <2>4 DEF Settled, Stage, Installed
  <1>14. CASE held = <<>>
    BY <1>3, <1>5, <1>14 DEF Settled, Stage
  <1>15. QED
    BY <1>4, <1>9, <1>10, <1>12, <1>13, <1>14 DEF Stage

\* The user steps: one more show, of the match the box now counts as current.
LEMMA SettledStep ==
  ASSUME Typed, Bounded, Settled, Stage, NextMatch \/ PrevMatch
  PROVE  Settled' /\ Stage'
  <1>1. PICK e : e = box.epoch
    OBVIOUS
  <1>2. /\ box' \in BoxRecord /\ up' = Append(up, Show(box'.index)) /\ UNCHANGED <<down, back>>
        /\ UNCHANGED <<box.total, box.lines, box.epoch>> /\ up \in Seq(Requests)
    BY StepIs DEF Typed
  <1>3. PICK place \in Nat : place = box'.index
    BY <1>2 DEF BoxRecord
  <1>4. PICK r \in Requests : r = Show(place) /\ r.ask = "show" /\ up' = Append(up, r)
    BY <1>2, <1>3, ShowAsked
  <1>5. r \notin Replacing /\ r \notin Wheres(e) /\ r \in {Show(place)}
    BY <1>4, Kinds
  <1>6. Settled'
    BY <1>2, <1>4, <1>5, NonePush DEF Settled
  <1>7. NoneIn(up, Wheres(e)) => NoneIn(up', Wheres(e))
    BY <1>2, <1>4, <1>5, NonePush
  <1>8. CASE Counted
    BY <1>2, <1>6, <1>8 DEF Stage, Counted
  <1>9. CASE Located
    <2>1. LastIn(up', Wheres(e), Locating(e, back.held))
      BY <1>1, <1>2, <1>4, <1>5, <1>9, LastPush DEF Located
    <2>2. QED
      BY <1>1, <1>2, <1>6, <1>9, <2>1 DEF Stage, Located
  <1>10. CASE Placed
    BY <1>1, <1>2, <1>6, <1>7, <1>10 DEF Stage, Placed
  <1>11. CASE Installed
    <2>1. LastIn(up', Shows, {Show(place)})
      BY <1>2, <1>4, <1>5, LastNew
    <2>2. QED
      BY <1>1, <1>2, <1>3, <1>6, <1>7, <1>11, <2>1 DEF Stage, Installed, Shown
  <1>12. CASE back.held = <<>>
    BY <1>2, <1>6, <1>12 DEF Stage
  <1>13. QED
    BY <1>8, <1>9, <1>10, <1>11, <1>12 DEF Stage

\* An answer that is not of the box's epoch changes no stage.
LEMMA SettledSuperseded ==
  ASSUME Typed, Settled, Stage, Answer, Head(down).k.epoch # box.epoch
  PROVE  Settled' /\ Stage'
  <1>1. PICK e : e = box.epoch
    OBVIOUS
  <1>2. /\ down # <<>> /\ down' = Tail(down) /\ down \in Seq(Returns) /\ Head(down) \in Returns
        /\ box' = box /\ up' = up /\ back' = back
    BY AnswerIs DEF Typed
  <1>3. Head(down) \notin Counts(e) /\ Head(down) \notin Places(e)
    BY <1>1, <1>2, Answered
  <1>4. PICK held : held = back.held
    OBVIOUS
  <1>5. Head(down) \notin Counting(e, held) /\ Head(down) \notin Placing(e, held)
    BY <1>3 DEF Counting, Placing
  <1>6. /\ NoneIn(down, Counts(e)) => NoneIn(down', Counts(e))
        /\ NoneIn(down, Places(e)) => NoneIn(down', Places(e))
    BY <1>2, NonePop
  <1>7. Counted => Counted'
    BY <1>1, <1>2, <1>4, <1>5, LastPop DEF Counted
  <1>8. Placed => Placed'
    BY <1>1, <1>2, <1>4, <1>5, <1>6, LastPop DEF Placed
  <1>9. (Located => Located') /\ (Installed => Installed')
    BY <1>1, <1>2, <1>6 DEF Located, Installed, Shown
  <1>10. QED
    BY <1>2, <1>7, <1>8, <1>9 DEF Settled, Stage

\* The total of a search is back: the next question, or nothing to show.
LEMMA SettledTotal ==
  ASSUME Typed, Settled, Stage, Answer, Head(down) \in Counts(box.epoch)
  PROVE  Settled' /\ Stage'
  <1>1. PICK e : e = box.epoch
    OBVIOUS
  <1>2. /\ down # <<>> /\ down' = Tail(down) /\ down \in Seq(Returns) /\ Head(down) \in Returns
        /\ up \in Seq(Requests) /\ back' = back /\ back \in BackRecord
    BY AnswerIs DEF Typed, BackRecord
  <1>3. Head(down).k.epoch = e /\ Head(down).k.at = "total" /\ Head(down).total \in Nat
    BY <1>1, <1>2, Answered
  <1>4. PICK held \in Seq(Nat) : held = back.held
    BY <1>2 DEF BackRecord
  <1>5. box'.epoch = e
    BY <1>1, <1>3, TakenIs
  <1>6. \/ Head(down).total = 0 /\ up' = up
        \/ \E r \in Requests : up' = Append(up, r) /\ r.ask = "where" /\ r.k.epoch = e /\ r.k.total = Head(down).total
    BY <1>1, <1>3, TakenIs
  <1>7. Settled'
    <2>1. CASE up' = up
      BY <2>1 DEF Settled
    <2>2. ASSUME NEW r \in Requests, up' = Append(up, r), r.ask = "where"
          PROVE  Settled'
      <3>1. r \notin Replacing
        BY <2>2, Kinds
      <3>2. QED
        BY <1>2, <2>2, <3>1, NonePush DEF Settled
    <2>3. QED
      BY <1>6, <2>1, <2>2
  <1>8. ~NoneIn(down, Counts(e))
    BY <1>1, <1>2, NonePop
  <1>9. CASE held = <<>>
    BY <1>2, <1>4, <1>7, <1>9 DEF Stage
  <1>10. CASE Counted /\ held # <<>>
    <2>1. LastIn(down', Counts(e), Counting(e, held)) \/ (Head(down) \in Counting(e, held) /\ NoneIn(down', Counts(e)))
      BY <1>1, <1>2, <1>4, <1>10, LastPop DEF Counted
    <2>2. CASE Head(down) \in Counting(e, held) /\ NoneIn(down', Counts(e))
      <3>1. Head(down).total = Len(held) /\ Len(held) > 0
        BY <1>10, <2>2 DEF Counting
      <3>2. PICK r \in Requests : /\ up' = Append(up, r) /\ r.ask = "where" /\ r.k.epoch = e
                                  /\ r.k.total = Len(held)
        BY <1>6, <3>1
      <3>3. r \in Locating(e, held)
        BY <3>2, Kinds DEF Locating
      <3>4. LastIn(up', Wheres(e), Locating(e, held))
        BY <1>2, <3>2, <3>3, LastNew
      <3>5. QED
        BY <1>2, <1>4, <1>5, <1>7, <2>2, <3>4 DEF Stage, Located
    <2>3. QED
      BY <1>2, <1>4, <1>5, <1>7, <2>1, <2>2 DEF Stage, Counted
  <1>11. QED
    BY <1>1, <1>4, <1>8, <1>9, <1>10 DEF Stage, Located, Placed, Installed

\* The place is back: the box counts the set, and shows its match.
LEMMA SettledPlace ==
  ASSUME Typed, Settled, Stage, Answer, Head(down) \in Places(box.epoch)
  PROVE  Settled' /\ Stage'
  <1>1. PICK e : e = box.epoch
    OBVIOUS
  <1>2. /\ down # <<>> /\ down' = Tail(down) /\ down \in Seq(Returns) /\ Head(down) \in Returns
        /\ up \in Seq(Requests) /\ back' = back /\ back \in BackRecord
    BY AnswerIs DEF Typed, BackRecord
  <1>3. Head(down).k.epoch = e /\ Head(down).k.at = "where" /\ Head(down).k.total \in Nat
    BY <1>1, <1>2, Answered
  <1>4. PICK held \in Seq(Nat) : held = back.held
    BY <1>2 DEF BackRecord
  <1>5. /\ box'.epoch = e /\ box'.total = Head(down).k.total /\ box'.lines = Head(down).lines
        /\ box'.total > 0 => box'.index \in Nat /\ up' = Append(up, Show(box'.index))
        /\ box'.total = 0 => up' = up
    BY <1>1, <1>3, TakenIs
  <1>6. \/ up' = up
        \/ \E r \in Requests : up' = Append(up, r) /\ r.ask = "show"
    BY <1>3, <1>5, ShowAsked
  <1>7. \A r \in Requests : r.ask = "show" => r \notin Replacing /\ r \notin Wheres(e)
    BY Kinds
  <1>8. Settled' /\ (NoneIn(up, Wheres(e)) => NoneIn(up', Wheres(e)))
    <2>1. CASE up' = up
      BY <2>1 DEF Settled
    <2>2. ASSUME NEW r \in Requests, up' = Append(up, r), r.ask = "show"
          PROVE  Settled' /\ (NoneIn(up, Wheres(e)) => NoneIn(up', Wheres(e)))
      BY <1>2, <1>7, <2>2, NonePush DEF Settled
    <2>3. QED
      BY <1>6, <2>1, <2>2
  <1>9. Head(down) \notin Counts(e)
    BY <1>2, <1>3, Answered
  <1>10. NoneIn(down, Counts(e)) => NoneIn(down', Counts(e))
    BY <1>2, NonePop
  <1>11. CASE held = <<>>
    BY <1>2, <1>4, <1>8, <1>11 DEF Stage
  <1>12. CASE Counted
    <2>1. LastIn(down', Counts(e), Counting(e, held))
      BY <1>1, <1>2, <1>4, <1>9, <1>12, LastPop DEF Counted, Counting
    <2>2. QED
      BY <1>2, <1>4, <1>5, <1>8, <2>1 DEF Stage, Counted
  <1>13. CASE Located
    <2>1. LastIn(up, Wheres(e), Locating(e, held)) /\ NoneIn(down', Counts(e))
      BY <1>1, <1>4, <1>10, <1>13 DEF Located
    <2>2. LastIn(up', Wheres(e), Locating(e, held))
      BY <1>2, <1>6, <1>7, <2>1, LastPush
    <2>3. QED
      BY <1>2, <1>4, <1>5, <1>8, <2>1, <2>2 DEF Stage, Located
  <1>14. CASE Placed /\ held # <<>>
    <2>1. /\ LastIn(down, Places(e), Placing(e, held)) /\ NoneIn(down', Counts(e)) /\ NoneIn(up', Wheres(e))
      BY <1>1, <1>4, <1>8, <1>10, <1>14 DEF Placed
    <2>2. LastIn(down', Places(e), Placing(e, held)) \/ (Head(down) \in Placing(e, held) /\ NoneIn(down', Places(e)))
      BY <1>2, <2>1, LastPop
    <2>3. CASE Head(down) \in Placing(e, held) /\ NoneIn(down', Places(e))
      <3>1. box'.total = Len(held) /\ box'.lines \in {<<>>, held} /\ Len(held) > 0
        BY <1>5, <1>14, <2>3 DEF Placing
      <3>2. PICK place \in Nat : place = box'.index
        BY <1>5, <3>1
      <3>3. up' = Append(up, Show(place)) /\ Show(place) \in Requests /\ Show(place) \in {Show(place)}
        BY <1>5, <3>1, <3>2, ShowAsked
      <3>4. LastIn(up', Shows, {Show(place)})
        BY <1>2, <3>3, LastNew
      <3>5. QED
        BY <1>2, <1>4, <1>5, <1>8, <2>1, <2>3, <3>1, <3>2, <3>4 DEF Stage, Installed, Shown
    <2>4. QED
      BY <1>2, <1>4, <1>5, <1>8, <2>1, <2>2, <2>3 DEF Stage, Placed
  <1>15. ~Installed
    BY <1>1, <1>2, NonePop DEF Installed
  <1>16. QED
    BY <1>4, <1>11, <1>12, <1>13, <1>14, <1>15 DEF Stage

LEMMA ProgressHolds ==
  ASSUME Typed, Bounded, Dated, SearchNext, box.query = "valid" => Progress, box.query # "valid" => Left,
         box'.query = "valid"
  PROVE  Progress'
  <1>1. CASE Search
    <2>1. PICK r \in Requests : up' = Append(up, r) /\ r.ask = "search" /\ r.k.epoch = box'.epoch
      BY <1>1, SearchIs
    <2>2. QED
      BY <2>1, SearchRequests DEF Progress
  <1>2. CASE SearchInvalid \/ Clear
    BY <1>2, LeaveIs
  <1>3. CASE ReSearch
    <2>1. box.query # "invalid" /\ box'.epoch = box.epoch
      BY <1>3, ReSearchIs
    <2>2. PICK r \in Requests : up' = Append(up, r) /\ r.ask = "search" /\ r.k.epoch = box'.epoch
      BY <1>3, <2>1, ReSearchIs
    <2>3. QED
      BY <2>2, SearchRequests DEF Progress
  <1>4. CASE Backend
    <2>1. Progress
      BY <1>4, BackendIs
    <2>2. QED
      BY <1>4, <2>1, RequestedBackend, SettledBackend DEF Progress, Stage
  <1>5. CASE Change
    <2>1. Progress /\ back'.held = back.held /\ back'.paint = <<>> /\ UNCHANGED <<box, up, down>>
      BY <1>5, ChangeIs
    <2>2. Requested => Requested'
      BY <2>1 DEF Requested
    <2>3. Settled /\ Stage => Settled' /\ Stage'
      BY <2>1 DEF Settled, Stage, Counted, Located, Placed, Installed, Shown
    <2>4. QED
      BY <2>1, <2>2, <2>3 DEF Progress
  <1>6. CASE OnFrame
    <2>1. Progress /\ UNCHANGED <<box.total, box.index, box.lines, box.epoch>> /\ UNCHANGED <<up, down, back>>
      BY <1>6, OnFrameIs
    <2>2. Requested => Requested'
      BY <2>1 DEF Requested
    <2>3. Settled /\ Stage => Settled' /\ Stage'
      BY <2>1 DEF Settled, Stage, Counted, Located, Placed, Installed, Shown
    <2>4. QED
      BY <2>1, <2>2, <2>3 DEF Progress
  <1>7. CASE NextMatch \/ PrevMatch
    <2>1. Progress /\ box' \in BoxRecord /\ up' = Append(up, Show(box'.index)) /\ box'.epoch = box.epoch
      BY <1>7, StepIs
    <2>2. Show(box'.index) \in Requests /\ Show(box'.index).ask = "show"
      BY <2>1, ShowAsked DEF BoxRecord
    <2>3. Requested => Requested'
      BY <2>1, <2>2, RequestedPush
    <2>4. QED
      BY <1>7, <2>1, <2>3, SettledStep DEF Progress
  <1>8. CASE Answer
    <2>1. Head(down) \in Returns
      BY <1>8, AnswerIs
    <2>2. Progress
      BY <1>8, AnswerIs, TakenIs
    <2>3. CASE Head(down).k.epoch # box.epoch
      <3>1. box' = box /\ up' = up
        BY <1>8, <2>3, AnswerIs
      <3>2. Requested => Requested'
        BY <3>1 DEF Requested
      <3>3. QED
        BY <1>8, <2>2, <2>3, <3>2, SettledSuperseded DEF Progress
    <2>4. CASE Head(down).k.epoch = box.epoch
      <3>1. Head(down) \in Places(box.epoch) \/ Head(down) \in Counts(box.epoch)
        BY <2>1, <2>4, Answered
      <3>2. ASSUME Requested PROVE Requested'
        <4>1. box'.epoch = box.epoch
          BY <1>8, <2>4, TakenIs
        <4>2. up' = up \/ \E r \in Requests : up' = Append(up, r) /\ r.ask \in {"show", "where"}
          BY <1>8, <2>4, TakenAsks
        <4>3. CASE up' = up
          BY <3>2, <4>1, <4>3 DEF Requested
        <4>4. CASE \E r \in Requests : up' = Append(up, r) /\ r.ask \in {"show", "where"}
          BY <3>2, <4>1, <4>4, RequestedPush
        <4>5. QED
          BY <4>2, <4>3, <4>4
      <3>3. QED
        BY <1>8, <2>2, <3>1, <3>2, SettledTotal, SettledPlace DEF Progress
    <2>5. QED
      BY <2>3, <2>4
  <1>9. QED
    BY <1>1, <1>2, <1>3, <1>4, <1>5, <1>6, <1>7, <1>8 DEF SearchNext

-----------------------------------------------------------------------------
(* The theorems.                                                             *)

LEMMA InitInv ==
  ASSUME SearchInit
  PROVE  Inv
  <1>1. Typed
    BY InitTyped
  <1>2. up = <<>> /\ down = <<>> /\ back.paint = <<>> /\ back.active = Nothing
    BY DEF SearchInit
  <1>3. box.total = 0 /\ box.lines = <<>> /\ box.query = "none" /\ ~box.timer
    BY DEF SearchInit
  <1>4. \A T : NoneIn(up, T) /\ NoneIn(down, T)
    BY <1>2 DEF NoneIn
  <1>5. \A e : Unasked(e)
    BY <1>4 DEF Unasked
  <1>6. Dated /\ Bounded /\ Left
    BY <1>2, <1>3, <1>5 DEF Dated, Bounded, Left
  <1>7. QED
    BY <1>1, <1>3, <1>6 DEF Inv

LEMMA NextInv ==
  ASSUME Inv, SearchNext
  PROVE  Inv'
  <1>1. Typed'
    BY NextTyped DEF Inv
  <1>2. Bounded' /\ Dated'
    BY BoxIs, DatedHolds DEF Inv
  <1>3. box'.query # "valid" => Left'
    BY LeftHolds DEF Inv
  <1>4. box'.query = "valid" => Progress'
    BY ProgressHolds DEF Inv
  <1>5. QED
    BY <1>1, <1>2, <1>3, <1>4 DEF Inv

LEMMA StutterInv ==
  ASSUME Inv, UNCHANGED searchVars
  PROVE  Inv'
  <1>1. UNCHANGED <<box, up, down, back, due, acts, changes>>
    BY DEF searchVars
  <1>2. Typed' /\ Dated' /\ Bounded'
    BY <1>1 DEF Inv, Typed, Dated, Bounded, Unasked
  <1>3. (Left => Left') /\ (Progress => Progress')
    BY <1>1 DEF Left, Unasked, Progress, Requested, Settled, Stage, Counted, Located, Placed, Installed, Shown
  <1>4. QED
    BY <1>1, <1>2, <1>3 DEF Inv

\* SearchBox: a search that is not left is in one of five places, one that was left is nowhere.
THEOREM InvHolds == SearchSpec => []Inv
  <1>1. SearchInit => Inv
    BY InitInv
  <1>2. Inv /\ [SearchNext]_searchVars => Inv'
    BY NextInv, StutterInv
  <1>3. QED
    BY <1>1, <1>2, PTL DEF SearchSpec

LEMMA InvBox ==
  ASSUME Inv
  PROVE  BoxIsTheEngines
  <1>1. NothingSurvives
    BY DEF Inv, Left, NothingSurvives
  <1>2. EmphasisIsCounted
    <2> SUFFICES ASSUME Quiet, box.query = "valid", back.paint # <<>>
                 PROVE  /\ box.total = Len(back.paint)
                        /\ back.active = back.paint[box.index + 1]
                        /\ box.lines \in {<<>>, back.paint}
      BY DEF EmphasisIsCounted
    <2>1. up = <<>> /\ down = <<>> /\ Progress /\ back.paint = back.held
      BY DEF Quiet, Drained, Inv, Bounded
    <2>2. \A T, V : ~LastIn(up, T, V) /\ ~LastIn(down, T, V)
      BY <2>1 DEF LastIn
    <2>3. Installed /\ ~LastIn(up, Shows, {Show(box.index)})
      BY <2>1, <2>2 DEF Progress, Requested, Stage, Counted, Located, Placed
    <2>4. QED
      BY <2>1, <2>3 DEF Installed, Shown
  <1>3. QED
    BY <1>1, <1>2 DEF BoxIsTheEngines

\* search, reSearch, next, prev and clear (search.ts): what the search box shows is what the engine
\* has, for every buffer, and any number of searches, steps and changes of the buffer.
THEOREM BoxIsAlwaysTheEngines == SearchSpec => []BoxIsTheEngines
  <1>1. Inv => BoxIsTheEngines
    BY InvBox
  <1>2. QED
    BY <1>1, InvHolds, PTL

-----------------------------------------------------------------------------
(* LinkTracker: what a line, an answer and a link are.                       *)


Text == {"u", "w", "o", "b"}
RowType == [text : Text, wraps : BOOLEAN]
Intervals == {a..b : a \in Int, b \in Int}
Texts == UNION {[D -> Text] : D \in Intervals}
Replies == [row : Int, line : Texts]
Links == {NoLink} \cup {[uri |-> <<"o">>, rows |-> {r}] : r \in View} \cup UNION {ComputeLinks(c) : c \in Replies}
Spots == View \cup {None}
Trackers == [lines : SUBSET Replies, cell : Spots, pressed : Spots, asked : Spots, inflight : BOOLEAN,
             moved : BOOLEAN, unchecked : BOOLEAN, stale : BOOLEAN, disposed : BOOLEAN]
Controllers == [links : SUBSET Links, hovered : Links, last : Spots, pressed : Links]

LinkTyped ==
  /\ screen \in [-1..(Rows - 1) -> RowType] /\ mirror \in [View -> RowType]
  /\ frames \in Seq([rows : [View -> RowType], scrolled : BOOLEAN])
  /\ trk \in Trackers /\ ctl \in Controllers
  /\ question \in [row : Spots, line : Texts] /\ opened \in Links

\* The answers held are about different rows, and still good once they were compared.
Apart(lines) == \A c \in lines, d \in lines : c # d => Spans(c) \cap Spans(d) = {}
Held(k, m) ==
  /\ Apart(k.lines)
  /\ ~k.unchecked => \A c \in k.lines : IsCurrent(c, m)
  /\ ~k.stale => ~k.unchecked
\* The links are those of the rows and of the answers held, unless they are known to be stale.
Computed(k, m) == Osc8Links(m) \cup UNION {ComputeLinks(x) : x \in k.lines}
Matches(k, c, m) == ~k.stale => c.links = Computed(k, m)
\* While the pointer is on the grid the links are kept up to date.
Pointing(k, c) == IF k.cell = None THEN c.last = None /\ c.hovered = NoLink ELSE ~k.stale /\ c.last = k.cell
Hovering(c, m) == c.hovered # NoLink => c.last \in c.hovered.rows /\ IsShown(c.hovered, m)

Kept(k, c, m) == k \in Trackers /\ c \in Controllers /\ Held(k, m) /\ Matches(k, c, m)
LinkInv == LinkTyped /\ Kept(trk, ctl, mirror) /\ Pointing(trk, ctl) /\ Hovering(ctl, mirror)

-----------------------------------------------------------------------------
(* A line's letters by row and by number.                                    *)

\* A line is on consecutive rows.
LEMMA LineIsOfRows ==
  ASSUME NEW line \in Texts
  PROVE  \E a \in Int, b \in Int : line \in [a..b -> Text]
  BY DEF Texts, Intervals

LEMMA RowsMakeLine ==
  ASSUME NEW a \in Int, NEW b \in Int, NEW line \in [a..b -> Text]
  PROVE  line \in Texts
  <1>1. a..b \in Intervals
    BY DEF Intervals
  <1>2. QED
    BY <1>1 DEF Texts

LEMMA LineIsFinite ==
  ASSUME NEW line \in Texts
  PROVE  DOMAIN line \in SUBSET Int /\ IsFiniteSet(DOMAIN line) /\ \A r \in DOMAIN line : line[r] \in Text
  <1>1. PICK a \in Int, b \in Int : line \in [a..b -> Text]
    BY LineIsOfRows
  <1>2. DOMAIN line = a..b /\ \A r \in a..b : line[r] \in Text
    BY <1>1
  <1>3. a..b \in SUBSET Int /\ IsFiniteSet(a..b)
    BY FS_Interval
  <1>4. DOMAIN line \in SUBSET Int /\ IsFiniteSet(DOMAIN line)
    BY <1>2, <1>3
  <1>5. \A r \in DOMAIN line : line[r] \in Text
    BY <1>2
  <1>6. QED
    BY <1>4, <1>5

\* The number of the rows above tells a line's rows apart.
Above(D, r) == {x \in D : x < r}
LEMMA RowsAbove ==
  ASSUME NEW D \in SUBSET Int, IsFiniteSet(D), NEW r \in D
  PROVE  \E n \in Nat : /\ n = Cardinality(Above(D, r)) /\ n + 1 \in 1..Cardinality(D)
                        /\ \A s \in D : Cardinality(Above(D, s)) = n => s = r
  <1>1. \A s, t \in D : s < t => Cardinality(Above(D, s)) < Cardinality(Above(D, t))
    <2> SUFFICES ASSUME NEW s \in D, NEW t \in D, s < t PROVE Cardinality(Above(D, s)) < Cardinality(Above(D, t))
      OBVIOUS
    <2>1. IsFiniteSet(Above(D, t))
      BY FS_Subset DEF Above
    <2>2. s \in Int /\ t \in Int /\ \A x \in D : x \in Int
      OBVIOUS
    <2>3. \A x \in D : x < s => x < t
      BY <2>2
    <2>4. Above(D, s) \subseteq Above(D, t)
      BY <2>3 DEF Above
    <2>5. s \in Above(D, t) /\ s \notin Above(D, s)
      BY <2>2 DEF Above
    <2>6. QED
      BY <2>1, <2>4, <2>5, FS_Subset, FS_CardinalityType
  <1>2. Cardinality(Above(D, r)) \in Nat /\ Cardinality(Above(D, r)) < Cardinality(D) /\ Cardinality(D) \in Nat
    <2>1. r \in Int
      OBVIOUS
    <2>2. Above(D, r) \subseteq D /\ r \notin Above(D, r)
      BY <2>1 DEF Above
    <2>3. QED
      BY <2>2, FS_Subset, FS_CardinalityType
  <1>3. \A s \in D : Cardinality(Above(D, s)) \in Nat
    <2>1. \A s \in D : Above(D, s) \subseteq D
      BY DEF Above
    <2>2. QED
      BY <2>1, FS_Subset, FS_CardinalityType
  <1>4. \A s \in D : Cardinality(Above(D, s)) = Cardinality(Above(D, r)) => s = r
    <2> SUFFICES ASSUME NEW s \in D, Cardinality(Above(D, s)) = Cardinality(Above(D, r)) PROVE s = r
      OBVIOUS
    <2>1. ~(s < r) /\ ~(r < s)
      BY <1>1, <1>3
    <2>2. s \in Int /\ r \in Int
      OBVIOUS
    <2>3. QED
      BY <2>1, <2>2
  <1>5. Cardinality(Above(D, r)) + 1 \in 1..Cardinality(D)
    BY <1>2
  <1>6. QED
    BY <1>2, <1>4, <1>5

\* The address of a line's link has the line's letters in the order of the rows.
LEMMA Lettered ==
  ASSUME NEW c \in Replies, NEW l \in ComputeLinks(c)
  PROVE  /\ l \in Links /\ l.rows = DOMAIN c.line /\ l.rows \in SUBSET Int
         /\ \A r \in l.rows : l.uri[Cardinality({x \in l.rows : x < r}) + 1] = c.line[r]
  <1> DEFINE D == DOMAIN c.line
  <1> DEFINE nth(i) == CHOOSE r \in D : Cardinality(Above(D, r)) = i - 1
  <1>1. c.line \in Texts
    BY DEF Replies
  <1>2. D \in SUBSET Int /\ IsFiniteSet(D)
    BY <1>1, LineIsFinite
  <1>3. l = [uri |-> [i \in 1..Cardinality(D) |-> c.line[nth(i)]], rows |-> D]
    BY DEF ComputeLinks, Above
  <1>4. \A r \in D : l.uri[Cardinality(Above(D, r)) + 1] = c.line[r]
    <2> SUFFICES ASSUME NEW r \in D PROVE l.uri[Cardinality(Above(D, r)) + 1] = c.line[r]
      OBVIOUS
    <2>1. PICK n \in Nat : /\ n = Cardinality(Above(D, r)) /\ n + 1 \in 1..Cardinality(D)
                           /\ \A s \in D : Cardinality(Above(D, s)) = n => s = r
      BY <1>2, RowsAbove
    <2>2. (n + 1) - 1 = n
      OBVIOUS
    <2>3. nth(n + 1) = r
      BY <2>1, <2>2
    <2>4. l.uri[n + 1] = c.line[nth(n + 1)]
      BY <1>3, <2>1
    <2>5. QED
      BY <2>1, <2>3, <2>4
  <1>5. QED
    BY <1>2, <1>3, <1>4 DEF Links, Above

-----------------------------------------------------------------------------
(* What the tracker computes from what it holds.                             *)

\* A line that is current makes a link that is shown.
LEMMA LineIsShown ==
  ASSUME NEW m, NEW c \in Replies, IsCurrent(c, m), NEW l \in ComputeLinks(c)
  PROVE  IsShown(l, m)
  <1>1. /\ l.rows = DOMAIN c.line /\ l.rows \in SUBSET Int
        /\ \A r \in l.rows : l.uri[Cardinality({x \in l.rows : x < r}) + 1] = c.line[r]
    BY Lettered
  <1>2. DOMAIN c.line # {}
    <2>1. CASE DOMAIN c.line = {}
      <3>1. Cardinality(DOMAIN c.line) = 0
        BY <2>1, FS_EmptySet
      <3>2. l.uri # <<>> /\ l.uri = [i \in 1..0 |-> c.line[CHOOSE r \in DOMAIN c.line : Cardinality({x \in DOMAIN c.line : x < r}) = i - 1]]
        BY <3>1 DEF ComputeLinks
      <3>3. QED
        BY <3>2
    <2>2. QED
      BY <2>1
  <1>3. /\ \A r \in l.rows \cap View : m[r].text = c.line[r]
        /\ \A r \in l.rows \cap View : r + 1 \in l.rows => m[r].wraps
        /\ \A r \in l.rows \cap View : r + 1 \notin l.rows => ~m[r].wraps
        /\ \A r \in View : r + 1 \in l.rows /\ r \notin l.rows => ~m[r].wraps
    BY <1>1, <1>2 DEF IsCurrent
  <1>4. QED
    BY <1>1, <1>3 DEF IsShown

\* So does every link the tracker shows.
LEMMA ComputedIsShown ==
  ASSUME NEW m, NEW k \in Trackers, \A c \in k.lines : IsCurrent(c, m)
  PROVE  /\ Computed(k, m) \in SUBSET Links
         /\ \A l \in Computed(k, m) : IsShown(l, m)
  <1>1. \A l \in Osc8Links(m) : l \in Links /\ IsShown(l, m)
    <2> SUFFICES ASSUME NEW l \in Osc8Links(m) PROVE l \in Links /\ IsShown(l, m)
      OBVIOUS
    <2>1. PICK r \in View : m[r].text = "o" /\ l = [uri |-> <<"o">>, rows |-> {r}]
      BY DEF Osc8Links
    <2>2. l.uri = <<"o">> /\ l.rows = {r}
      BY <2>1
    <2>3. l \in Links
      BY <2>1 DEF Links
    <2>4. QED
      BY <2>1, <2>2, <2>3 DEF IsShown
  <1>2. \A c \in k.lines : c \in Replies
    BY DEF Trackers
  <1>3. \A c \in k.lines : \A l \in ComputeLinks(c) : l \in Links /\ IsShown(l, m)
    BY <1>2, Lettered, LineIsShown
  <1>4. QED
    BY <1>1, <1>3 DEF Computed

\* The link at a row covers it.
LEMMA LinkAtRow ==
  ASSUME NEW links, NEW r
  PROVE  LET l == LinkAt(links, r) IN l = NoLink \/ (l \in links /\ r \in l.rows)
  BY DEF LinkAt

\* The comparison with the mirror leaves what the mirror shows.
LEMMA CheckKeeps ==
  ASSUME NEW k, NEW c, NEW m, Kept(k, c, m)
  PROVE  LET y == Check(k, m)
         IN  /\ Kept(y, c, m) /\ ~y.unchecked /\ y.cell = k.cell /\ y.pressed = k.pressed
             /\ y.disposed = k.disposed /\ y.inflight = k.inflight /\ (k.stale => y.stale)
             /\ \A x \in y.lines : IsCurrent(x, m)
  <1>1. PICK kept : kept = {x \in k.lines : IsCurrent(x, m)}
    OBVIOUS
  <1>2. CASE k.unchecked
    <2>1. PICK b \in BOOLEAN : b = (k.stale \/ kept # k.lines)
      OBVIOUS
    <2>2. PICK y : y = [k EXCEPT !.unchecked = FALSE, !.stale = b, !.lines = kept]
      OBVIOUS
    <2>3. y = Check(k, m)
      BY <1>1, <1>2, <2>1, <2>2 DEF Check
    <2>4. /\ y \in Trackers /\ y.unchecked = FALSE /\ y.stale = b /\ y.lines = kept
          /\ y.cell = k.cell /\ y.pressed = k.pressed /\ y.disposed = k.disposed /\ y.inflight = k.inflight
      BY <1>1, <2>2 DEF Trackers, Kept
    <2>5. k.stale
      BY <1>2 DEF Kept, Held
    <2>6. Held(y, m) /\ Matches(y, c, m)
      BY <1>1, <2>1, <2>4, <2>5 DEF Kept, Held, Apart, Matches
    <2>7. QED
      BY <1>1, <2>1, <2>3, <2>4, <2>5, <2>6 DEF Kept
  <1>3. CASE ~k.unchecked
    BY <1>3 DEF Check, Kept, Held
  <1>4. QED
    BY <1>2, <1>3

\* A refresh gives the controller the links there are, and the one under the pointer.
LEMMA RefreshShows ==
  ASSUME NEW k \in Trackers, NEW c \in Controllers, NEW m, \A x \in k.lines : IsCurrent(x, m)
  PROVE  LET d == Refresh(c, k, m)
         IN  /\ d \in Controllers /\ d.links = Computed(k, m) /\ d.last = c.last /\ d.pressed = c.pressed
             /\ (c.last # None => Hovering(d, m)) /\ (c.last = None => d.hovered = c.hovered)
  <1>1. PICK links : links = Computed(k, m)
    OBVIOUS
  <1>2. links \in SUBSET Links /\ \A l \in links : IsShown(l, m)
    BY <1>1, ComputedIsShown
  <1>3. PICK e : e = [c EXCEPT !.links = links]
    OBVIOUS
  <1>4. e \in Controllers /\ e.links = links /\ e.last = c.last /\ e.pressed = c.pressed /\ e.hovered = c.hovered
    BY <1>2, <1>3 DEF Controllers
  <1>5. CASE c.last = None
    <2>1. Refresh(c, k, m) = e
      BY <1>1, <1>3, <1>5 DEF Refresh, SetLinks, Computed
    <2>2. QED
      BY <1>1, <1>4, <1>5, <2>1
  <1>6. CASE c.last # None
    <2>1. PICK l : l = LinkAt(links, c.last)
      OBVIOUS
    <2>2. (l = NoLink \/ (l \in links /\ c.last \in l.rows)) /\ l \in Links
      BY <1>2, <2>1, LinkAtRow DEF Links
    <2>3. PICK d : d = [e EXCEPT !.hovered = l]
      OBVIOUS
    <2>4. Refresh(c, k, m) = d
      BY <1>1, <1>3, <1>6, <2>1, <2>3, <1>4 DEF Refresh, SetLinks, Computed, Resolved
    <2>5. d \in Controllers /\ d.links = links /\ d.last = c.last /\ d.pressed = c.pressed /\ d.hovered = l
      BY <1>4, <2>2, <2>3 DEF Controllers
    <2>6. Hovering(d, m)
      BY <1>2, <2>2, <2>5 DEF Hovering
    <2>7. QED
      BY <1>1, <1>6, <2>4, <2>5, <2>6
  <1>7. QED
    BY <1>5, <1>6

\* The same, of a controller whose links are good unless they are known to be stale.
LEMMA RefreshIfShows ==
  ASSUME NEW k, NEW c, NEW m, Kept(k, c, m), \A x \in k.lines : IsCurrent(x, m), k.stale => c.last = None
  PROVE  LET d == RefreshIf(k.stale, c, k, m)
         IN  /\ d \in Controllers /\ d.links = Computed(k, m) /\ d.last = c.last /\ d.pressed = c.pressed
             /\ d.hovered = c.hovered
  <1>1. CASE k.stale
    BY <1>1, RefreshShows DEF RefreshIf, Kept
  <1>2. CASE ~k.stale
    BY <1>2 DEF RefreshIf, Kept, Matches
  <1>3. QED
    BY <1>1, <1>2

\* A tracker that is fresh, with what it was made for.
LEMMA FreshKeeps ==
  ASSUME NEW k, NEW c \in Controllers, NEW m, k \in Trackers, Held(k, m), ~k.unchecked, c.links = Computed(k, m)
  PROVE  LET y == Fresh(k)
         IN  /\ Kept(y, c, m) /\ ~y.stale /\ y.cell = k.cell /\ y.pressed = k.pressed /\ y.lines = k.lines
             /\ ~y.unchecked
  <1>1. PICK y : y = [k EXCEPT !.stale = FALSE]
    OBVIOUS
  <1>2. /\ y \in Trackers /\ y.stale = FALSE /\ y.cell = k.cell /\ y.pressed = k.pressed /\ y.lines = k.lines
        /\ y.unchecked = k.unchecked
    BY <1>1 DEF Trackers
  <1>3. Computed(y, m) = Computed(k, m)
    BY <1>2 DEF Computed
  <1>4. Kept(y, c, m)
    BY <1>2, <1>3 DEF Kept, Held, Matches
  <1>5. QED
    BY <1>1, <1>2, <1>4 DEF Fresh

\* What a handler changes beside the lines and the links.
LEMMA SameLines ==
  ASSUME NEW k, NEW c, NEW m, Kept(k, c, m), NEW y \in Trackers, NEW d \in Controllers,
         y.lines = k.lines, y.stale = k.stale, y.unchecked = k.unchecked, d.links = c.links
  PROVE  Kept(y, d, m)
  <1>1. Computed(y, m) = Computed(k, m)
    BY DEF Computed
  <1>2. QED
    BY <1>1 DEF Kept, Held, Matches, Apart

\* A question is one more field or two.
LEMMA AskingKeeps ==
  ASSUME NEW k, NEW c, NEW m, Kept(k, c, m)
  PROVE  LET y == Asking(k)
         IN  Kept(y, c, m) /\ y.cell = k.cell /\ y.stale = k.stale
  <1>1. CASE MayAsk(k)
    <2>1. PICK y : y = [k EXCEPT !.asked = k.cell, !.moved = FALSE, !.inflight = TRUE]
      OBVIOUS
    <2>2. /\ y \in Trackers /\ y.lines = k.lines /\ y.stale = k.stale /\ y.unchecked = k.unchecked
          /\ y.cell = k.cell
      BY <2>1 DEF Trackers, Kept
    <2>3. Kept(y, c, m)
      BY <2>2, SameLines DEF Kept
    <2>4. QED
      BY <1>1, <2>1, <2>2, <2>3 DEF Asking
  <1>2. CASE ~MayAsk(k)
    BY <1>2 DEF Asking
  <1>3. QED
    BY <1>1, <1>2

-----------------------------------------------------------------------------
(* The engine.                                                               *)

LEMMA NoLinkIsEmpty == NoLink \in Links /\ NoLink.rows = {}
  BY DEF Links, NoLink

\* The lines of a screen are lines.
LEMMA LogicalLineIsLine ==
  ASSUME NEW s \in [-1..(Rows - 1) -> RowType], NEW r \in View
  PROVE  LogicalLine(s, r) \in Texts
  <1>1. DOMAIN s = -1..(Rows - 1) /\ Rows \in Nat /\ r \in Nat /\ r \in DOMAIN s /\ \A x \in DOMAIN s : x \in Int
    BY RowsAssumption DEF View
  <1>2. PICK first : first = CHOOSE a \in DOMAIN s : a <= r /\ Joined(s, a, r) /\ \A x \in DOMAIN s : x <= r /\ Joined(s, x, r) => a <= x
    OBVIOUS
  <1>3. PICK last : last = CHOOSE b \in DOMAIN s : b >= r /\ Joined(s, r, b) /\ \A x \in DOMAIN s : x >= r /\ Joined(s, r, x) => b >= x
    OBVIOUS
  <1>4. Joined(s, r, r)
    BY <1>1 DEF Joined
  <1>5. first \in DOMAIN s
    <2> DEFINE T == {n \in Nat : n - 1 \in DOMAIN s /\ n - 1 <= r /\ Joined(s, n - 1, r)}
    <2>1. (r + 1) - 1 = r /\ r + 1 \in Nat
      BY <1>1
    <2>2. r + 1 \in T
      BY <1>1, <1>4, <2>1
    <2>3. PICK n \in T : \A y \in T : n <= y
      BY <2>2, Smallest
    <2>4. \A x \in DOMAIN s : x <= r /\ Joined(s, x, r) => n - 1 <= x
      <3> SUFFICES ASSUME NEW x \in DOMAIN s, x <= r, Joined(s, x, r) PROVE n - 1 <= x
        OBVIOUS
      <3>1. x + 1 \in Nat /\ (x + 1) - 1 = x
        BY <1>1
      <3>2. x + 1 \in T
        BY <3>1
      <3>3. QED
        BY <1>1, <2>3, <3>2
    <2>5. QED
      BY <1>2, <2>3, <2>4
  <1>6. last \in DOMAIN s
    <2> DEFINE T == {n \in Nat : Rows - n \in DOMAIN s /\ Rows - n >= r /\ Joined(s, r, Rows - n)}
    <2>1. Rows - r \in Nat /\ Rows - (Rows - r) = r
      BY <1>1 DEF View
    <2>2. Rows - r \in T
      BY <1>1, <1>4, <2>1
    <2>3. PICK n \in T : \A y \in T : n <= y
      BY <2>2, Smallest
    <2>4. \A x \in DOMAIN s : x >= r /\ Joined(s, r, x) => Rows - n >= x
      <3> SUFFICES ASSUME NEW x \in DOMAIN s, x >= r, Joined(s, r, x) PROVE Rows - n >= x
        OBVIOUS
      <3>1. Rows - x \in Nat /\ Rows - (Rows - x) = x
        BY <1>1
      <3>2. Rows - x \in T
        BY <3>1
      <3>3. n <= Rows - x /\ n \in Nat /\ x \in Int
        BY <1>1, <2>3, <3>2
      <3>4. QED
        BY <1>1, <3>3
    <2>5. QED
      BY <1>3, <2>3, <2>4
  <1>7. first..last \in Intervals /\ \A x \in first..last : x \in DOMAIN s
    BY <1>1, <1>5, <1>6 DEF Intervals
  <1>8. [x \in first..last |-> s[x].text] \in [first..last -> Text]
    BY <1>7 DEF RowType
  <1>9. LogicalLine(s, r) = [x \in first..last |-> s[x].text]
    BY <1>2, <1>3 DEF LogicalLine
  <1>10. QED
    BY <1>7, <1>8, <1>9 DEF Texts

-----------------------------------------------------------------------------
(* The steps, one by one.                                                    *)

\* What pointer, press and release do first: compare what changed and refresh what is stale.
LEMMA LooksUp ==
  ASSUME NEW k, NEW c, NEW m, Kept(k, c, m), k.stale => c.last = None
  PROVE  LET y == Check(k, m)
             d == RefreshIf(y.stale, c, y, m)
             z == Fresh(y)
         IN  /\ Kept(z, d, m) /\ ~z.stale /\ z.cell = k.cell /\ z.pressed = k.pressed
             /\ d.last = c.last /\ d.hovered = c.hovered /\ d.pressed = c.pressed
             /\ d.links \in SUBSET Links /\ \A l \in d.links : IsShown(l, m)
  <1>1. PICK y : y = Check(k, m)
    OBVIOUS
  <1>2. /\ Kept(y, c, m) /\ ~y.unchecked /\ y.cell = k.cell /\ y.pressed = k.pressed
        /\ \A x \in y.lines : IsCurrent(x, m)
    BY <1>1, CheckKeeps
  <1>3. y.stale => c.last = None
    <2>1. CASE k.unchecked
      BY <2>1 DEF Kept, Held
    <2>2. CASE ~k.unchecked
      BY <1>1, <2>2 DEF Check
    <2>3. QED
      BY <2>1, <2>2
  <1>4. PICK d : d = RefreshIf(y.stale, c, y, m)
    OBVIOUS
  <1>5. /\ d \in Controllers /\ d.links = Computed(y, m) /\ d.last = c.last /\ d.pressed = c.pressed
        /\ d.hovered = c.hovered
    BY <1>2, <1>3, <1>4, RefreshIfShows
  <1>6. d.links \in SUBSET Links /\ \A l \in d.links : IsShown(l, m)
    BY <1>2, <1>5, ComputedIsShown DEF Kept
  <1>7. PICK z : z = Fresh(y)
    OBVIOUS
  <1>8. Kept(z, d, m) /\ ~z.stale /\ z.cell = y.cell /\ z.pressed = y.pressed
    BY <1>2, <1>5, <1>7, FreshKeeps DEF Kept
  <1>9. QED
    BY <1>1, <1>2, <1>4, <1>5, <1>6, <1>7, <1>8

\* The links in LinkInv are not stale while the pointer is on the grid.
LEMMA StaleIsOff ==
  ASSUME LinkInv
  PROVE  trk.stale => trk.cell = None /\ ctl.last = None /\ ctl.hovered = NoLink
  BY DEF LinkInv, Pointing

\* The program writes and the engine sends a frame.
LEMMA SendHolds ==
  ASSUME LinkInv, NEW s \in [-1..(Rows - 1) -> RowType], NEW b \in BOOLEAN, Send(s, b),
         UNCHANGED <<mirror, trk, ctl, question, opened>>
  PROVE  LinkInv'
  <1>1. PICK f : f = [rows |-> [r \in View |-> s[r]], scrolled |-> b]
    OBVIOUS
  <1>2. \A r \in View : r \in -1..(Rows - 1)
    BY RowsAssumption DEF View
  <1>3. f \in [rows : [View -> RowType], scrolled : BOOLEAN]
    BY <1>1, <1>2
  <1>4. frames' \in Seq([rows : [View -> RowType], scrolled : BOOLEAN])
    BY <1>1, <1>3, AppendProperties DEF Send, LinkInv, LinkTyped
  <1>5. LinkTyped'
    BY <1>4 DEF Send, LinkInv, LinkTyped
  <1>6. Kept(trk, ctl, mirror)' /\ Pointing(trk, ctl)' /\ Hovering(ctl, mirror)'
    BY DEF LinkInv, Kept, Held, Matches, Pointing, Hovering
  <1>7. QED
    BY <1>5, <1>6 DEF LinkInv

LEMMA RowHasType ==
  ASSUME NEW text \in Text, NEW wraps \in BOOLEAN
  PROVE  Row(text, wraps) \in RowType
  BY DEF Row, RowType

LEMMA WriteRowHolds ==
  ASSUME LinkInv, WriteRow
  PROVE  LinkInv'
  <1>1. PICK r \in View, text \in {"u", "w", "o", "b"}, wraps \in BOOLEAN :
          Send([screen EXCEPT ![r] = Row(text, wraps), ![r - 1] = Row(@.text, @.wraps /\ text = "w")], FALSE)
    BY DEF WriteRow
  <1>2. PICK x : x = screen[r - 1]
    OBVIOUS
  <1>3. PICK b \in BOOLEAN : b = (x.wraps /\ text = "w")
    OBVIOUS
  <1>4. r \in -1..(Rows - 1) /\ r - 1 \in -1..(Rows - 1) /\ r # r - 1
    BY RowsAssumption DEF View
  <1>5. x \in RowType
    BY <1>2, <1>4 DEF LinkInv, LinkTyped
  <1>6. Row(text, wraps) \in RowType /\ Row(x.text, b) \in RowType
    BY <1>5, RowHasType DEF RowType, Text
  <1>7. PICK s : s = [screen EXCEPT ![r] = Row(text, wraps), ![r - 1] = Row(x.text, b)]
    OBVIOUS
  <1>8. s \in [-1..(Rows - 1) -> RowType]
    BY <1>6, <1>7 DEF LinkInv, LinkTyped
  <1>9. s = [screen EXCEPT ![r] = Row(text, wraps), ![r - 1] = Row(x.text, x.wraps /\ text = "w")]
    BY <1>3, <1>7
  <1>10. s = [screen EXCEPT ![r] = Row(text, wraps), ![r - 1] = Row(@.text, @.wraps /\ text = "w")]
    BY <1>2, <1>4, <1>9 DEF LinkInv, LinkTyped
  <1>11. QED
    BY <1>1, <1>8, <1>10, SendHolds DEF WriteRow

LEMMA ScrollUpHolds ==
  ASSUME LinkInv, ScrollUp
  PROVE  LinkInv'
  <1>1. PICK s : s = [r \in DOMAIN screen |-> IF r < Rows - 1 THEN screen[r + 1] ELSE Row("b", FALSE)]
    OBVIOUS
  <1>2. Row("b", FALSE) \in RowType
    BY DEF Row, RowType, Text
  <1>3. \A r \in -1..(Rows - 1) : r < Rows - 1 => r + 1 \in -1..(Rows - 1)
    BY RowsAssumption
  <1>4. s \in [-1..(Rows - 1) -> RowType]
    BY <1>1, <1>2, <1>3 DEF LinkInv, LinkTyped
  <1>5. QED
    BY <1>1, <1>4, SendHolds DEF ScrollUp

\* The port answers with a line of the screen there is then.
LEMMA PortAnswersHolds ==
  ASSUME LinkInv, PortAnswers
  PROVE  LinkInv'
  <1>1. question.row \in View
    BY DEF PortAnswers, LinkInv, LinkTyped, Spots
  <1>2. PICK line : line = LogicalLine(screen, question.row)
    OBVIOUS
  <1>3. line \in Texts
    BY <1>1, <1>2, LogicalLineIsLine DEF LinkInv, LinkTyped
  <1>4. question' = [question EXCEPT !.line = line]
    BY <1>2 DEF PortAnswers
  <1>5. LinkTyped'
    BY <1>3, <1>4 DEF PortAnswers, LinkInv, LinkTyped
  <1>6. Kept(trk, ctl, mirror)' /\ Pointing(trk, ctl)' /\ Hovering(ctl, mirror)'
    BY DEF PortAnswers, LinkInv, Kept, Held, Matches, Pointing, Hovering
  <1>7. QED
    BY <1>5, <1>6 DEF LinkInv

\* An answer moves with the rows it is about, and stays apart from the others.
LEMMA ScrollKeeps ==
  ASSUME NEW lines \in SUBSET Replies, Apart(lines)
  PROVE  LET moved == {ScrolledLine(c) : c \in lines} IN moved \in SUBSET Replies /\ Apart(moved)
  <1> DEFINE rows(c) == {x - 1 : x \in DOMAIN c.line}
  <1>1. ASSUME NEW c \in lines
        PROVE  /\ ScrolledLine(c) \in Replies
               /\ \A x \in Spans(ScrolledLine(c)) : x + 1 \in Spans(c)
    <2>1. c \in Replies /\ c.line \in Texts /\ c.row \in Int
      BY DEF Replies
    <2>2. PICK a \in Int, b \in Int : c.line \in [a..b -> Text]
      BY <2>1, LineIsOfRows
    <2>3. DOMAIN c.line = a..b
      BY <2>2
    <2>4. rows(c) = (a - 1)..(b - 1)
      <3>1. \A x \in a..b : x - 1 \in (a - 1)..(b - 1)
        OBVIOUS
      <3>2. \A y \in (a - 1)..(b - 1) : y + 1 \in a..b /\ y = (y + 1) - 1
        OBVIOUS
      <3>3. QED
        BY <2>3, <3>1, <3>2
    <2>5. \A x \in rows(c) : x + 1 \in DOMAIN c.line
      BY <2>3, <2>4
    <2>6. [r \in rows(c) |-> c.line[r + 1]] \in [(a - 1)..(b - 1) -> Text]
      BY <2>2, <2>3, <2>4, <2>5
    <2>8. [r \in rows(c) |-> c.line[r + 1]] \in Texts
      BY <2>6, a - 1 \in Int, b - 1 \in Int, RowsMakeLine
    <2>9. ScrolledLine(c) = [row |-> c.row - 1, line |-> [r \in rows(c) |-> c.line[r + 1]]]
      BY DEF ScrolledLine
    <2>10. ScrolledLine(c) \in Replies
      BY <2>1, <2>8, <2>9 DEF Replies
    <2>11. Spans(ScrolledLine(c)) = rows(c) \cup {c.row - 1}
      BY <2>9 DEF Spans
    <2>12. (c.row - 1) + 1 = c.row
      BY <2>1
    <2>13. QED
      BY <2>5, <2>10, <2>11, <2>12 DEF Spans
  <1>2. ASSUME NEW c \in lines, NEW d \in lines, ScrolledLine(c) # ScrolledLine(d)
        PROVE  Spans(ScrolledLine(c)) \cap Spans(ScrolledLine(d)) = {}
    <2>1. Spans(c) \cap Spans(d) = {}
      BY <1>2 DEF Apart
    <2>2. QED
      BY <1>1, <2>1
  <1>3. QED
    BY <1>1, <1>2 DEF Apart

\* A frame: the answers scroll with the rows, and those it made wrong are dropped before the
\* pointer is told of a link.
LEMMA ApplyFrameHolds ==
  ASSUME LinkInv, ApplyFrame
  PROVE  LinkInv'
  <1>1. PICK f : f = Head(frames)
    OBVIOUS
  <1>2. /\ f \in [rows : [View -> RowType], scrolled : BOOLEAN]
        /\ frames' \in Seq([rows : [View -> RowType], scrolled : BOOLEAN])
    BY <1>1, HeadTailProperties DEF ApplyFrame, LinkInv, LinkTyped
  <1>3. PICK lines : lines = IF f.scrolled THEN {ScrolledLine(c) : c \in trk.lines} ELSE trk.lines
    OBVIOUS
  <1>4. lines \in SUBSET Replies /\ Apart(lines)
    BY <1>3, ScrollKeeps DEF LinkInv, Kept, Held, Trackers
  <1>5. PICK k : k = [trk EXCEPT !.lines = lines, !.asked = None, !.unchecked = TRUE, !.stale = TRUE]
    OBVIOUS
  <1>6. k \in Trackers /\ k.lines = lines /\ k.unchecked /\ k.stale /\ k.cell = trk.cell
    BY <1>4, <1>5 DEF LinkInv, LinkTyped, Trackers, Spots
  <1>7. PICK m : m = f.rows
    OBVIOUS
  <1>8. Kept(k, ctl, m)
    BY <1>4, <1>6 DEF Kept, Held, Matches, LinkInv
  <1>9. k = [trk EXCEPT !.lines = IF f.scrolled THEN {ScrolledLine(c) : c \in @} ELSE @,
                        !.asked = None, !.unchecked = TRUE, !.stale = TRUE]
    BY <1>3, <1>5 DEF LinkInv, LinkTyped, Trackers
  <1>10. /\ mirror' = m /\ UNCHANGED <<screen, question, opened>>
         /\ IF trk.cell # None
            THEN trk' = Fresh(Check(k, m)) /\ ctl' = Refresh(ctl, Check(k, m), m)
            ELSE trk' = k /\ ctl' = ctl
    BY <1>1, <1>7, <1>9 DEF ApplyFrame
  <1>11. Kept(trk', ctl', m) /\ Pointing(trk', ctl') /\ Hovering(ctl', m)
    <2>1. CASE trk.cell # None
      <3>1. PICK y : y = Check(k, m)
        OBVIOUS
      <3>2. Kept(y, ctl, m) /\ ~y.unchecked /\ y.cell = k.cell /\ \A x \in y.lines : IsCurrent(x, m)
        BY <1>8, <3>1, CheckKeeps
      <3>3. PICK d : d = Refresh(ctl, y, m)
        OBVIOUS
      <3>4. /\ d \in Controllers /\ d.links = Computed(y, m) /\ d.last = ctl.last
            /\ (ctl.last # None => Hovering(d, m))
        BY <3>2, <3>3, RefreshShows DEF Kept
      <3>5. Kept(Fresh(y), d, m) /\ ~Fresh(y).stale /\ Fresh(y).cell = y.cell
        BY <3>2, <3>4, FreshKeeps DEF Kept
      <3>6. ctl.last = trk.cell
        BY <2>1 DEF LinkInv, Pointing
      <3>7. trk' = Fresh(y) /\ ctl' = d
        BY <1>10, <2>1, <3>1, <3>3
      <3>8. QED
        BY <1>6, <2>1, <3>2, <3>4, <3>5, <3>6, <3>7 DEF Pointing
    <2>2. CASE trk.cell = None
      <3>1. trk' = k /\ ctl' = ctl /\ ctl.hovered = NoLink /\ ctl.last = None
        BY <1>10, <2>2 DEF LinkInv, Pointing
      <3>2. QED
        BY <1>6, <1>8, <2>2, <3>1 DEF Pointing, Hovering
    <2>3. QED
      BY <2>1, <2>2
  <1>12. m \in [View -> RowType]
    BY <1>2, <1>7
  <1>13. LinkTyped'
    BY <1>2, <1>10, <1>11, <1>12 DEF Kept, LinkInv, LinkTyped
  <1>14. QED
    BY <1>10, <1>11, <1>13 DEF LinkInv

\* An answer that is kept: what it takes the place of goes, and it is apart from the rest.
LEMMA AnswerJoins ==
  ASSUME NEW k, NEW ctr, NEW m, Kept(k, ctr, m), NEW c \in Replies, IsCurrent(c, m), k.cell # None => ~k.stale,
         NEW y, y = KeepAnswer(k, c)
  PROVE  /\ y \in Trackers /\ Held(y, m) /\ y.cell = k.cell /\ (y.stale <=> k.cell = None)
         /\ (k.cell # None => ~y.unchecked)
  <1>1. PICK lines : lines = {x \in k.lines : Spans(x) \cap Spans(c) = {}} \cup {c}
    OBVIOUS
  <1>2. PICK off \in BOOLEAN : off = (k.cell = None)
    OBVIOUS
  <1>3. y = [k EXCEPT !.lines = lines, !.stale = off]
    BY <1>1, <1>2 DEF KeepAnswer, Kept, Trackers
  <1>4. lines \in SUBSET Replies
    BY <1>1 DEF Kept, Trackers
  <1>5. /\ y \in Trackers /\ y.lines = lines /\ y.stale = off /\ y.unchecked = k.unchecked /\ y.cell = k.cell
    BY <1>3, <1>4 DEF Kept, Trackers
  <1>6. Apart(lines)
    BY <1>1 DEF Kept, Held, Apart
  <1>7. k.cell # None => ~k.unchecked
    BY DEF Kept, Held
  <1>8. ~k.unchecked => \A x \in lines : IsCurrent(x, m)
    BY <1>1 DEF Kept, Held
  <1>9. QED
    BY <1>2, <1>5, <1>6, <1>7, <1>8 DEF Held

LEMMA NoLineIsLine == <<>> \in Texts
  <1>1. <<>> \in [1..0 -> Text]
    BY EmptySeq
  <1>2. 1..0 \in Intervals
    BY DEF Intervals
  <1>3. QED
    BY <1>1, <1>2 DEF Texts

LEMMA CachedIsAnswer ==
  ASSUME NEW row \in Spots, NEW line \in Texts
  PROVE  Cached(row, line) \in Replies
  <1>1. row \in Int
    BY DEF Spots, View, None
  <1>2. QED
    BY <1>1, NoLineIsLine DEF Cached, Replies

\* An answer arrives, or the question fails: nothing is kept that the mirror does not show.
LEMMA SettleHolds ==
  ASSUME LinkInv, Settle
  PROVE  LinkInv'
  <1>1. PICK c : c = Cached(question.row, question.line)
    OBVIOUS
  <1>2. c \in Replies
    BY <1>1, CachedIsAnswer DEF LinkInv, LinkTyped
  <1>3. PICK k : k = [trk EXCEPT !.inflight = FALSE]
    OBVIOUS
  <1>4. /\ k \in Trackers /\ k.lines = trk.lines /\ k.stale = trk.stale /\ k.unchecked = trk.unchecked
        /\ k.cell = trk.cell
    BY <1>3 DEF LinkInv, LinkTyped, Trackers
  <1>5. Kept(k, ctl, mirror) /\ Pointing(k, ctl) /\ (k.cell # None => ~k.stale)
    BY <1>4, SameLines DEF LinkInv, LinkTyped, Pointing
  <1>6. PICK y : y = KeepAnswer(k, c)
    OBVIOUS
  <1>7. PICK after : after = IF IsCurrent(c, mirror) THEN y ELSE k
    OBVIOUS
  <1>8. /\ UNCHANGED <<screen, frames, mirror, opened>>
        /\ IF k.disposed THEN trk' = k /\ ctl' = ctl
           ELSE /\ trk' = Asking(after)
                /\ ctl' = RefreshIf(IsCurrent(c, mirror) /\ k.cell # None, ctl, y, mirror)
        /\ question' = IF ~k.disposed /\ MayAsk(after) THEN [row |-> after.cell, line |-> <<>>]
                       ELSE [row |-> None, line |-> <<>>]
    BY <1>1, <1>3, <1>6, <1>7 DEF Settle
  <1>9. after.cell = trk.cell
    <2>1. y.cell = k.cell
      BY <1>4, <1>6 DEF Trackers, KeepAnswer
    <2>2. QED
      BY <1>4, <1>7, <2>1
  <1>10. Kept(trk', ctl', mirror) /\ Pointing(trk', ctl') /\ Hovering(ctl', mirror)
    <2>1. CASE k.disposed
      BY <1>5, <1>8, <2>1 DEF LinkInv
    <2>2. CASE ~k.disposed /\ ~IsCurrent(c, mirror)
      <3>1. trk' = Asking(k) /\ ctl' = ctl
        BY <1>7, <1>8, <2>2 DEF RefreshIf
      <3>2. QED
        BY <1>5, <3>1, AskingKeeps DEF LinkInv, Pointing
    <2>3. CASE ~k.disposed /\ IsCurrent(c, mirror)
      <3>1. /\ y \in Trackers /\ Held(y, mirror) /\ y.cell = k.cell /\ (y.stale <=> k.cell = None)
            /\ (k.cell # None => ~y.unchecked)
        BY <1>2, <1>5, <1>6, <2>3, AnswerJoins
      <3>2. trk' = Asking(y) /\ ctl' = RefreshIf(k.cell # None, ctl, y, mirror)
        BY <1>7, <1>8, <2>3 DEF RefreshIf
      <3>3. CASE k.cell = None
        <4>1. Kept(y, ctl, mirror) /\ ctl' = ctl
          BY <1>5, <3>1, <3>2, <3>3 DEF Kept, Matches, RefreshIf
        <4>2. QED
          BY <1>5, <3>1, <3>2, <3>3, <4>1, AskingKeeps DEF LinkInv, Pointing
      <3>4. CASE k.cell # None
        <4>1. ctl.last = k.cell /\ ctl \in Controllers
          BY <1>5, <3>4 DEF Pointing, Kept
        <4>2. PICK d : d = Refresh(ctl, y, mirror)
          OBVIOUS
        <4>3. \A x \in y.lines : IsCurrent(x, mirror)
          BY <3>1, <3>4 DEF Held
        <4>4. /\ d \in Controllers /\ d.links = Computed(y, mirror) /\ d.last = ctl.last /\ Hovering(d, mirror)
          BY <3>1, <3>4, <4>1, <4>2, <4>3, RefreshShows
        <4>5. Kept(y, d, mirror)
          BY <3>1, <4>4 DEF Kept, Matches
        <4>6. trk' = Asking(y) /\ ctl' = d
          BY <3>2, <3>4, <4>2 DEF RefreshIf
        <4>7. QED
          BY <3>1, <3>4, <4>1, <4>4, <4>5, <4>6, AskingKeeps DEF Pointing
      <3>5. QED
        BY <3>3, <3>4
    <2>4. QED
      BY <2>1, <2>2, <2>3
  <1>11. question' \in [row : Spots, line : Texts]
    <2>1. <<>> \in Texts
      BY NoLineIsLine
    <2>2. None \in Spots /\ after.cell \in Spots
      BY <1>9 DEF LinkInv, LinkTyped, Trackers, Spots
    <2>3. QED
      BY <1>8, <2>1, <2>2
  <1>12. LinkTyped'
    BY <1>8, <1>10, <1>11 DEF Kept, LinkInv, LinkTyped
  <1>13. QED
    BY <1>8, <1>10, <1>12 DEF LinkInv

\* The pointer moves: what it is on is looked up among links that are current.
LEMMA PointerAtHolds ==
  ASSUME LinkInv, NEW r \in View, PointerAt(r)
  PROVE  LinkInv'
  <1>1. PICK p : p = [trk EXCEPT !.cell = r]
    OBVIOUS
  <1>2. /\ p \in Trackers /\ p.lines = trk.lines /\ p.stale = trk.stale /\ p.unchecked = trk.unchecked
        /\ p.cell = r
    BY <1>1 DEF LinkInv, LinkTyped, Trackers, Spots
  <1>3. Kept(p, ctl, mirror)
    BY <1>2, SameLines DEF LinkInv, LinkTyped
  <1>4. PICK k : k = Check(p, mirror)
    OBVIOUS
  <1>5. PICK c : c = RefreshIf(k.stale, ctl, k, mirror)
    OBVIOUS
  <1>6. PICK z : z = Fresh(k)
    OBVIOUS
  <1>7. /\ Kept(z, c, mirror) /\ ~z.stale /\ z.cell = r
        /\ c.links \in SUBSET Links /\ \A l \in c.links : IsShown(l, mirror)
    BY <1>2, <1>3, <1>4, <1>5, <1>6, StaleIsOff, LooksUp
  <1>8. PICK y : y = [z EXCEPT !.moved = TRUE]
    OBVIOUS
  <1>9. /\ y \in Trackers /\ y.lines = z.lines /\ y.stale = z.stale /\ y.unchecked = z.unchecked /\ y.cell = z.cell
    BY <1>7, <1>8 DEF Kept, Trackers
  <1>10. PICK l : l = LinkAt(c.links, r)
    OBVIOUS
  <1>11. l \in Links /\ (l = NoLink \/ (l \in c.links /\ r \in l.rows))
    BY <1>7, <1>10, LinkAtRow DEF Links
  <1>12. PICK e : e = [c EXCEPT !.last = r]
    OBVIOUS
  <1>13. PICK d : d = [e EXCEPT !.hovered = l]
    OBVIOUS
  <1>14. e.links = c.links /\ d \in Controllers /\ d.links = c.links /\ d.last = r /\ d.hovered = l
    BY <1>7, <1>11, <1>12, <1>13 DEF Kept, Controllers, Spots
  <1>15. Kept(y, d, mirror)
    BY <1>7, <1>9, <1>14, SameLines
  <1>16. trk' = Asking(y) /\ ctl' = d /\ question' = IF MayAsk(y) THEN [row |-> y.cell, line |-> <<>>] ELSE question
    BY <1>1, <1>4, <1>5, <1>6, <1>8, <1>10, <1>12, <1>13, <1>14 DEF PointerAt, Asks, Resolved
  <1>17. Kept(trk', ctl', mirror) /\ trk'.cell = r /\ ~trk'.stale
    BY <1>7, <1>9, <1>15, <1>16, AskingKeeps
  <1>18. Pointing(trk', ctl')
    BY <1>14, <1>16, <1>17 DEF Pointing, View, None
  <1>19. Hovering(ctl', mirror)
    BY <1>7, <1>11, <1>14, <1>16 DEF Hovering
  <1>20. question' \in [row : Spots, line : Texts]
    BY <1>7, <1>9, <1>16, NoLineIsLine DEF LinkInv, LinkTyped, Spots
  <1>21. UNCHANGED <<screen, frames, mirror, opened>>
    BY DEF PointerAt
  <1>22. LinkTyped'
    BY <1>17, <1>20, <1>21 DEF Kept, LinkInv, LinkTyped
  <1>23. QED
    BY <1>17, <1>18, <1>19, <1>21, <1>22 DEF LinkInv

\* The steps that leave the lines and the links alone.
LEMMA SameLinesHold ==
  ASSUME LinkInv, trk' \in Trackers, ctl' \in Controllers, trk'.lines = trk.lines, trk'.stale = trk.stale,
         trk'.unchecked = trk.unchecked, ctl'.links = ctl.links, Pointing(trk', ctl'), Hovering(ctl', mirror),
         UNCHANGED <<screen, frames, mirror, question, opened>>
  PROVE  LinkInv'
  <1>1. Kept(trk', ctl', mirror)
    BY SameLines DEF LinkInv
  <1>2. LinkTyped'
    BY DEF LinkInv, LinkTyped
  <1>3. QED
    BY <1>1, <1>2 DEF LinkInv

LEMMA PointerLeavesHolds ==
  ASSUME LinkInv, PointerLeaves
  PROVE  LinkInv'
  <1>1. /\ trk' = [trk EXCEPT !.cell = None] /\ ctl' = [ctl EXCEPT !.last = None, !.hovered = NoLink]
        /\ UNCHANGED <<screen, frames, mirror, question, opened>>
    BY DEF PointerLeaves
  <1>2. /\ trk' \in Trackers /\ trk'.lines = trk.lines /\ trk'.stale = trk.stale
        /\ trk'.unchecked = trk.unchecked /\ trk'.cell = None
    BY <1>1 DEF LinkInv, LinkTyped, Trackers, Spots
  <1>3. /\ ctl' \in Controllers /\ ctl'.links = ctl.links /\ ctl'.last = None /\ ctl'.hovered = NoLink
    BY <1>1, NoLinkIsEmpty DEF LinkInv, LinkTyped, Controllers, Spots
  <1>4. Pointing(trk', ctl') /\ Hovering(ctl', mirror)
    BY <1>2, <1>3 DEF Pointing, Hovering
  <1>5. QED
    BY <1>1, <1>2, <1>3, <1>4, SameLinesHold

LEMMA DisposeHolds ==
  ASSUME LinkInv, Dispose
  PROVE  LinkInv'
  <1>1. trk' = [trk EXCEPT !.disposed = TRUE] /\ ctl' = ctl /\ UNCHANGED <<screen, frames, mirror, question, opened>>
    BY DEF Dispose
  <1>2. /\ trk' \in Trackers /\ trk'.lines = trk.lines /\ trk'.stale = trk.stale
        /\ trk'.unchecked = trk.unchecked /\ trk'.cell = trk.cell
    BY <1>1 DEF LinkInv, LinkTyped, Trackers
  <1>3. ctl' \in Controllers /\ Pointing(trk', ctl') /\ Hovering(ctl', mirror)
    BY <1>1, <1>2 DEF LinkInv, LinkTyped, Pointing
  <1>4. QED
    BY <1>1, <1>2, <1>3, SameLinesHold

LEMMA DragHolds ==
  ASSUME LinkInv, NEW r, Drag(r)
  PROVE  LinkInv'
  <1>1. /\ trk' = [trk EXCEPT !.pressed = None] /\ ctl' = [ctl EXCEPT !.pressed = NoLink]
        /\ UNCHANGED <<screen, frames, mirror, question, opened>>
    BY DEF Drag
  <1>2. /\ trk' \in Trackers /\ trk'.lines = trk.lines /\ trk'.stale = trk.stale
        /\ trk'.unchecked = trk.unchecked /\ trk'.cell = trk.cell
    BY <1>1 DEF LinkInv, LinkTyped, Trackers, Spots
  <1>3. /\ ctl' \in Controllers /\ ctl'.links = ctl.links /\ ctl'.last = ctl.last /\ ctl'.hovered = ctl.hovered
    BY <1>1, NoLinkIsEmpty DEF LinkInv, LinkTyped, Controllers
  <1>4. Pointing(trk', ctl') /\ Hovering(ctl', mirror)
    BY <1>2, <1>3 DEF LinkInv, Pointing, Hovering
  <1>5. QED
    BY <1>1, <1>2, <1>3, <1>4, SameLinesHold

\* A press and a release look up as the pointer does; z and c are what they found.
Found(z, c) ==
  /\ z = Fresh(Check(trk, mirror))
  /\ c = RefreshIf(Check(trk, mirror).stale, ctl, Check(trk, mirror), mirror)
LEMMA FoundIsShown ==
  ASSUME LinkInv, NEW z, NEW c, Found(z, c)
  PROVE  /\ Kept(z, c, mirror) /\ ~z.stale /\ z.cell = trk.cell
         /\ c.last = ctl.last /\ c.hovered = ctl.hovered /\ c.pressed = ctl.pressed
         /\ c.links \in SUBSET Links /\ \A l \in c.links : IsShown(l, mirror)
  BY StaleIsOff, LooksUp DEF LinkInv, Found

\* What they leave keeps the invariant, whatever is pressed after them.
LEMMA FoundHolds ==
  ASSUME LinkInv, NEW z, NEW c, Found(z, c), NEW s \in Spots, NEW l \in Links, trk' = [z EXCEPT !.pressed = s],
         ctl' = [c EXCEPT !.pressed = l], opened' \in Links, UNCHANGED <<screen, frames, mirror, question>>
  PROVE  LinkInv'
  <1>1. /\ Kept(z, c, mirror) /\ ~z.stale /\ z.cell = trk.cell /\ c.last = ctl.last /\ c.hovered = ctl.hovered
    BY FoundIsShown
  <1>2. /\ trk' \in Trackers /\ trk'.lines = z.lines /\ trk'.stale = z.stale
        /\ trk'.unchecked = z.unchecked /\ trk'.cell = z.cell
    BY <1>1 DEF Kept, Trackers
  <1>3. /\ ctl' \in Controllers /\ ctl'.links = c.links /\ ctl'.last = c.last /\ ctl'.hovered = c.hovered
    BY <1>1 DEF Kept, Controllers
  <1>4. Kept(trk', ctl', mirror)
    BY <1>1, <1>2, <1>3, SameLines
  <1>5. Pointing(trk', ctl') /\ Hovering(ctl', mirror)
    BY <1>1, <1>2, <1>3 DEF LinkInv, Pointing, Hovering
  <1>6. LinkTyped'
    BY <1>2, <1>3 DEF LinkInv, LinkTyped
  <1>7. QED
    BY <1>4, <1>5, <1>6 DEF LinkInv

LEMMA PressHolds ==
  ASSUME LinkInv, NEW r \in Spots, Press(r)
  PROVE  LinkInv'
  <1>1. PICK z : z = Fresh(Check(trk, mirror))
    OBVIOUS
  <1>2. PICK c : c = RefreshIf(Check(trk, mirror).stale, ctl, Check(trk, mirror), mirror)
    OBVIOUS
  <1>3. Found(z, c)
    BY <1>1, <1>2 DEF Found
  <1>4. PICK l : l = LinkAt(c.links, r)
    OBVIOUS
  <1>5. l \in Links
    BY <1>3, <1>4, FoundIsShown, LinkAtRow, NoLinkIsEmpty
  <1>6. trk' = [z EXCEPT !.pressed = r] /\ ctl' = [c EXCEPT !.pressed = l] /\ UNCHANGED <<screen, frames, mirror, question, opened>>
    BY <1>1, <1>2, <1>4 DEF Press
  <1>7. opened' \in Links
    BY <1>6 DEF LinkInv, LinkTyped
  <1>8. QED
    BY <1>3, <1>5, <1>6, <1>7, FoundHolds

\* What a release opens was pressed at that cell, and is shown.
LEMMA ReleaseHolds ==
  ASSUME LinkInv, NEW r \in Spots, Release(r)
  PROVE  LinkInv' /\ (opened' # NoLink => IsShown(opened', mirror) /\ opened' = ctl.pressed)
  <1>1. PICK z : z = Fresh(Check(trk, mirror))
    OBVIOUS
  <1>2. PICK c : c = RefreshIf(Check(trk, mirror).stale, ctl, Check(trk, mirror), mirror)
    OBVIOUS
  <1>3. Found(z, c)
    BY <1>1, <1>2 DEF Found
  <1>4. PICK l : l = LinkAt(c.links, r)
    OBVIOUS
  <1>5. l \in Links /\ (l = NoLink \/ IsShown(l, mirror)) /\ c.pressed = ctl.pressed
    BY <1>3, <1>4, FoundIsShown, LinkAtRow, NoLinkIsEmpty
  <1>6. /\ trk' = [z EXCEPT !.pressed = None] /\ ctl' = [c EXCEPT !.pressed = NoLink]
        /\ opened' = (IF l = c.pressed THEN l ELSE NoLink) /\ UNCHANGED <<screen, frames, mirror, question>>
    BY <1>1, <1>2, <1>4 DEF Release
  <1>7. opened' \in Links /\ None \in Spots /\ NoLink \in Links
    BY <1>5, <1>6, NoLinkIsEmpty DEF Spots
  <1>8. LinkInv'
    BY <1>3, <1>6, <1>7, FoundHolds
  <1>9. QED
    BY <1>5, <1>6, <1>8

-----------------------------------------------------------------------------
(* The theorems.                                                             *)

LEMMA LinkInitHolds ==
  ASSUME LinkInit
  PROVE  LinkInv
  <1>1. Row("b", FALSE) \in RowType
    BY RowHasType DEF Text
  <1>2. NoLink \in Links /\ <<>> \in Texts /\ None \in Spots
    BY NoLinkIsEmpty, NoLineIsLine DEF Spots
  <1>3. frames \in Seq([rows : [View -> RowType], scrolled : BOOLEAN])
    BY EmptySeq DEF LinkInit
  <1>4. /\ trk \in Trackers /\ trk.lines = {} /\ trk.stale /\ ~trk.unchecked /\ trk.cell = None
    BY <1>2 DEF LinkInit, Trackers
  <1>5. ctl \in Controllers /\ ctl.last = None /\ ctl.hovered = NoLink
    BY <1>2 DEF LinkInit, Controllers
  <1>6. LinkTyped
    BY <1>1, <1>2, <1>3, <1>4, <1>5 DEF LinkInit, LinkTyped
  <1>7. Kept(trk, ctl, mirror) /\ Pointing(trk, ctl) /\ Hovering(ctl, mirror)
    BY <1>4, <1>5 DEF Kept, Held, Matches, Apart, Pointing, Hovering
  <1>8. QED
    BY <1>6, <1>7 DEF LinkInv

\* One step: it keeps the invariant, and what it opens is shown and was pressed there.
LEMMA LinkStep ==
  ASSUME LinkInv, [LinkNext]_linkVars
  PROVE  /\ LinkInv'
         /\ opened' # opened /\ opened' # NoLink => IsShown(opened', mirror) /\ opened' = ctl.pressed
  <1>1. CASE \/ WriteRow \/ ScrollUp \/ PortAnswers \/ ApplyFrame \/ Settle \/ PointerLeaves \/ Dispose
    <2>1. LinkInv'
      BY <1>1, WriteRowHolds, ScrollUpHolds, PortAnswersHolds, ApplyFrameHolds, SettleHolds, PointerLeavesHolds,
         DisposeHolds
    <2>2. opened' = opened
      BY <1>1 DEF WriteRow, ScrollUp, PortAnswers, ApplyFrame, Settle, PointerLeaves, Dispose
    <2>3. QED
      BY <2>1, <2>2
  <1>2. ASSUME NEW r \in View, PointerAt(r) PROVE LinkInv' /\ opened' = opened
    BY <1>2, PointerAtHolds DEF PointerAt
  <1>3. ASSUME NEW r \in View \cup {None}, Press(r) \/ Drag(r) PROVE LinkInv' /\ opened' = opened
    BY <1>3, PressHolds, DragHolds DEF Press, Drag, Spots
  <1>4. ASSUME NEW r \in View \cup {None}, Release(r)
        PROVE LinkInv' /\ (opened' # NoLink => IsShown(opened', mirror) /\ opened' = ctl.pressed)
    BY <1>4, ReleaseHolds DEF Spots
  <1>5. CASE UNCHANGED linkVars
    <2>1. UNCHANGED <<screen, frames, mirror, trk, ctl, question, opened>>
      BY <1>5 DEF linkVars
    <2>2. trk' \in Trackers /\ ctl' \in Controllers /\ Pointing(trk', ctl') /\ Hovering(ctl', mirror)
      BY <2>1 DEF LinkInv, LinkTyped
    <2>3. QED
      BY <2>1, <2>2, SameLinesHold
  <1>6. QED
    BY <1>1, <1>2, <1>3, <1>4, <1>5 DEF LinkNext

\* LinkTracker: what is held, computed and pointed at agree, or are known not to.
THEOREM LinkInvHolds == LinkSpec => []LinkInv
  <1>1. LinkInit => LinkInv
    BY LinkInitHolds
  <1>2. LinkInv /\ [LinkNext]_linkVars => LinkInv'
    BY LinkStep
  <1>3. QED
    BY <1>1, <1>2, PTL DEF LinkSpec

\* applyFrame, settle, pointer, press and release (link-tracker.ts): the link hovered is one the
\* mirror shows, at the pointer, no two answers held are about a row, and a release opens what is
\* shown and was pressed there, for every viewport and however late the answers come.
THEOREM LinksStayCurrent == LinkSpec => LinksAreCurrent
  <1>1. LinkInv => HoverIsShown /\ OneAnswerPerRow
    BY DEF LinkInv, Hovering, Kept, Held, Apart, HoverIsShown, OneAnswerPerRow
  <1>2. LinkInv /\ [LinkNext]_linkVars
          => [opened' # opened /\ opened' # NoLink => IsShown(opened', mirror) /\ opened' = ctl.pressed]_linkVars
    BY LinkStep
  <1>3. QED
    BY <1>1, <1>2, LinkInvHolds, PTL DEF LinkSpec, LinksAreCurrent, OpensWhatIsShown

-----------------------------------------------------------------------------
(* MarkerIndex: what is held and what travels.                               *)

Maps == UNION {[T -> Nat] : T \in SUBSET Nat}
Entry == [line : Nat, basis : Nat]
Entries == UNION {[T -> Entry] : T \in SUBSET Nat}
Frame == [evicted : Nat, epoch : Epochs, count : Nat, index : Maps]
Births == [kind : {"created"}, id : Nat, line : Nat, evicted : Nat, epoch : Epochs]
Event == Births \cup [kind : {"disposed"}, id : Nat]
Snap == [index : Maps, evicted : Nat, epoch : Epochs]
Pull == [seq : Nat, answer : SUBSET Snap]
Cache == [lines : Entries, basis : Nat, adopted : SUBSET Epochs, seen : SUBSET Epochs, seq : Nat,
          inFlight : BOOLEAN, failed : BOOLEAN, pending : Seq(Event)]

\* The engine: markers in range, the index among them.
Engine ==
  /\ born \in Nat /\ evicted \in Nat /\ epoch \in Epochs
  /\ live \subseteq 0..(born - 1)
  /\ index \in Maps /\ DOMAIN index \subseteq live

TypedIndex ==
  /\ Engine
  /\ onWire \in Seq(Frame) /\ news \in Seq(Event) /\ pulls \subseteq Pull /\ cache \in Cache
  /\ shown \subseteq Maps /\ told \subseteq Nat
  /\ spent \in [steps : Nat, refusals : Nat, resets : Nat]

\* One pull at most is the cache's own, the one it has out; and nothing it holds is of an id
\* to come.
OwnPull ==
  /\ \A p \in pulls : p.seq <= cache.seq
  /\ \A p \in pulls, q \in pulls : p.seq = q.seq => p = q
  /\ cache.inFlight <=> \E p \in pulls : p.seq = cache.seq
  /\ cache.inFlight => cache.adopted = Null
  /\ cache.adopted = Null \/ \E e \in Epochs : cache.adopted = {e}
  /\ shown # Null => \E e \in Epochs : cache.seen = {e}

\* A sighting: in epoch e marker id is at place n.
Sighted(place, e, id, n) == e \in 0..epoch /\ id \in 0..(born - 1) /\ place[e][id] = n

SightedBirths(place, events) ==
  \A i \in DOMAIN events : events[i].kind = "created" =>
    Sighted(place, events[i].epoch, events[i].id, events[i].line + events[i].evicted)

IndexTrue(place) == \A id \in DOMAIN index : Sighted(place, epoch, id, index[id] + evicted)
FramesTrue(place) ==
  \A i \in DOMAIN onWire : \A id \in DOMAIN onWire[i].index :
    Sighted(place, onWire[i].epoch, id, onWire[i].index[id] + onWire[i].evicted)
AnswersTrue(place) ==
  \A p \in pulls : \A snap \in p.answer : \A id \in DOMAIN snap.index :
    Sighted(place, snap.epoch, id, snap.index[id] + snap.evicted)
ContentsTrue(place) ==
  \A e \in cache.adopted : \A id \in DOMAIN cache.lines :
    Sighted(place, e, id, cache.lines[id].line + cache.lines[id].basis)
ShownTrue(place) ==
  \A e \in cache.seen : \A held \in shown : \A id \in DOMAIN held :
    Sighted(place, e, id, held[id] + cache.basis)
Truth(place) ==
  /\ IndexTrue(place) /\ FramesTrue(place) /\ AnswersTrue(place)
  /\ SightedBirths(place, news) /\ SightedBirths(place, cache.pending)
  /\ ContentsTrue(place) /\ ShownTrue(place)
PlacesIn == [Nat -> [Nat -> Nat]]
Truths == \E place \in PlacesIn : Truth(place)

\* Contents without a generation are of births too.
Known == DOMAIN cache.lines \subseteq 0..(born - 1)

\* Births come before deaths in the news, and are of markers nobody has been told are dead.
NewsInOrder ==
  /\ told \subseteq 0..(born - 1) /\ told \cap live = {}
  /\ \A i \in DOMAIN news : news[i].id < born
  /\ \A i \in DOMAIN news : news[i].kind = "disposed" => news[i].id \notin live
  /\ \A i \in DOMAIN news : news[i].kind = "created" =>
       /\ news[i].id \notin told
       /\ \A j \in DOMAIN news : news[j].kind = "disposed" /\ news[j].id = news[i].id => i < j

\* Among the queued events, id's death.
DeathQueued(id) == \E j \in DOMAIN cache.pending : cache.pending[j].kind = "disposed" /\ cache.pending[j].id = id

Buried ==
  /\ ~cache.inFlight => cache.pending = <<>>
  /\ \A i \in DOMAIN cache.pending : cache.pending[i].kind = "created" /\ cache.pending[i].id \in told =>
       \E j \in DOMAIN cache.pending : /\ cache.pending[j].kind = "disposed" /\ j > i
                                       /\ cache.pending[j].id = cache.pending[i].id
  /\ \A p \in pulls : p.seq = cache.seq =>
       \A snap \in p.answer : \A id \in DOMAIN snap.index \cap told : DeathQueued(id)
  /\ cache.adopted # Null => DOMAIN cache.lines \cap told = {}
BuriedIfAnswered == spent.refusals = 0 => Buried

IndexInv == TypedIndex /\ OwnPull /\ Truths /\ Known /\ NewsInOrder /\ BuriedIfAnswered

-----------------------------------------------------------------------------
(* Maps and entries. *)

LEMMA MapOf ==
  ASSUME NEW T \in SUBSET Nat, NEW f \in [T -> Nat]
  PROVE  f \in Maps /\ DOMAIN f = T
  BY DEF Maps

LEMMA MapIs ==
  ASSUME NEW f \in Maps
  PROVE  DOMAIN f \in SUBSET Nat /\ f \in [DOMAIN f -> Nat] /\ \A id \in DOMAIN f : f[id] \in Nat
  BY DEF Maps

LEMMA EntriesOf ==
  ASSUME NEW T \in SUBSET Nat, NEW f \in [T -> Entry]
  PROVE  f \in Entries /\ DOMAIN f = T
  BY DEF Entries

LEMMA EntriesAre ==
  ASSUME NEW f \in Entries
  PROVE  DOMAIN f \in SUBSET Nat /\ f \in [DOMAIN f -> Entry] /\ \A id \in DOMAIN f : f[id] \in Entry
  BY DEF Entries

LEMMA NoEntries == <<>> \in Entries /\ <<>> \in Maps /\ DOMAIN <<>> = {}
  <1>1. <<>> \in [{} -> Entry] /\ <<>> \in [{} -> Nat]
    OBVIOUS
  <1>2. QED
    BY <1>1, EntriesOf, MapOf

LEMMA PutTyped ==
  ASSUME NEW lines \in Entries, NEW id \in Nat, NEW entry \in Entry
  PROVE  Put(lines, id, entry) \in Entries
  <1>1. Put(lines, id, entry) \in [DOMAIN lines \cup {id} -> Entry]
    BY EntriesAre DEF Put
  <1>2. DOMAIN lines \cup {id} \in SUBSET Nat
    BY EntriesAre
  <1>3. QED
    BY <1>1, <1>2, EntriesOf

LEMMA DropIs ==
  ASSUME NEW lines \in Entries, NEW id \in Nat
  PROVE  /\ Drop(lines, id) \in Entries
         /\ DOMAIN Drop(lines, id) = DOMAIN lines \ {id}
         /\ \A x \in DOMAIN lines \ {id} : Drop(lines, id)[x] = lines[x]
  <1>1. Drop(lines, id) \in [DOMAIN lines \ {id} -> Entry]
    BY EntriesAre DEF Drop
  <1>2. DOMAIN lines \ {id} \in SUBSET Nat
    BY EntriesAre
  <1>3. QED
    BY <1>1, <1>2, EntriesOf DEF Drop

-----------------------------------------------------------------------------
(* What the cache's operations do to it. *)

LEMMA EmptyIs == Empty \in Cache
  BY NoEntries, FeedConstants DEF Empty, Cache, Null

LEMMA JudgedIs ==
  ASSUME NEW c \in Cache, NEW f \in Frame
  PROVE  LET j == Judged(c, f)
         IN  /\ j \in Cache /\ j.basis = f.evicted /\ j.seen = {f.epoch}
             /\ j.seq = c.seq /\ j.inFlight = c.inFlight /\ j.pending = c.pending
             /\ \/ j.adopted = Null /\ DOMAIN j.lines = {}
                \/ j.adopted = c.adopted /\ j.lines = c.lines
  BY NoEntries DEF Judged, Invalidate, Cache, Frame, Null

LEMMA PullingIs ==
  ASSUME NEW c \in Cache
  PROVE  LET p == Pulling(c)
         IN  /\ p \in Cache /\ p.basis = c.basis /\ p.seen = c.seen /\ p.seq = c.seq + 1
             /\ p.inFlight /\ p.pending = c.pending /\ p.adopted = Null /\ DOMAIN p.lines = {}
  <1>1. Invalidate(c) \in Cache /\ Invalidate(c).seq = c.seq /\ DOMAIN Invalidate(c).lines = {}
    BY NoEntries DEF Invalidate, Cache, Null
  <1> DEFINE d == Invalidate(c)
  <1>2. d.seq + 1 \in Nat
    BY <1>1 DEF Cache
  <1>3. Pulling(c) \in Cache /\ Pulling(c).seq = d.seq + 1
    <2> HIDE DEF d
    <2>1. Pulling(c) = [d EXCEPT !.inFlight = TRUE, !.seq = d.seq + 1]
      BY DEF Pulling, d
    <2>2. QED
      BY <1>1, <1>2, <2>1 DEF Cache, d
  <1>4. QED
    BY <1>1, <1>2, <1>3 DEF Pulling, Invalidate, Cache, Null

LEMMA OnCreatedIs ==
  ASSUME NEW c \in Cache, NEW e \in Births
  PROVE  LET a == OnCreated(c, e)
         IN  /\ a \in Cache /\ a.basis = c.basis /\ a.seen = c.seen /\ a.seq = c.seq
             /\ a.inFlight = c.inFlight /\ a.adopted = c.adopted
             /\ a.pending = c.pending \/ a.pending = Append(c.pending, e)
             /\ a.pending = c.pending \/ c.inFlight
             /\ \/ a.lines = c.lines
                \/ /\ c.adopted = Null \/ c.adopted = {e.epoch}
                   /\ a.lines = Put(c.lines, e.id, [line |-> e.line, basis |-> e.evicted])
  <1>1. [line |-> e.line, basis |-> e.evicted] \in Entry /\ e.id \in Nat
    BY DEF Births, Entry
  <1>2. Put(c.lines, e.id, [line |-> e.line, basis |-> e.evicted]) \in Entries
    BY <1>1, PutTyped DEF Cache
  <1>3. Append(c.pending, e) \in Seq(Event)
    BY DEF Cache, Event
  <1>4. QED
    BY <1>2, <1>3 DEF OnCreated, Cache

LEMMA OnDisposedIs ==
  ASSUME NEW c \in Cache, NEW e \in Event
  PROVE  LET a == OnDisposed(c, e)
         IN  /\ a \in Cache /\ a.basis = c.basis /\ a.seen = c.seen /\ a.seq = c.seq
             /\ a.inFlight = c.inFlight /\ a.adopted = c.adopted
             /\ a.pending = IF c.inFlight THEN Append(c.pending, e) ELSE c.pending
             /\ a.lines = Drop(c.lines, e.id)
  <1>1. e.id \in Nat
    BY DEF Event, Births
  <1>2. Drop(c.lines, e.id) \in Entries
    BY <1>1, DropIs DEF Cache
  <1>3. Append(c.pending, e) \in Seq(Event)
    BY DEF Cache
  <1>4. QED
    BY <1>2, <1>3 DEF OnDisposed, Cache

LEMMA DetachedIs ==
  ASSUME NEW c \in Cache
  PROVE  LET d == Detached(c)
         IN  /\ d \in Cache /\ d.seq = c.seq + 1 /\ ~d.inFlight /\ d.pending = <<>>
             /\ d.adopted = Null /\ d.seen = Null /\ DOMAIN d.lines = {}
  <1>1. c.seq + 1 \in Nat
    BY DEF Cache
  <1>2. Detached(c) \in Cache /\ Detached(c).seq = c.seq + 1
    BY <1>1, EmptyIs DEF Detached, Cache
  <1>3. QED
    BY <1>2, NoEntries, EmptyIs DEF Detached, Empty, Cache, Null

LEMMA RejectedIs ==
  ASSUME NEW c \in Cache
  PROVE  LET d == Rejected(c)
         IN  /\ d \in Cache /\ d.seq = c.seq /\ ~d.inFlight /\ d.pending = c.pending
             /\ d.adopted = c.adopted /\ d.seen = c.seen /\ d.basis = c.basis /\ d.lines = c.lines
  BY DEF Rejected, Cache

-----------------------------------------------------------------------------
(* A pull lands. *)

LEMMA Largest ==
  ASSUME NEW n \in Nat, NEW S \in SUBSET (1..n), S # {}
  PROVE  \E x \in S : \A y \in S : y <= x
  <1> DEFINE T == {n - i : i \in S}
  <1>1. \A i \in S : i \in 1..n /\ n - i \in Nat
    OBVIOUS
  <1>2. T \in SUBSET Nat /\ T # {}
    BY <1>1
  <1>3. PICK x \in T : \A y \in T : x <= y
    BY <1>2, Smallest
  <1>4. PICK i \in S : x = n - i
    OBVIOUS
  <1>5. \A j \in S : n - i <= n - j
    BY <1>3, <1>4
  <1>6. QED
    BY <1>1, <1>5

\* An entry that comes of a landed pull is the answer's, of a marker whose death is not
\* queued, or that of a queued birth of the answer's epoch with no death after it.
LandsFrom(c, snap, id, entry) ==
  \/ /\ id \in DOMAIN snap.index
     /\ entry = [line |-> snap.index[id], basis |-> snap.evicted]
     /\ \A j \in DOMAIN c.pending : c.pending[j].id = id => c.pending[j].kind # "disposed"
  \/ \E i \in DOMAIN c.pending :
       /\ c.pending[i].kind = "created" /\ c.pending[i].id = id /\ c.pending[i].epoch = snap.epoch
       /\ entry = [line |-> c.pending[i].line, basis |-> c.pending[i].evicted]
       /\ \A j \in DOMAIN c.pending : c.pending[j].id = id /\ j > i => c.pending[j].kind # "disposed"

LEMMA ReplayedIs ==
  ASSUME NEW c \in Cache, NEW snap \in Snap, NEW id \in Nat, NEW entry \in Replayed(c, snap, id)
  PROVE  LandsFrom(c, snap, id, entry) /\ entry \in Entry
  <1> DEFINE ops == {i \in DOMAIN c.pending : c.pending[i].id = id /\ Applies(c.pending[i], snap.epoch)}
             at == CHOOSE i \in ops : \A j \in ops : j <= i
  <1>0. c.pending \in Seq(Event) /\ DOMAIN c.pending = 1..Len(c.pending) /\ Len(c.pending) \in Nat
        /\ snap.index \in Maps /\ snap.evicted \in Nat
    BY DEF Cache, Snap
  <1>1. \A i \in DOMAIN c.pending : c.pending[i] \in Event
    BY <1>0
  <1>2. CASE ops = {}
    <2>1. id \in DOMAIN snap.index /\ entry = [line |-> snap.index[id], basis |-> snap.evicted]
      BY <1>2 DEF Replayed
    <2>2. \A j \in DOMAIN c.pending : c.pending[j].id = id => c.pending[j].kind # "disposed"
      BY <1>2 DEF Applies
    <2>3. snap.index[id] \in Nat
      BY <1>0, <2>1, MapIs
    <2>4. QED
      BY <1>0, <2>1, <2>2, <2>3 DEF LandsFrom, Entry
  <1>3. CASE ops # {}
    <2>1. \E i \in ops : \A j \in ops : j <= i
      BY <1>0, <1>3, Largest
    <2>2. at \in ops /\ \A j \in ops : j <= at
      BY <2>1
    <2>3. c.pending[at].kind # "disposed" /\ entry = [line |-> c.pending[at].line, basis |-> c.pending[at].evicted]
      BY <1>3 DEF Replayed
    <2>4. c.pending[at] \in Births /\ c.pending[at].kind = "created" /\ c.pending[at].epoch = snap.epoch
          /\ c.pending[at].id = id
      BY <1>1, <2>2, <2>3 DEF Event, Births, Applies
    <2>5. \A j \in DOMAIN c.pending : c.pending[j].id = id /\ j > at => c.pending[j].kind # "disposed"
      <3> SUFFICES ASSUME NEW j \in DOMAIN c.pending, c.pending[j].id = id, j > at,
                          c.pending[j].kind = "disposed"
                   PROVE  FALSE
        OBVIOUS
      <3>1. j \in ops
        BY DEF Applies
      <3>2. j <= at
        BY <2>2, <3>1
      <3>3. j \in Nat /\ at \in Nat
        BY <1>0, <2>2
      <3> HIDE DEF at, ops
      <3>4. QED
        BY <3>2, <3>3
    <2>6. entry \in Entry
      BY <2>3, <2>4 DEF Births, Entry
    <2>7. QED
      BY <2>2, <2>3, <2>4, <2>5, <2>6 DEF LandsFrom
  <1>4. QED
    BY <1>2, <1>3

LEMMA PulledIs ==
  ASSUME NEW c \in Cache, NEW snap \in Snap
  PROVE  LET d == Pulled(c, snap)
         IN  /\ d \in Cache /\ d.seq = c.seq /\ ~d.inFlight /\ d.pending = <<>>
             /\ d.adopted = {snap.epoch} /\ d.seen = c.seen /\ d.basis = c.basis
             /\ \A id \in DOMAIN d.lines : LandsFrom(c, snap, id, d.lines[id])
  <1> DEFINE mentioned == DOMAIN snap.index \cup {c.pending[i].id : i \in DOMAIN c.pending}
             kept == {id \in mentioned : Replayed(c, snap, id) # {}}
             lines == [id \in kept |-> CHOOSE x \in Replayed(c, snap, id) : TRUE]
  <1>1. kept \in SUBSET Nat
    <2>1. DOMAIN snap.index \in SUBSET Nat
      BY MapIs DEF Snap
    <2>2. \A i \in DOMAIN c.pending : c.pending[i].id \in Nat
      BY DEF Cache, Event, Births
    <2>3. QED
      BY <2>1, <2>2
  <1>2. \A id \in kept : lines[id] \in Replayed(c, snap, id)
    OBVIOUS
  <1>3. \A id \in kept : LandsFrom(c, snap, id, lines[id]) /\ lines[id] \in Entry
    BY <1>1, <1>2, ReplayedIs
  <1>4. lines \in Entries /\ DOMAIN lines = kept
    <2>1. lines \in [kept -> Entry]
      BY <1>3
    <2> HIDE DEF lines, kept
    <2>2. QED
      BY <1>1, <2>1, EntriesOf
  <1>5. Pulled(c, snap) = [c EXCEPT !.inFlight = FALSE, !.lines = lines, !.pending = <<>>,
                                    !.adopted = {snap.epoch}, !.failed = FALSE]
    BY DEF Pulled
  <1>6. <<>> \in Seq(Event)
    OBVIOUS
  <1>7. QED
    <2> HIDE DEF lines, kept
    <2>1. {snap.epoch} \in SUBSET Epochs
      BY DEF Snap
    <2>2. /\ Pulled(c, snap) \in Cache /\ Pulled(c, snap).lines = lines /\ Pulled(c, snap).pending = <<>>
          /\ Pulled(c, snap).seq = c.seq /\ ~Pulled(c, snap).inFlight
          /\ Pulled(c, snap).adopted = {snap.epoch} /\ Pulled(c, snap).seen = c.seen
          /\ Pulled(c, snap).basis = c.basis
      BY <1>4, <1>5, <1>6, <2>1 DEF Cache
    <2>3. QED
      BY <1>3, <1>4, <2>2

-----------------------------------------------------------------------------
(* A step of the engine. *)

\* The events of a step: deaths of markers that were live and are not, and at the end,
\* perhaps, a birth.
Emitted ==
  /\ emitted' \in Seq(Event)
  /\ \A i \in DOMAIN emitted' : emitted'[i].kind = "disposed" => emitted'[i].id \in live \ live'

NoBirth == \A i \in DOMAIN emitted' : emitted'[i].kind # "created"

\* The epoch lasts and markers keep their places ...
IndexKept ==
  /\ epoch' = epoch /\ born' = born /\ NoBirth /\ live' \subseteq live
  /\ \A id \in DOMAIN index' : id \in DOMAIN index /\ index'[id] + evicted' = index[id] + evicted

\* ... one is added ...
Bore ==
  /\ epoch' = epoch /\ born' = born + 1 /\ live' \subseteq live \cup {born}
  /\ \A id \in DOMAIN index' \ {born} :
       id \in DOMAIN index /\ index'[id] + evicted' = index[id] + evicted
  /\ born \in DOMAIN index'
  /\ \A i \in DOMAIN emitted' : emitted'[i].kind = "created" =>
       /\ i = Len(emitted') /\ emitted'[i].id = born /\ emitted'[i].epoch = epoch
       /\ emitted'[i].line + emitted'[i].evicted = index'[born] + evicted'

\* ... or another epoch begins.
Disturbed == epoch' > epoch /\ born' = born /\ NoBirth /\ live' \subseteq live

LEMMA FiniteMarkers ==
  ASSUME NEW n \in Nat, NEW D \in SUBSET (0..(n - 1))
  PROVE  IsFiniteSet(D) /\ Cardinality(D) \in Nat /\ D \subseteq Nat
  <1>1. IsFiniteSet(0..(n - 1))
    BY FS_Interval
  <1>2. IsFiniteSet(D)
    BY <1>1, FS_Subset
  <1>3. QED
    BY <1>2, FS_CardinalityType

LEMMA DeathsAre ==
  ASSUME NEW n \in Nat, NEW D \in SUBSET (0..(n - 1)), NEW ds \in Deaths(D)
  PROVE  /\ ds \in Seq(Event)
         /\ \A i \in DOMAIN ds : ds[i].kind = "disposed" /\ ds[i].id \in D
  <1>1. Cardinality(D) \in Nat /\ D \subseteq Nat
    BY FiniteMarkers
  <1>2. PICK s \in SetToSeqs(D) : ds = [i \in DOMAIN s |-> Disposed(s[i])]
    BY DEF Deaths
  <1>3. s \in [1..Cardinality(D) -> D]
    BY <1>2 DEF SetToSeqs
  <1>4. \A i \in 1..Cardinality(D) : ds[i] = [kind |-> "disposed", id |-> s[i]] /\ ds[i] \in Event
    BY <1>1, <1>2, <1>3 DEF Disposed, Event
  <1>5. ds \in [1..Cardinality(D) -> Event] /\ DOMAIN ds = 1..Cardinality(D)
    BY <1>2, <1>3, <1>4
  <1>6. ds \in Seq(Event)
    BY <1>1, <1>5
  <1>7. QED
    BY <1>3, <1>4, <1>5, <1>6

LEMMA RetireIs ==
  ASSUME Engine, NEW n \in Lines, NEW D \in SUBSET live, Retire(n, D)
  PROVE  Engine' /\ Emitted /\ IndexKept
  <1>0. n \in Nat /\ D \in SUBSET (0..(born - 1)) /\ evicted + n \in Nat
    BY FeedConstants DEF Engine
  <1> DEFINE kept == DOMAIN index \ D
  <1>1. index \in [DOMAIN index -> Nat] /\ DOMAIN index \in SUBSET Nat
    BY MapIs DEF Engine
  <1>2. index' = [id \in kept |-> index[id] - n] /\ \A id \in kept : index[id] >= n
    BY DEF Retire
  <1>3. index' \in [kept -> Nat] /\ \A id \in kept : index'[id] = index[id] - n
    BY <1>0, <1>1, <1>2
  <1>4. index' \in Maps /\ DOMAIN index' = kept
    <2>1. kept \in SUBSET Nat
      BY <1>1
    <2> HIDE DEF kept
    <2>2. QED
      BY <1>3, <2>1, MapOf
  <1>5. live' = live \ D /\ born' = born /\ epoch' = epoch /\ evicted' = evicted + n
    BY DEF Retire
  <1>6. Engine'
    BY <1>0, <1>4, <1>5 DEF Engine
  <1>7. Emitted /\ NoBirth
    BY <1>0, <1>5, DeathsAre DEF Engine, Retire, Emitted, NoBirth
  <1>8. \A id \in DOMAIN index' : id \in DOMAIN index /\ index'[id] + evicted' = index[id] + evicted
    BY <1>0, <1>1, <1>3, <1>4, <1>5 DEF Engine
  <1>9. QED
    BY <1>5, <1>6, <1>7, <1>8 DEF IndexKept

LEMMA BirthIs ==
  ASSUME Engine, NEW line \in Lines, NEW D \in SUBSET live, Birth(line, D)
  PROVE  Engine' /\ Emitted /\ Bore
  <1>0. line \in Nat /\ D \in SUBSET (0..(born - 1)) /\ born \in Nat
    BY FeedConstants DEF Engine
  <1> DEFINE kept == (DOMAIN index \ D) \cup {born}
  <1>1. index \in [DOMAIN index -> Nat] /\ DOMAIN index \in SUBSET Nat /\ born \notin DOMAIN index
        /\ DOMAIN index \subseteq live
    BY MapIs, <1>0 DEF Engine
  <1>2. index' = [x \in kept |-> IF x = born THEN line ELSE index[x]]
    BY DEF Birth
  <1>3. index' \in [kept -> Nat] /\ \A id \in kept : index'[id] = IF id = born THEN line ELSE index[id]
    BY <1>0, <1>1, <1>2
  <1>4. index' \in Maps /\ DOMAIN index' = kept
    <2>1. kept \in SUBSET Nat
      BY <1>0, <1>1
    <2> HIDE DEF kept
    <2>2. QED
      BY <1>3, <2>1, MapOf
  <1>5. live' = (live \ D) \cup {born} /\ born' = born + 1 /\ epoch' = epoch /\ evicted' = evicted
    BY DEF Birth
  <1>6. Engine'
    <2>1. live' \subseteq 0..(born' - 1)
      BY <1>0, <1>5 DEF Engine
    <2>2. DOMAIN index' \subseteq live'
      BY <1>1, <1>4, <1>5
    <2>3. QED
      BY <1>0, <1>4, <1>5, <2>1, <2>2 DEF Engine
  <1>7. PICK ds \in Deaths(D) : emitted' = Append(ds, Created(born, line))
    BY DEF Birth
  <1>8. ds \in Seq(Event) /\ \A i \in DOMAIN ds : ds[i].kind = "disposed" /\ ds[i].id \in D
    BY <1>0, DeathsAre
  <1>9. Created(born, line) \in Event
    BY <1>0 DEF Created, Event, Births, Engine
  <1>10. /\ emitted' \in Seq(Event) /\ Len(emitted') = Len(ds) + 1 /\ Len(ds) \in Nat
         /\ \A i \in 1..Len(ds) : emitted'[i] = ds[i] /\ i \in DOMAIN ds
         /\ emitted'[Len(ds) + 1] = Created(born, line)
    BY <1>7, <1>8, <1>9
  <1>11. \A i \in DOMAIN emitted' : i \in 1..Len(ds) \/ i = Len(ds) + 1
    BY <1>10
  <1>12. Created(born, line).kind = "created" /\ Created(born, line).id = born
         /\ Created(born, line).line = line /\ Created(born, line).evicted = evicted
         /\ Created(born, line).epoch = epoch
    BY DEF Created
  <1>13. \A i \in DOMAIN emitted' : emitted'[i].kind = "disposed" => emitted'[i].id \in D
    BY <1>8, <1>10, <1>11, <1>12
  <1>14. Emitted
    <2>1. D \subseteq live \ live'
      BY <1>0, <1>5
    <2>2. QED
      BY <1>10, <1>13, <2>1 DEF Emitted
  <1>15. \A i \in DOMAIN emitted' : emitted'[i].kind = "created" => i = Len(ds) + 1
    BY <1>8, <1>10, <1>11
  <1>16. \A i \in DOMAIN emitted' : emitted'[i].kind = "created" =>
           /\ i = Len(emitted') /\ emitted'[i].id = born /\ emitted'[i].epoch = epoch
           /\ emitted'[i].line + emitted'[i].evicted = index'[born] + evicted'
    BY <1>3, <1>5, <1>10, <1>12, <1>15
  <1>17. \A id \in DOMAIN index' \ {born} :
           id \in DOMAIN index /\ index'[id] + evicted' = index[id] + evicted
    BY <1>3, <1>4, <1>5
  <1>18. QED
    BY <1>4, <1>5, <1>6, <1>14, <1>16, <1>17 DEF Bore

LEMMA DisturbIs ==
  ASSUME Engine, NEW D \in SUBSET live, Disturb(D)
  PROVE  Engine' /\ Emitted /\ Disturbed
  <1>0. D \in SUBSET (0..(born - 1)) /\ born \in Nat
    BY DEF Engine
  <1>1. PICK T \in SUBSET (live \ D) : index' \in [T -> Lines]
    BY DEF Disturb, Indexes
  <1>2. T \in SUBSET Nat /\ index' \in [T -> Nat]
    <2>1. T \subseteq Nat
      BY <1>0, <1>1 DEF Engine
    <2>2. index' \in [T -> Nat]
      BY <1>1, FeedConstants
    <2>3. QED
      BY <2>1, <2>2
  <1>3. index' \in Maps /\ DOMAIN index' = T
    BY <1>2, MapOf
  <1>4. live' = live \ D /\ born' = born /\ epoch' \in Epochs /\ epoch' > epoch /\ evicted' \in Nat
    BY FeedConstants DEF Disturb
  <1>5. Engine'
    <2>1. live' \subseteq 0..(born' - 1) /\ DOMAIN index' \subseteq live'
      BY <1>1, <1>3, <1>4 DEF Engine
    <2>2. QED
      BY <1>0, <1>3, <1>4, <2>1 DEF Engine
  <1>6. Emitted /\ NoBirth
    BY <1>0, <1>4, DeathsAre DEF Engine, Disturb, Emitted, NoBirth
  <1>7. QED
    BY <1>4, <1>5, <1>6 DEF Disturbed

LEMMA EngineIs ==
  ASSUME Engine, EngineStep
  PROVE  Engine' /\ Emitted /\ (IndexKept \/ Bore \/ Disturbed)
  BY RetireIs, BirthIs, DisturbIs DEF EngineStep, FeedNext

-----------------------------------------------------------------------------
(* Types. *)

LEMMA IdleIs ==
  ASSUME EngineIdle
  PROVE  /\ UNCHANGED <<index, live, born, evicted, epoch>>
         /\ Engine => Engine'
  BY DEF EngineIdle, Engine

LEMMA InitTypedIndex ==
  ASSUME Init
  PROVE  TypedIndex
  BY NoEntries, EmptyIs, FeedConstants DEF Init, FeedInit, TypedIndex, Engine, Null

LEMMA SyncTyped ==
  ASSUME TypedIndex, Sync
  PROVE  TypedIndex'
  <1>1. Head(onWire) \in Frame /\ Tail(onWire) \in Seq(Frame)
    BY DEF TypedIndex, Sync
  <1> DEFINE c == Judged(cache, Head(onWire))
  <1>2. c \in Cache
    BY <1>1, JudgedIs DEF TypedIndex
  <1>3. Pulling(c) \in Cache /\ c.seq + 1 \in Nat
    BY <1>2, PullingIs DEF Cache
  <1>4. cache' \in Cache /\ pulls' \subseteq Pull
    <2>1. \/ cache' = c /\ pulls' = pulls
          \/ cache' = Pulling(c) /\ pulls' = pulls \cup {[seq |-> c.seq + 1, answer |-> Null]}
      <3>1. CASE WantsPull(c)
        BY <3>1 DEF Sync
      <3>2. CASE ~WantsPull(c)
        BY <3>2 DEF Sync
      <3>3. QED
        BY <3>1, <3>2
    <2> HIDE DEF c
    <2>2. [seq |-> c.seq + 1, answer |-> Null] \in Pull
      BY <1>3 DEF Pull, Null
    <2>3. QED
      BY <1>2, <1>3, <2>1, <2>2 DEF TypedIndex
  <1>5. shown' \subseteq Maps
    BY <1>1 DEF Sync, Frame
  <1>6. QED
    BY <1>1, <1>4, <1>5, IdleIs DEF TypedIndex, Sync

LEMMA NextTypedIndex ==
  ASSUME TypedIndex, Next
  PROVE  TypedIndex'
  <1>1. CASE EngineStep
    <2>1. Engine' /\ emitted' \in Seq(Event)
      BY <1>1, EngineIs DEF TypedIndex, Emitted
    <2>2. news' \in Seq(Event)
      BY <1>1, <2>1 DEF EngineStep, TypedIndex
    <2>3. spent' \in [steps : Nat, refusals : Nat, resets : Nat]
      <3>1. spent' = [spent EXCEPT !.steps = spent.steps + 1]
        BY <1>1 DEF EngineStep
      <3>2. QED
        BY <3>1 DEF TypedIndex
    <2>4. QED
      BY <1>1, <2>1, <2>2, <2>3 DEF EngineStep, TypedIndex, widgetVars
  <1>2. CASE SendFrame
    <2>1. Cardinality(DOMAIN index) \in Nat
      BY FiniteMarkers DEF TypedIndex, Engine
    <2>2. [evicted |-> evicted, epoch |-> epoch, count |-> Cardinality(DOMAIN index), index |-> index] \in Frame
      BY <2>1 DEF TypedIndex, Engine, Frame
    <2>3. onWire' \in Seq(Frame)
      BY <1>2, <2>2 DEF SendFrame, TypedIndex
    <2>4. QED
      BY <1>2, <2>3, IdleIs DEF SendFrame, TypedIndex
  <1>3. CASE Sync
    BY <1>3, SyncTyped
  <1>4. CASE HearBirth
    <2>1. Head(news) \in Births /\ Tail(news) \in Seq(Event)
      BY <1>4 DEF HearBirth, TypedIndex, Event
    <2>2. cache' \in Cache
      BY <1>4, <2>1, OnCreatedIs DEF HearBirth, TypedIndex
    <2>3. QED
      BY <1>4, <2>1, <2>2, IdleIs DEF HearBirth, TypedIndex
  <1>5. CASE HearDeath
    <2>1. Head(news) \in Event /\ Tail(news) \in Seq(Event)
      BY <1>5 DEF HearDeath, TypedIndex
    <2>2. cache' \in Cache
      BY <1>5, <2>1, OnDisposedIs DEF HearDeath, TypedIndex
    <2>3. told' \subseteq Nat
      BY <1>5, <2>1 DEF HearDeath, TypedIndex, Event, Births
    <2>4. UNCHANGED <<onWire, pulls, shown, spent>> /\ news' = Tail(news) /\ Engine'
      BY <1>5, IdleIs DEF HearDeath, TypedIndex
    <2>5. QED
      BY <2>1, <2>2, <2>3, <2>4 DEF TypedIndex
  <1>6. CASE Reset
    <2>1. cache' \in Cache
      BY <1>6, DetachedIs DEF Reset, TypedIndex
    <2>2. spent' \in [steps : Nat, refusals : Nat, resets : Nat]
      BY <1>6 DEF Reset, TypedIndex
    <2>3. QED
      BY <1>6, <2>1, <2>2, IdleIs DEF Reset, TypedIndex, Null
  <1>7. ASSUME NEW p \in pulls, Evaluate(p) PROVE TypedIndex'
    <2>1. p \in Pull /\ [index |-> index, evicted |-> evicted, epoch |-> epoch] \in Snap
      BY DEF TypedIndex, Engine, Snap
    <2>2. [p EXCEPT !.answer = {[index |-> index, evicted |-> evicted, epoch |-> epoch]}] \in Pull
      BY <2>1 DEF Pull
    <2>3. pulls' \subseteq Pull
      BY <1>7, <2>2 DEF Evaluate, TypedIndex
    <2>4. QED
      BY <1>7, <2>3, IdleIs DEF Evaluate, TypedIndex
  <1>8. ASSUME NEW p \in pulls, Land(p) PROVE TypedIndex'
    <2>1. PICK snap \in p.answer : cache' = IF p.seq = cache.seq THEN Pulled(cache, snap) ELSE cache
      BY <1>8 DEF Land
    <2>2. snap \in Snap
      BY <2>1 DEF TypedIndex, Pull
    <2>3. cache' \in Cache
      BY <2>1, <2>2, PulledIs DEF TypedIndex
    <2>4. QED
      BY <1>8, <2>3, IdleIs DEF Land, TypedIndex
  <1>9. ASSUME NEW p \in pulls, Reject(p) PROVE TypedIndex'
    <2>1. cache' \in Cache
      BY <1>9, RejectedIs DEF Reject, TypedIndex
    <2>2. spent' \in [steps : Nat, refusals : Nat, resets : Nat]
      BY <1>9 DEF Reject, TypedIndex
    <2>3. QED
      BY <1>9, <2>1, <2>2, IdleIs DEF Reject, TypedIndex
  <1>10. QED
    BY <1>1, <1>2, <1>3, <1>4, <1>5, <1>6, <1>7, <1>8, <1>9 DEF Next

-----------------------------------------------------------------------------
(* The pull the cache has out. *)

LEMMA OwnPullHolds ==
  ASSUME TypedIndex, OwnPull, Next
  PROVE  OwnPull'
  <1>0. cache \in Cache /\ cache.seq \in Nat /\ \A p \in pulls : p.seq \in Nat
    BY DEF TypedIndex, Cache, Pull
  <1>1. CASE EngineStep
    BY <1>1 DEF EngineStep, widgetVars, OwnPull
  <1>2. CASE SendFrame
    BY <1>2 DEF SendFrame, OwnPull
  <1>3. CASE Sync
    <2>1. Head(onWire) \in Frame
      BY <1>3 DEF TypedIndex, Sync
    <2> DEFINE f == Head(onWire)
               c == Judged(cache, f)
    <2>2. /\ c \in Cache /\ c.seen = {f.epoch} /\ f.epoch \in Epochs /\ c.seq = cache.seq
          /\ c.inFlight = cache.inFlight
          /\ c.adopted = Null \/ c.adopted = cache.adopted
      BY <1>0, <2>1, JudgedIs DEF Frame
    <2>3. CASE ~WantsPull(c)
      <3>1. cache' = c /\ pulls' = pulls
        BY <1>3, <2>3 DEF Sync
      <3> HIDE DEF c, f
      <3>2. QED
        BY <2>2, <3>1 DEF OwnPull
    <2>4. CASE WantsPull(c)
      <3>1. cache' = Pulling(c) /\ pulls' = pulls \cup {[seq |-> c.seq + 1, answer |-> Null]}
        BY <1>3, <2>4 DEF Sync
      <3> HIDE DEF c, f
      <3>2. cache'.seq = cache.seq + 1 /\ cache'.inFlight /\ cache'.adopted = Null /\ cache'.seen = {f.epoch}
        BY <2>2, <3>1, PullingIs
      <3>3. \A p \in pulls' : p \in pulls \/ p = [seq |-> cache.seq + 1, answer |-> Null]
        BY <2>2, <3>1
      <3>4. [seq |-> cache.seq + 1, answer |-> Null] \in pulls'
        BY <2>2, <3>1
      <3>5. \A p \in pulls : p.seq < cache.seq + 1
        BY <1>0 DEF OwnPull
      <3>6. QED
        BY <1>0, <2>2, <3>2, <3>3, <3>4, <3>5 DEF OwnPull
    <2>5. QED
      BY <2>3, <2>4
  <1>4. CASE HearBirth
    <2>1. Head(news) \in Births
      BY <1>4 DEF HearBirth, TypedIndex, Event
    <2>2. UNCHANGED <<pulls, shown>> /\ cache' = OnCreated(cache, Head(news))
      BY <1>4 DEF HearBirth
    <2>3. cache'.seen = cache.seen /\ cache'.seq = cache.seq /\ cache'.inFlight = cache.inFlight
          /\ cache'.adopted = cache.adopted
      BY <1>0, <2>1, <2>2, OnCreatedIs
    <2>4. QED
      BY <2>2, <2>3 DEF OwnPull
  <1>5. CASE HearDeath
    <2>1. Head(news) \in Event
      BY <1>5 DEF HearDeath, TypedIndex
    <2>2. QED
      BY <1>0, <1>5, <2>1, OnDisposedIs DEF HearDeath, OwnPull
  <1>6. CASE Reset
    BY <1>0, <1>6, DetachedIs DEF Reset, OwnPull, Null
  <1>7. ASSUME NEW p \in pulls, Evaluate(p) PROVE OwnPull'
    <2>1. PICK q : q = [p EXCEPT !.answer = {[index |-> index, evicted |-> evicted, epoch |-> epoch]}]
      OBVIOUS
    <2>2. pulls' = (pulls \ {p}) \cup {q} /\ UNCHANGED <<cache, shown>>
      BY <1>7, <2>1 DEF Evaluate
    <2>3. q.seq = p.seq
      BY <2>1 DEF TypedIndex, Pull
    <2>4. QED
      BY <2>2, <2>3 DEF OwnPull
  <1>8. ASSUME NEW p \in pulls, Land(p) PROVE OwnPull'
    <2>1. PICK snap \in p.answer : cache' = IF p.seq = cache.seq THEN Pulled(cache, snap) ELSE cache
      BY <1>8 DEF Land
    <2>2. snap \in Snap /\ snap.epoch \in Epochs
      BY <2>1 DEF TypedIndex, Pull, Snap
    <2>3. p.seq = cache.seq => /\ cache'.seq = cache.seq /\ ~cache'.inFlight /\ cache'.adopted = {snap.epoch}
                               /\ cache'.seen = cache.seen
      BY <1>0, <2>1, <2>2, PulledIs
    <2>4. pulls' = pulls \ {p} /\ shown' = shown /\ (p.seq # cache.seq => cache' = cache)
      BY <1>8, <2>1 DEF Land
    <2>5. QED
      BY <2>2, <2>3, <2>4 DEF OwnPull
  <1>9. ASSUME NEW p \in pulls, Reject(p) PROVE OwnPull'
    <2>1. p.seq = cache.seq => /\ cache'.seq = cache.seq /\ ~cache'.inFlight /\ cache'.adopted = cache.adopted
                               /\ cache'.seen = cache.seen
      BY <1>0, <1>9, RejectedIs DEF Reject
    <2>2. pulls' = pulls \ {p} /\ shown' = shown /\ (p.seq # cache.seq => cache' = cache)
      BY <1>9 DEF Reject
    <2>3. QED
      BY <2>1, <2>2 DEF OwnPull
  <1>10. QED
    BY <1>1, <1>2, <1>3, <1>4, <1>5, <1>6, <1>7, <1>8, <1>9 DEF Next

-----------------------------------------------------------------------------
(* Truth, while the engine is idle: what moves about was a sighting before.  *)

LEMMA SendFrameTruth ==
  ASSUME TypedIndex, SendFrame, NEW place, Truth(place)
  PROVE  Truth(place)'
  <1>1. UNCHANGED <<index, born, evicted, epoch, news, pulls, cache, shown>>
    BY DEF SendFrame, EngineIdle
  <1> DEFINE f == [evicted |-> evicted, epoch |-> epoch, count |-> Cardinality(DOMAIN index), index |-> index]
  <1>2. f.index = index /\ f.evicted = evicted /\ f.epoch = epoch /\ onWire' = Append(onWire, f)
    BY DEF SendFrame
  <1> HIDE DEF f
  <1>3. /\ \A i \in DOMAIN onWire : onWire'[i] = onWire[i]
        /\ \A i \in DOMAIN onWire' : i \in DOMAIN onWire \/ onWire'[i] = f
    BY <1>2 DEF TypedIndex
  <1>4. FramesTrue(place)'
    <2> SUFFICES ASSUME NEW i \in DOMAIN onWire', NEW id \in DOMAIN onWire'[i].index
                 PROVE  Sighted(place, onWire[i].epoch, id, onWire[i].index[id] + onWire[i].evicted)'
      BY DEF FramesTrue
    <2>1. CASE i \in DOMAIN onWire
      BY <1>1, <1>3, <2>1 DEF Truth, FramesTrue, Sighted
    <2>2. CASE onWire'[i] = f
      BY <1>1, <1>2, <2>2 DEF Truth, IndexTrue, Sighted
    <2>3. QED
      BY <1>3, <2>1, <2>2
  <1>5. QED
    BY <1>1, <1>4 DEF Truth, IndexTrue, AnswersTrue, SightedBirths, ContentsTrue, ShownTrue, Sighted

LEMMA SyncTruth ==
  ASSUME TypedIndex, Sync, NEW place, Truth(place)
  PROVE  Truth(place)'
  <1> DEFINE f == Head(onWire)
             c == Judged(cache, f)
  <1>1. UNCHANGED <<index, born, evicted, epoch, news>> /\ onWire' = Tail(onWire) /\ shown' = {f.index}
    BY DEF Sync, EngineIdle
  <1>2. f \in Frame /\ f = onWire[1] /\ 1 \in DOMAIN onWire
        /\ \A i \in DOMAIN onWire' : i + 1 \in DOMAIN onWire /\ onWire'[i] = onWire[i + 1]
    <2>1. onWire \in Seq(Frame) /\ onWire # <<>>
      BY DEF Sync, TypedIndex
    <2>2. \A i \in DOMAIN Tail(onWire) : i + 1 \in DOMAIN onWire /\ Tail(onWire)[i] = onWire[i + 1]
      BY <2>1
    <2>3. QED
      BY <1>1, <2>1, <2>2
  <1>3. cache \in Cache
    BY DEF TypedIndex
  <1>4. /\ c \in Cache /\ c.basis = f.evicted /\ c.seen = {f.epoch} /\ c.pending = cache.pending
        /\ \/ c.adopted = Null
           \/ c.adopted = cache.adopted /\ c.lines = cache.lines
    BY <1>2, <1>3, JudgedIs
  <1>5. /\ cache'.basis = f.evicted /\ cache'.seen = {f.epoch} /\ cache'.pending = cache.pending
        /\ \/ cache'.adopted = Null
           \/ cache'.adopted = cache.adopted /\ cache'.lines = cache.lines
        /\ \A p \in pulls' : p \in pulls \/ p.answer = Null
    <2>1. CASE WantsPull(c)
      <3>1. cache' = Pulling(c) /\ pulls' = pulls \cup {[seq |-> c.seq + 1, answer |-> Null]}
        BY <2>1 DEF Sync
      <3> HIDE DEF c, f
      <3>2. /\ cache'.basis = f.evicted /\ cache'.seen = {f.epoch} /\ cache'.pending = cache.pending
            /\ cache'.adopted = Null
        BY <1>4, <3>1, PullingIs
      <3>3. QED
        BY <3>1, <3>2
    <2>2. CASE ~WantsPull(c)
      <3>1. cache' = c /\ pulls' = pulls
        BY <2>2 DEF Sync
      <3> HIDE DEF c
      <3>2. QED
        BY <1>4, <3>1
    <2>3. QED
      BY <2>1, <2>2
  <1> HIDE DEF f, c
  <1>6. FramesTrue(place)'
    BY <1>1, <1>2 DEF Truth, FramesTrue, Sighted
  <1>7. AnswersTrue(place)'
    BY <1>1, <1>5 DEF Truth, AnswersTrue, Sighted, Null
  <1>8. SightedBirths(place, news)' /\ SightedBirths(place, cache.pending)' /\ IndexTrue(place)'
    BY <1>1, <1>5 DEF Truth, SightedBirths, IndexTrue, Sighted
  <1>9. ContentsTrue(place)'
    BY <1>1, <1>5 DEF Truth, ContentsTrue, Sighted, Null
  <1>10. ShownTrue(place)'
    BY <1>1, <1>2, <1>5 DEF Truth, FramesTrue, ShownTrue, Sighted
  <1>11. QED
    BY <1>6, <1>7, <1>8, <1>9, <1>10 DEF Truth

\* A queue of events that only lost its first, or gained one whose birth is a sighting.
LEMMA TailSighted ==
  ASSUME NEW place, NEW events \in Seq(Event), events # <<>>, SightedBirths(place, events)
  PROVE  SightedBirths(place, Tail(events))
  <1>1. \A i \in DOMAIN Tail(events) : i + 1 \in DOMAIN events /\ Tail(events)[i] = events[i + 1]
    OBVIOUS
  <1>2. QED
    BY <1>1 DEF SightedBirths

LEMMA AppendSighted ==
  ASSUME NEW place, NEW events \in Seq(Event), SightedBirths(place, events), NEW e \in Event,
         e.kind = "created" => Sighted(place, e.epoch, e.id, e.line + e.evicted)
  PROVE  SightedBirths(place, Append(events, e))
  <1>1. \A i \in DOMAIN Append(events, e) :
          \/ i \in DOMAIN events /\ Append(events, e)[i] = events[i]
          \/ Append(events, e)[i] = e
    OBVIOUS
  <1>2. QED
    BY <1>1 DEF SightedBirths

LEMMA HearBirthTruth ==
  ASSUME TypedIndex, HearBirth, NEW place, Truth(place)
  PROVE  Truth(place)'
  <1> DEFINE e == Head(news)
  <1>1. UNCHANGED <<index, born, evicted, epoch, onWire, pulls, shown>> /\ news' = Tail(news)
        /\ cache' = OnCreated(cache, e) /\ news # <<>> /\ e.kind = "created"
    BY DEF HearBirth, EngineIdle
  <1>2. e \in Births /\ e \in Event /\ e = news[1] /\ 1 \in DOMAIN news
    BY <1>1 DEF TypedIndex, Event
  <1>3. Sighted(place, e.epoch, e.id, e.line + e.evicted)
    BY <1>1, <1>2 DEF Truth, SightedBirths
  <1>4. cache \in Cache /\ cache.lines \in Entries /\ cache.pending \in Seq(Event) /\ news \in Seq(Event)
    BY DEF TypedIndex, Cache
  <1> HIDE DEF e
  <1>5. SightedBirths(place, news)'
    <2>1. SightedBirths(place, Tail(news))
      BY <1>1, <1>4, TailSighted DEF Truth
    <2>2. QED
      BY <1>1, <2>1 DEF SightedBirths, Sighted
  <1>6. SightedBirths(place, cache.pending)'
    <2>1. cache'.pending = cache.pending \/ cache'.pending = Append(cache.pending, e)
      BY <1>1, <1>2, <1>4, OnCreatedIs
    <2>2. SightedBirths(place, cache'.pending)
      BY <1>2, <1>3, <1>4, <2>1, AppendSighted DEF Truth
    <2>3. QED
      BY <1>1, <2>2 DEF SightedBirths, Sighted
  <1>7. ContentsTrue(place)'
    <2>1. cache'.adopted = cache.adopted
          /\ \/ cache'.lines = cache.lines
             \/ /\ cache.adopted = Null \/ cache.adopted = {e.epoch}
                /\ cache'.lines = Put(cache.lines, e.id, [line |-> e.line, basis |-> e.evicted])
      BY <1>1, <1>2, <1>4, OnCreatedIs
    <2>2. CASE cache'.lines = cache.lines \/ cache.adopted = Null
      BY <1>1, <2>1, <2>2 DEF Truth, ContentsTrue, Sighted, Null
    <2>3. CASE cache.adopted = {e.epoch}
               /\ cache'.lines = Put(cache.lines, e.id, [line |-> e.line, basis |-> e.evicted])
      <3> DEFINE entry == [line |-> e.line, basis |-> e.evicted]
      <3>1. entry \in Entry /\ entry.line = e.line /\ entry.basis = e.evicted /\ e.id \in Nat
        BY <1>2 DEF Births, Entry
      <3> HIDE DEF entry
      <3>2. /\ DOMAIN cache'.lines = DOMAIN cache.lines \cup {e.id}
            /\ cache'.lines[e.id] = entry
            /\ \A x \in DOMAIN cache.lines \ {e.id} : cache'.lines[x] = cache.lines[x]
        BY <2>3 DEF Put, entry
      <3>3. \A id \in DOMAIN cache'.lines :
              Sighted(place, e.epoch, id, cache'.lines[id].line + cache'.lines[id].basis)
        <4>1. Sighted(place, e.epoch, e.id, cache'.lines[e.id].line + cache'.lines[e.id].basis)
          BY <1>3, <3>1, <3>2
        <4>2. \A id \in DOMAIN cache.lines \ {e.id} :
                Sighted(place, e.epoch, id, cache'.lines[id].line + cache'.lines[id].basis)
          BY <2>3, <3>2 DEF Truth, ContentsTrue
        <4>3. QED
          BY <3>2, <4>1, <4>2
      <3>4. QED
        BY <1>1, <2>1, <2>3, <3>3 DEF ContentsTrue, Sighted
    <2>4. QED
      BY <2>1, <2>2, <2>3
  <1>8. ShownTrue(place)'
    <2>1. cache'.seen = cache.seen /\ cache'.basis = cache.basis
      BY <1>1, <1>2, <1>4, OnCreatedIs
    <2>2. QED
      BY <1>1, <2>1 DEF Truth, ShownTrue, Sighted
  <1>9. IndexTrue(place)' /\ FramesTrue(place)' /\ AnswersTrue(place)'
    BY <1>1 DEF Truth, IndexTrue, FramesTrue, AnswersTrue, Sighted
  <1>10. QED
    BY <1>5, <1>6, <1>7, <1>8, <1>9 DEF Truth

LEMMA HearDeathTruth ==
  ASSUME TypedIndex, HearDeath, NEW place, Truth(place)
  PROVE  Truth(place)'
  <1> DEFINE e == Head(news)
  <1>1. UNCHANGED <<index, born, evicted, epoch, onWire, pulls, shown>> /\ news' = Tail(news)
        /\ cache' = OnDisposed(cache, e) /\ news # <<>> /\ e.kind = "disposed"
    BY DEF HearDeath, EngineIdle
  <1>2. e \in Event
    BY <1>1 DEF TypedIndex
  <1>3. cache \in Cache /\ cache.pending \in Seq(Event) /\ news \in Seq(Event)
    BY DEF TypedIndex, Cache
  <1> HIDE DEF e
  <1>4. /\ cache'.pending = cache.pending \/ cache'.pending = Append(cache.pending, e)
        /\ cache'.lines = Drop(cache.lines, e.id)
        /\ cache'.adopted = cache.adopted /\ cache'.seen = cache.seen /\ cache'.basis = cache.basis
    BY <1>1, <1>2, <1>3, OnDisposedIs
  <1>5. SightedBirths(place, news)'
    <2>1. SightedBirths(place, Tail(news))
      BY <1>1, <1>3, TailSighted DEF Truth
    <2>2. QED
      BY <1>1, <2>1 DEF SightedBirths, Sighted
  <1>6. SightedBirths(place, cache.pending)'
    <2>1. SightedBirths(place, cache'.pending)
      BY <1>1, <1>2, <1>3, <1>4, AppendSighted DEF Truth
    <2>2. QED
      BY <1>1, <2>1 DEF SightedBirths, Sighted
  <1>7. ContentsTrue(place)'
    <2>1. \A id \in DOMAIN cache'.lines : id \in DOMAIN cache.lines /\ cache'.lines[id] = cache.lines[id]
      BY <1>4 DEF Drop
    <2>2. QED
      BY <1>1, <1>4, <2>1 DEF Truth, ContentsTrue, Sighted
  <1>8. ShownTrue(place)'
    BY <1>1, <1>4 DEF Truth, ShownTrue, Sighted
  <1>9. IndexTrue(place)' /\ FramesTrue(place)' /\ AnswersTrue(place)'
    BY <1>1 DEF Truth, IndexTrue, FramesTrue, AnswersTrue, Sighted
  <1>10. QED
    BY <1>5, <1>6, <1>7, <1>8, <1>9 DEF Truth

LEMMA EvaluateTruth ==
  ASSUME TypedIndex, NEW p \in pulls, Evaluate(p), NEW place, Truth(place)
  PROVE  Truth(place)'
  <1>1. UNCHANGED <<index, born, evicted, epoch, onWire, news, cache, shown>>
    BY DEF Evaluate, EngineIdle
  <1> DEFINE s == [index |-> index, evicted |-> evicted, epoch |-> epoch]
  <1>2. s.index = index /\ s.evicted = evicted /\ s.epoch = epoch
    OBVIOUS
  <1>3. PICK q : q = [p EXCEPT !.answer = {s}]
    OBVIOUS
  <1>4. pulls' = (pulls \ {p}) \cup {q}
    BY <1>3 DEF Evaluate
  <1>5. q.answer = {s}
    BY <1>3 DEF TypedIndex, Pull
  <1> HIDE DEF s
  <1>6. AnswersTrue(place)'
    <2> SUFFICES ASSUME NEW r \in pulls', NEW snap \in r.answer, NEW id \in DOMAIN snap.index
                 PROVE  Sighted(place, snap.epoch, id, snap.index[id] + snap.evicted)'
      BY <1>1 DEF AnswersTrue, Sighted
    <2>1. CASE r \in pulls
      BY <1>1, <2>1 DEF Truth, AnswersTrue, Sighted
    <2>2. CASE r = q
      <3>1. snap = s
        BY <1>5, <2>2
      <3>2. QED
        BY <1>1, <1>2, <3>1 DEF Truth, IndexTrue, Sighted
    <2>3. QED
      BY <1>4, <2>1, <2>2
  <1>7. QED
    BY <1>1, <1>6 DEF Truth, IndexTrue, FramesTrue, SightedBirths, ContentsTrue, ShownTrue, Sighted

LEMMA LandTruth ==
  ASSUME TypedIndex, NEW p \in pulls, Land(p), NEW place, Truth(place)
  PROVE  Truth(place)'
  <1>1. UNCHANGED <<index, born, evicted, epoch, onWire, news, shown>> /\ pulls' = pulls \ {p}
    BY DEF Land, EngineIdle
  <1>2. IndexTrue(place)' /\ FramesTrue(place)' /\ AnswersTrue(place)' /\ SightedBirths(place, news)'
    BY <1>1 DEF Truth, IndexTrue, FramesTrue, AnswersTrue, SightedBirths, Sighted
  <1>3. PICK snap \in p.answer : cache' = IF p.seq = cache.seq THEN Pulled(cache, snap) ELSE cache
    BY DEF Land
  <1>4. CASE p.seq # cache.seq
    BY <1>1, <1>2, <1>3, <1>4 DEF Truth, SightedBirths, ContentsTrue, ShownTrue, Sighted
  <1>5. CASE p.seq = cache.seq
    <2>1. cache \in Cache /\ snap \in Snap
      BY DEF TypedIndex, Pull
    <2>2. /\ cache'.pending = <<>> /\ cache'.adopted = {snap.epoch} /\ cache'.seen = cache.seen
          /\ cache'.basis = cache.basis
          /\ \A id \in DOMAIN cache'.lines : LandsFrom(cache, snap, id, cache'.lines[id])
      BY <1>3, <1>5, <2>1, PulledIs
    <2>3. \A id \in DOMAIN cache'.lines :
            Sighted(place, snap.epoch, id, cache'.lines[id].line + cache'.lines[id].basis)
      <3> SUFFICES ASSUME NEW id \in DOMAIN cache'.lines
                   PROVE  Sighted(place, snap.epoch, id, cache'.lines[id].line + cache'.lines[id].basis)
        OBVIOUS
      <3>1. PICK entry : entry = cache'.lines[id]
        OBVIOUS
      <3>2. LandsFrom(cache, snap, id, entry)
        BY <2>2, <3>1
      <3>3. CASE id \in DOMAIN snap.index /\ entry = [line |-> snap.index[id], basis |-> snap.evicted]
        BY <3>1, <3>3 DEF Truth, AnswersTrue
      <3>4. ASSUME NEW i \in DOMAIN cache.pending,
                   cache.pending[i].kind = "created", cache.pending[i].id = id,
                   cache.pending[i].epoch = snap.epoch,
                   entry = [line |-> cache.pending[i].line, basis |-> cache.pending[i].evicted]
            PROVE  Sighted(place, snap.epoch, id, entry.line + entry.basis)
        BY <3>4 DEF Truth, SightedBirths
      <3>5. QED
        BY <3>1, <3>2, <3>3, <3>4 DEF LandsFrom
    <2>4. ContentsTrue(place)'
      BY <1>1, <2>2, <2>3 DEF ContentsTrue, Sighted
    <2>5. ShownTrue(place)'
      BY <1>1, <2>2 DEF Truth, ShownTrue, Sighted
    <2>6. SightedBirths(place, cache.pending)'
      BY <2>2 DEF SightedBirths
    <2>7. QED
      BY <1>2, <2>4, <2>5, <2>6 DEF Truth
  <1>6. QED
    BY <1>4, <1>5

LEMMA RejectTruth ==
  ASSUME TypedIndex, NEW p \in pulls, Reject(p), NEW place, Truth(place)
  PROVE  Truth(place)'
  <1>1. UNCHANGED <<index, born, evicted, epoch, onWire, news, shown>> /\ pulls' = pulls \ {p}
    BY DEF Reject, EngineIdle
  <1>2. /\ cache'.pending = cache.pending /\ cache'.adopted = cache.adopted /\ cache'.seen = cache.seen
        /\ cache'.basis = cache.basis /\ cache'.lines = cache.lines
    BY RejectedIs DEF Reject, TypedIndex
  <1>3. QED
    BY <1>1, <1>2
       DEF Truth, IndexTrue, FramesTrue, AnswersTrue, SightedBirths, ContentsTrue, ShownTrue, Sighted

LEMMA ResetTruth ==
  ASSUME TypedIndex, Reset, NEW place, Truth(place)
  PROVE  Truth(place)'
  <1>1. UNCHANGED <<index, born, evicted, epoch, onWire, news, pulls>> /\ shown' = Null
    BY DEF Reset, EngineIdle
  <1>2. cache'.pending = <<>> /\ cache'.adopted = Null /\ cache'.seen = Null
    BY DetachedIs DEF Reset, TypedIndex
  <1>3. IndexTrue(place)' /\ FramesTrue(place)' /\ AnswersTrue(place)' /\ SightedBirths(place, news)'
    BY <1>1 DEF Truth, IndexTrue, FramesTrue, AnswersTrue, SightedBirths, Sighted
  <1>4. SightedBirths(place, cache.pending)' /\ ContentsTrue(place)' /\ ShownTrue(place)'
    BY <1>1, <1>2 DEF SightedBirths, ContentsTrue, ShownTrue, Null
  <1>5. QED
    BY <1>3, <1>4 DEF Truth

-----------------------------------------------------------------------------
(* Truth across a step of the engine, which adds a marker to the places of   *)
(* its epoch or begins a new one.                                            *)

\* Sightings so far, as sightings after the step.
Carried(place, to) ==
  \A e \in 0..epoch, id \in 0..(born - 1) :
    e \in 0..epoch' /\ id \in 0..(born' - 1) /\ to[e][id] = place[e][id]

LEMMA CarriedTruth ==
  ASSUME TypedIndex, EngineStep, emitted' \in Seq(Event), NEW place, Truth(place), NEW to, Carried(place, to),
         IndexTrue(to)',
         \A i \in DOMAIN emitted' : emitted'[i].kind = "created" =>
           Sighted(to, emitted[i].epoch, emitted[i].id, emitted[i].line + emitted[i].evicted)'
  PROVE  Truth(to)'
  <1>1. UNCHANGED <<onWire, pulls, cache, shown>> /\ news' = news \o emitted'
    BY DEF EngineStep, widgetVars
  <1>2. FramesTrue(to)' /\ AnswersTrue(to)'
    <2>1. FramesTrue(to)'
      <3> SUFFICES ASSUME NEW i \in DOMAIN onWire, NEW id \in DOMAIN onWire[i].index
                   PROVE  Sighted(to, onWire[i].epoch, id, onWire[i].index[id] + onWire[i].evicted)'
        BY <1>1 DEF FramesTrue
      <3>1. Sighted(place, onWire[i].epoch, id, onWire[i].index[id] + onWire[i].evicted)
        BY DEF Truth, FramesTrue
      <3>2. QED
        BY <1>1, <3>1 DEF Sighted, Carried
    <2>2. AnswersTrue(to)'
      <3> SUFFICES ASSUME NEW p \in pulls, NEW snap \in p.answer, NEW id \in DOMAIN snap.index
                   PROVE  Sighted(to, snap.epoch, id, snap.index[id] + snap.evicted)'
        BY <1>1 DEF AnswersTrue
      <3>1. Sighted(place, snap.epoch, id, snap.index[id] + snap.evicted)
        BY DEF Truth, AnswersTrue
      <3>2. QED
        BY <1>1, <3>1 DEF Sighted, Carried
    <2>3. QED
      BY <2>1, <2>2
  <1>3. ContentsTrue(to)' /\ ShownTrue(to)'
    <2>1. ContentsTrue(to)'
      <3> SUFFICES ASSUME NEW e \in cache.adopted, NEW id \in DOMAIN cache.lines
                   PROVE  Sighted(to, e, id, cache.lines[id].line + cache.lines[id].basis)'
        BY <1>1 DEF ContentsTrue
      <3>1. Sighted(place, e, id, cache.lines[id].line + cache.lines[id].basis)
        BY DEF Truth, ContentsTrue
      <3>2. QED
        BY <1>1, <3>1 DEF Sighted, Carried
    <2>2. ShownTrue(to)'
      <3> SUFFICES ASSUME NEW e \in cache.seen, NEW held \in shown, NEW id \in DOMAIN held
                   PROVE  Sighted(to, e, id, held[id] + cache.basis)'
        BY <1>1 DEF ShownTrue
      <3>1. Sighted(place, e, id, held[id] + cache.basis)
        BY DEF Truth, ShownTrue
      <3>2. QED
        BY <1>1, <3>1 DEF Sighted, Carried
    <2>3. QED
      BY <2>1, <2>2
  <1>4. SightedBirths(to, cache.pending)'
    BY <1>1 DEF Truth, SightedBirths, Sighted, Carried
  <1>5. SightedBirths(to, news)'
    <2>1. \A i \in DOMAIN news' : \/ i \in DOMAIN news /\ news'[i] = news[i]
                                 \/ \E j \in DOMAIN emitted' : news'[i] = emitted'[j]
      <3>1. news \in Seq(Event)
        BY DEF TypedIndex
      <3>2. /\ DOMAIN news' = 1..(Len(news) + Len(emitted')) /\ Len(news) \in Nat /\ Len(emitted') \in Nat
            /\ \A i \in 1..(Len(news) + Len(emitted')) :
                 news'[i] = IF i <= Len(news) THEN news[i] ELSE emitted'[i - Len(news)]
        BY <1>1, <3>1
      <3>3. \A i \in DOMAIN news' : i > Len(news) => i - Len(news) \in DOMAIN emitted'
        BY <3>1, <3>2
      <3>4. \A i \in DOMAIN news' : i <= Len(news) => i \in DOMAIN news
        BY <3>1, <3>2
      <3>5. \A i \in DOMAIN news' : i <= Len(news) \/ i > Len(news)
        BY <3>2
      <3>6. QED
        BY <3>2, <3>3, <3>4, <3>5
    <2> SUFFICES ASSUME NEW i \in DOMAIN news', news'[i].kind = "created"
                 PROVE  Sighted(to, news[i].epoch, news[i].id, news[i].line + news[i].evicted)'
      BY DEF SightedBirths
    <2>2. CASE i \in DOMAIN news /\ news'[i] = news[i]
      BY <2>2 DEF Truth, SightedBirths, Sighted, Carried
    <2>3. CASE \E j \in DOMAIN emitted' : news'[i] = emitted'[j]
      BY <2>3 DEF Sighted
    <2>4. QED
      BY <2>1, <2>2, <2>3
  <1>6. QED
    BY <1>2, <1>3, <1>4, <1>5 DEF Truth

LEMMA EngineTruth ==
  ASSUME TypedIndex, EngineStep, NEW place \in PlacesIn, Truth(place)
  PROVE  Truths'
  <1>1. Engine /\ Engine' /\ Emitted /\ (IndexKept \/ Bore \/ Disturbed)
    BY EngineIs DEF TypedIndex
  <1>2. /\ born \in Nat /\ born' \in Nat /\ epoch \in Nat /\ epoch' \in Nat
        /\ evicted \in Nat /\ evicted' \in Nat
    BY <1>1, FeedConstants DEF Engine
  <1>3. index' \in Maps /\ DOMAIN index' \subseteq 0..(born' - 1) /\ DOMAIN index \subseteq 0..(born - 1)
    BY <1>1 DEF Engine
  <1>4. \A id \in DOMAIN index' : index'[id] + evicted' \in Nat
    BY <1>2, <1>3, MapIs
  <1>5. \A id \in DOMAIN index : place[epoch][id] = index[id] + evicted
    BY DEF Truth, IndexTrue, Sighted
  <1>6. CASE IndexKept
    <2>1. Carried(place, place)
      BY <1>6 DEF IndexKept, Carried
    <2>2. IndexTrue(place)'
      BY <1>2, <1>3, <1>5, <1>6 DEF IndexKept, IndexTrue, Sighted
    <2>3. Truth(place)'
      BY <1>1, <1>6, <2>1, <2>2, CarriedTruth DEF IndexKept, NoBirth, Emitted
    <2>4. QED
      BY <2>3 DEF Truths
  <1>7. CASE Bore
    <2>1. PICK n \in Nat : n = index'[born] + evicted'
      BY <1>4, <1>7 DEF Bore
    <2>2. PICK row \in [Nat -> Nat] : row = [place[epoch] EXCEPT ![born] = n]
      BY <1>2 DEF PlacesIn
    <2>3. PICK to \in PlacesIn : to = [place EXCEPT ![epoch] = row]
      BY <1>2 DEF PlacesIn
    <2>4. /\ to[epoch] = row /\ row[born] = n
          /\ \A id \in Nat : id # born => row[id] = place[epoch][id]
          /\ \A e \in Nat : e # epoch => to[e] = place[e]
      BY <1>2, <2>2, <2>3 DEF PlacesIn
    <2>5. Carried(place, to)
      <3> SUFFICES ASSUME NEW e \in 0..epoch, NEW id \in 0..(born - 1)
                   PROVE  e \in 0..epoch' /\ id \in 0..(born' - 1) /\ to[e][id] = place[e][id]
        BY DEF Carried
      <3>1. id # born /\ id \in Nat /\ e \in Nat
        BY <1>2
      <3>2. e \in 0..epoch' /\ id \in 0..(born' - 1)
        BY <1>2, <1>7 DEF Bore
      <3>3. to[e][id] = place[e][id]
        BY <2>4, <3>1
      <3>4. QED
        BY <3>2, <3>3
    <2>6. \A id \in DOMAIN index' : to[epoch][id] = index'[id] + evicted'
      <3> SUFFICES ASSUME NEW id \in DOMAIN index'
                   PROVE  row[id] = index'[id] + evicted'
        BY <2>4
      <3>1. CASE id = born
        BY <2>1, <2>4, <3>1
      <3>2. CASE id # born
        <4>1. id \in DOMAIN index /\ index'[id] + evicted' = index[id] + evicted
          BY <1>7, <3>2 DEF Bore
        <4>2. id \in Nat
          BY <1>2, <1>3
        <4>3. QED
          BY <1>5, <2>4, <3>2, <4>1, <4>2
      <3>3. QED
        BY <3>1, <3>2
    <2>7. IndexTrue(to)'
      BY <1>2, <1>3, <1>7, <2>6 DEF Bore, IndexTrue, Sighted
    <2>8. \A i \in DOMAIN emitted' : emitted'[i].kind = "created" =>
            Sighted(to, emitted[i].epoch, emitted[i].id, emitted[i].line + emitted[i].evicted)'
      <3> SUFFICES ASSUME NEW i \in DOMAIN emitted', emitted'[i].kind = "created"
                   PROVE  Sighted(to, emitted[i].epoch, emitted[i].id, emitted[i].line + emitted[i].evicted)'
        OBVIOUS
      <3>1. emitted'[i].id = born /\ emitted'[i].epoch = epoch /\ epoch' = epoch /\ born' = born + 1
            /\ emitted'[i].line + emitted'[i].evicted = index'[born] + evicted'
        BY <1>7 DEF Bore
      <3>2. epoch \in 0..epoch' /\ born \in 0..(born' - 1) /\ to[epoch][born] = n
        BY <1>2, <2>4, <3>1
      <3>3. QED
        BY <2>1, <3>1, <3>2 DEF Sighted
    <2>9. Truth(to)'
      BY <1>1, <2>5, <2>7, <2>8, CarriedTruth DEF Emitted
    <2>10. QED
      BY <2>9 DEF Truths
  <1>8. CASE Disturbed
    <2>1. PICK row \in [Nat -> Nat] :
            row = [id \in Nat |-> IF id \in DOMAIN index' THEN index'[id] + evicted' ELSE 0]
      BY <1>4
    <2>2. PICK to \in PlacesIn : to = [place EXCEPT ![epoch'] = row]
      BY <1>2 DEF PlacesIn
    <2>3. to[epoch'] = row /\ \A e \in Nat : e # epoch' => to[e] = place[e]
      BY <1>2, <2>2 DEF PlacesIn
    <2>4. Carried(place, to)
      <3> SUFFICES ASSUME NEW e \in 0..epoch, NEW id \in 0..(born - 1)
                   PROVE  e \in 0..epoch' /\ id \in 0..(born' - 1) /\ to[e][id] = place[e][id]
        BY DEF Carried
      <3>1. e \in Nat /\ e # epoch' /\ e \in 0..epoch'
        BY <1>2, <1>8 DEF Disturbed
      <3>2. QED
        BY <1>8, <2>3, <3>1 DEF Disturbed
    <2>5. \A id \in DOMAIN index' : to[epoch'][id] = index'[id] + evicted'
      <3>1. DOMAIN index' \subseteq Nat
        BY <1>2, <1>3
      <3>2. QED
        BY <2>1, <2>3, <3>1
    <2>6. IndexTrue(to)'
      BY <1>2, <1>3, <2>5 DEF IndexTrue, Sighted
    <2>7. Truth(to)'
      BY <1>1, <1>8, <2>4, <2>6, CarriedTruth DEF Disturbed, NoBirth, Emitted
    <2>8. QED
      BY <2>7 DEF Truths
  <1>9. QED
    BY <1>1, <1>6, <1>7, <1>8

LEMMA TruthsHold ==
  ASSUME TypedIndex, Truths, Next
  PROVE  Truths'
  <1>1. PICK place \in PlacesIn : Truth(place)
    BY DEF Truths
  <1>2. CASE EngineStep
    BY <1>1, <1>2, EngineTruth
  <1>3. ASSUME NEW p \in pulls, Evaluate(p) \/ Land(p) \/ Reject(p) PROVE Truth(place)'
    BY <1>1, <1>3, EvaluateTruth, LandTruth, RejectTruth
  <1>4. CASE SendFrame \/ Sync \/ HearBirth \/ HearDeath \/ Reset
    <2>1. Truth(place)'
      BY <1>1, <1>4, SendFrameTruth, SyncTruth, HearBirthTruth, HearDeathTruth, ResetTruth
    <2>2. QED
      BY <2>1 DEF Truths
  <1>5. QED
    BY <1>2, <1>3, <1>4 DEF Next, Truths

-----------------------------------------------------------------------------
(* Nothing held is of an id to come. *)

LEMMA KnownHolds ==
  ASSUME TypedIndex, Truths, Known, Next
  PROVE  Known'
  <1>0. born \in Nat /\ cache \in Cache
    BY DEF TypedIndex, Engine
  <1>1. PICK place \in PlacesIn : Truth(place)
    BY DEF Truths
  <1>2. CASE EngineStep
    <2>1. born' \in {born, born + 1}
      BY <1>2, EngineIs DEF TypedIndex, IndexKept, Bore, Disturbed
    <2>2. QED
      BY <1>0, <1>2, <2>1 DEF EngineStep, widgetVars, Known
  <1>3. ASSUME UNCHANGED born, DOMAIN cache'.lines \subseteq 0..(born - 1) PROVE Known'
    BY <1>3 DEF Known
  <1>4. CASE SendFrame
    BY <1>3, <1>4 DEF SendFrame, EngineIdle, Known
  <1>5. CASE Sync
    <2>1. Head(onWire) \in Frame
      BY <1>5 DEF TypedIndex, Sync
    <2> DEFINE c == Judged(cache, Head(onWire))
    <2>2. c \in Cache /\ DOMAIN c.lines \subseteq 0..(born - 1)
      BY <1>0, <2>1, JudgedIs DEF Known
    <2>3. cache' = c \/ cache' = Pulling(c)
      BY <1>5 DEF Sync
    <2> HIDE DEF c
    <2>4. DOMAIN cache'.lines \subseteq 0..(born - 1)
      BY <2>2, <2>3, PullingIs
    <2>5. QED
      BY <1>3, <1>5, <2>4 DEF Sync, EngineIdle
  <1>6. CASE HearBirth
    <2>1. Head(news) \in Births /\ Head(news) = news[1] /\ 1 \in DOMAIN news /\ Head(news).kind = "created"
      BY <1>6 DEF HearBirth, TypedIndex, Event
    <2>2. Head(news).id \in 0..(born - 1)
      BY <1>1, <2>1 DEF Truth, SightedBirths, Sighted
    <2>3. DOMAIN cache'.lines \subseteq DOMAIN cache.lines \cup {Head(news).id}
      <3>1. cache' = OnCreated(cache, Head(news))
        BY <1>6 DEF HearBirth
      <3>2. QED
        BY <1>0, <2>1, <3>1, OnCreatedIs DEF Put
    <2>4. QED
      BY <1>3, <1>6, <2>2, <2>3 DEF HearBirth, EngineIdle, Known
  <1>7. CASE HearDeath
    <2>1. Head(news) \in Event
      BY <1>7 DEF HearDeath, TypedIndex
    <2>2. DOMAIN cache'.lines \subseteq DOMAIN cache.lines
      <3>1. cache' = OnDisposed(cache, Head(news))
        BY <1>7 DEF HearDeath
      <3>2. QED
        BY <1>0, <2>1, <3>1, OnDisposedIs DEF Drop
    <2>3. QED
      BY <1>3, <1>7, <2>2 DEF HearDeath, EngineIdle, Known
  <1>8. CASE Reset
    BY <1>0, <1>3, <1>8, DetachedIs DEF Reset, EngineIdle
  <1>9. ASSUME NEW p \in pulls, Evaluate(p) PROVE Known'
    BY <1>3, <1>9 DEF Evaluate, EngineIdle, Known
  <1>10. ASSUME NEW p \in pulls, Land(p) PROVE Known'
    <2>1. PICK snap \in p.answer : cache' = IF p.seq = cache.seq THEN Pulled(cache, snap) ELSE cache
      BY <1>10 DEF Land
    <2>2. snap \in Snap
      BY <2>1 DEF TypedIndex, Pull
    <2>3. ASSUME NEW id \in DOMAIN cache'.lines, cache' = Pulled(cache, snap) PROVE id \in 0..(born - 1)
      <3>1. LandsFrom(cache, snap, id, cache'.lines[id])
        BY <1>0, <2>2, <2>3, PulledIs
      <3>2. \/ id \in DOMAIN snap.index
            \/ \E i \in DOMAIN cache.pending : cache.pending[i].kind = "created" /\ cache.pending[i].id = id
        BY <3>1 DEF LandsFrom
      <3>3. QED
        BY <1>1, <3>2 DEF Truth, AnswersTrue, SightedBirths, Sighted
    <2>4. DOMAIN cache'.lines \subseteq 0..(born - 1)
      BY <2>1, <2>3 DEF Known
    <2>5. QED
      BY <1>3, <1>10, <2>4 DEF Land, EngineIdle
  <1>11. ASSUME NEW p \in pulls, Reject(p) PROVE Known'
    BY <1>0, <1>3, <1>11, RejectedIs DEF Reject, EngineIdle, Known
  <1>12. QED
    BY <1>2, <1>4, <1>5, <1>6, <1>7, <1>8, <1>9, <1>10, <1>11 DEF Next

-----------------------------------------------------------------------------
(* The news are in order. *)

\* What follows of a queue's head.
LEMMA NewsTail ==
  ASSUME TypedIndex, news # <<>>, news' = Tail(news)
  PROVE  /\ Head(news) \in Event /\ Head(news) = news[1] /\ 1 \in DOMAIN news
         /\ \A i \in DOMAIN news' : i \in Nat \ {0} /\ i + 1 \in DOMAIN news /\ news'[i] = news[i + 1]
  <1>1. news \in Seq(Event)
    BY DEF TypedIndex
  <1>2. \A i \in DOMAIN Tail(news) : i \in Nat \ {0} /\ i + 1 \in DOMAIN news /\ Tail(news)[i] = news[i + 1]
    BY <1>1
  <1>3. QED
    BY <1>1, <1>2

LEMMA EngineNews ==
  ASSUME TypedIndex, NewsInOrder, EngineStep
  PROVE  NewsInOrder'
  <1>1. Engine /\ Engine' /\ Emitted /\ (IndexKept \/ Bore \/ Disturbed)
    BY EngineIs DEF TypedIndex
  <1>2. /\ born \in Nat /\ live \subseteq 0..(born - 1) /\ emitted' \in Seq(Event) /\ news \in Seq(Event)
        /\ told' = told /\ news' = news \o emitted'
    BY <1>1 DEF Engine, Emitted, TypedIndex, EngineStep, widgetVars
  <1>3. born' \in {born, born + 1} /\ live' \subseteq live \cup {born}
    BY <1>1 DEF IndexKept, Bore, Disturbed
  <1>4. \A i \in DOMAIN emitted' :
          /\ emitted'[i].kind = "disposed" => emitted'[i].id \in live /\ emitted'[i].id \notin live'
          /\ emitted'[i].kind = "created" => emitted'[i].id = born /\ born' = born + 1
          /\ emitted'[i].kind \in {"created", "disposed"}
    <2>1. \A i \in DOMAIN emitted' : emitted'[i].kind \in {"created", "disposed"}
      BY <1>2 DEF Event, Births
    <2>2. QED
      BY <1>1, <2>1 DEF Emitted, IndexKept, Bore, Disturbed, NoBirth
  <1>5. Len(news) \in Nat /\ \A i \in DOMAIN news' :
          /\ i \in Nat
          /\ \/ i <= Len(news) /\ i \in DOMAIN news /\ news'[i] = news[i]
             \/ i > Len(news) /\ i - Len(news) \in DOMAIN emitted' /\ news'[i] = emitted'[i - Len(news)]
    BY <1>2
  <1>6. told' \subseteq 0..(born' - 1) /\ told' \cap live' = {}
    <2>1. told' \subseteq 0..(born - 1) /\ told' \cap live = {}
      BY <1>2 DEF NewsInOrder
    <2>2. told' \cap live' = {}
      <3>1. born \notin told'
        BY <1>2, <2>1
      <3>2. QED
        BY <1>3, <2>1, <3>1
    <2>3. 0..(born - 1) \subseteq 0..(born' - 1)
      <3>1. born \in Nat
        BY <1>2
      <3>2. CASE born' = born
        BY <3>2
      <3>3. CASE born' = born + 1
        BY <3>1, <3>3
      <3>4. QED
        BY <1>3, <3>2, <3>3
    <2>4. QED
      BY <2>1, <2>2, <2>3
  <1>7. \A i \in DOMAIN news' : news'[i].id < born'
    <2>1. ASSUME NEW i \in DOMAIN emitted' PROVE emitted'[i].id < born'
      <3>1. CASE emitted'[i].kind = "disposed"
        <4>1. emitted'[i].id \in 0..(born - 1)
          BY <1>2, <1>4, <3>1
        <4>2. QED
          BY <1>2, <1>3, <4>1
      <3>2. CASE emitted'[i].kind = "created"
        BY <1>2, <1>4, <3>2
      <3>3. QED
        BY <1>4, <3>1, <3>2
    <2>2. \A i \in DOMAIN news : news[i].id < born /\ news[i].id \in Nat
      BY <1>2 DEF NewsInOrder, Event, Births
    <2>3. \A i \in DOMAIN news : news[i].id < born'
      BY <1>2, <1>3, <2>2
    <2> SUFFICES ASSUME NEW i \in DOMAIN news' PROVE news'[i].id < born'
      OBVIOUS
    <2>4. CASE i \in DOMAIN news /\ news'[i] = news[i]
      BY <2>3, <2>4
    <2>5. CASE i - Len(news) \in DOMAIN emitted' /\ news'[i] = emitted'[i - Len(news)]
      BY <2>1, <2>5
    <2>6. QED
      BY <1>5, <2>4, <2>5
  <1>8. \A i \in DOMAIN news' : news'[i].kind = "disposed" => news'[i].id \notin live'
    <2>1. \A i \in DOMAIN news : news[i].kind = "disposed" => news[i].id \notin live'
      <3>1. \A i \in DOMAIN news : news[i].id < born /\ news[i].id \in Nat
        BY <1>2 DEF NewsInOrder, Event, Births
      <3>2. \A i \in DOMAIN news : news[i].id # born
        BY <1>2, <3>1
      <3>3. \A i \in DOMAIN news : news[i].kind = "disposed" => news[i].id \notin live
        BY DEF NewsInOrder
      <3>4. QED
        BY <1>3, <3>2, <3>3
    <2> SUFFICES ASSUME NEW i \in DOMAIN news', news'[i].kind = "disposed" PROVE news'[i].id \notin live'
      OBVIOUS
    <2>2. CASE i \in DOMAIN news /\ news'[i] = news[i]
      BY <2>1, <2>2
    <2>3. CASE i - Len(news) \in DOMAIN emitted' /\ news'[i] = emitted'[i - Len(news)]
      BY <1>4, <2>3
    <2>4. QED
      BY <1>5, <2>2, <2>3
  <1>9. ASSUME NEW i \in DOMAIN news', news'[i].kind = "created"
        PROVE  /\ news'[i].id \notin told'
               /\ \A j \in DOMAIN news' : news'[j].kind = "disposed" /\ news'[j].id = news'[i].id => i < j
    <2>1. CASE i <= Len(news) /\ i \in DOMAIN news /\ news'[i] = news[i]
      <3>1. news'[i].id \notin told'
        BY <1>2, <1>9, <2>1 DEF NewsInOrder
      <3>2. ASSUME NEW j \in DOMAIN news', news'[j].kind = "disposed", news'[j].id = news'[i].id PROVE i < j
        <4>1. CASE j > Len(news)
          BY <1>5, <2>1, <4>1
        <4>2. CASE j \in DOMAIN news /\ news'[j] = news[j]
          BY <1>9, <2>1, <3>2, <4>2 DEF NewsInOrder
        <4>3. QED
          BY <1>5, <4>1, <4>2
      <3>3. QED
        BY <3>1, <3>2
    <2>2. CASE i - Len(news) \in DOMAIN emitted' /\ news'[i] = emitted'[i - Len(news)]
      <3>1. news'[i].id = born
        BY <1>4, <1>9, <2>2
      <3>2. born \notin told'
        BY <1>2 DEF NewsInOrder
      <3>3. ASSUME NEW j \in DOMAIN news', news'[j].kind = "disposed", news'[j].id = born PROVE FALSE
        <4>1. CASE j \in DOMAIN news /\ news'[j] = news[j]
          BY <1>2, <3>3, <4>1 DEF NewsInOrder
        <4>2. CASE j - Len(news) \in DOMAIN emitted' /\ news'[j] = emitted'[j - Len(news)]
          <5>1. born \in live
            BY <1>4, <3>3, <4>2
          <5>2. QED
            BY <1>2, <5>1
        <4>3. QED
          BY <1>5, <4>1, <4>2
      <3>4. QED
        BY <3>1, <3>2, <3>3
    <2>3. QED
      BY <1>5, <2>1, <2>2
  <1>10. QED
    BY <1>6, <1>7, <1>8, <1>9 DEF NewsInOrder

LEMMA NewsHold ==
  ASSUME TypedIndex, NewsInOrder, Next
  PROVE  NewsInOrder'
  <1>1. CASE EngineStep
    BY <1>1, EngineNews
  <1>2. CASE UNCHANGED <<born, live, news, told>>
    BY <1>2 DEF NewsInOrder
  <1>3. CASE HearBirth
    <2>1. UNCHANGED <<born, live, told>> /\ news' = Tail(news) /\ news # <<>>
      BY <1>3 DEF HearBirth, EngineIdle
    <2>2. \A i \in DOMAIN news' : i \in Nat \ {0} /\ i + 1 \in DOMAIN news /\ news'[i] = news[i + 1]
      BY <2>1, NewsTail
    <2>3. ASSUME NEW i \in DOMAIN news', news'[i].kind = "created", NEW j \in DOMAIN news',
                 news'[j].kind = "disposed", news'[j].id = news'[i].id
          PROVE  i < j
      <3>1. i + 1 < j + 1
        BY <2>2, <2>3 DEF NewsInOrder
      <3>2. QED
        BY <2>2, <3>1
    <2>4. QED
      BY <2>1, <2>2, <2>3 DEF NewsInOrder
  <1>4. CASE HearDeath
    <2>1. /\ UNCHANGED <<born, live>> /\ news' = Tail(news) /\ news # <<>>
          /\ told' = told \cup {Head(news).id} /\ Head(news).kind = "disposed"
      BY <1>4 DEF HearDeath, EngineIdle
    <2>2. /\ \A i \in DOMAIN news' : i \in Nat \ {0} /\ i + 1 \in DOMAIN news /\ news'[i] = news[i + 1]
          /\ Head(news) \in Event /\ Head(news) = news[1] /\ 1 \in DOMAIN news
      BY <2>1, NewsTail
    <2>3. ASSUME NEW i \in DOMAIN news', news'[i].kind = "created", NEW j \in DOMAIN news',
                 news'[j].kind = "disposed", news'[j].id = news'[i].id
          PROVE  i < j
      <3>1. i + 1 < j + 1
        BY <2>2, <2>3 DEF NewsInOrder
      <3>2. QED
        BY <2>2, <3>1
    <2>4. ASSUME NEW i \in DOMAIN news', news'[i].kind = "created" PROVE news'[i].id \notin told'
      <3>1. news[i + 1].id \notin told
        BY <2>2, <2>4 DEF NewsInOrder
      <3>2. news[1].id = news[i + 1].id => i + 1 < 1
        BY <2>1, <2>2, <2>4 DEF NewsInOrder
      <3>3. QED
        BY <2>1, <2>2, <3>1, <3>2
    <2>5. told' \subseteq 0..(born - 1) /\ told' \cap live' = {}
      <3>1. Head(news).id \in Nat /\ Head(news).id < born /\ Head(news).id \notin live /\ born \in Nat
        <4>1. Head(news).id \in Nat /\ born \in Nat
          BY <2>2 DEF Event, Births, TypedIndex, Engine
        <4>2. Head(news).id < born /\ Head(news).id \notin live
          BY <2>1, <2>2 DEF NewsInOrder
        <4>3. QED
          BY <4>1, <4>2
      <3>2. \A x \in told' : x \in told \/ x = Head(news).id
        BY <2>1
      <3>3. \A x \in told' : x \in 0..(born - 1) /\ x \notin live
        <4>1. Head(news).id \in 0..(born - 1) /\ Head(news).id \notin live
          BY <3>1
        <4>2. \A x \in told : x \in 0..(born - 1) /\ x \notin live
          BY DEF NewsInOrder
        <4>3. QED
          BY <3>2, <4>1, <4>2
      <3>4. QED
        BY <2>1, <3>3
    <2>6. QED
      BY <2>1, <2>2, <2>3, <2>4, <2>5 DEF NewsInOrder
  <1>5. QED
    BY <1>1, <1>2, <1>3, <1>4 DEF Next, SendFrame, Sync, Reset, Evaluate, Land, Reject, EngineIdle

-----------------------------------------------------------------------------
(* The delivered deaths stay buried, while every pull is answered. *)

LEMMA HearBirthBuried ==
  ASSUME TypedIndex, OwnPull, NewsInOrder, Buried, HearBirth
  PROVE  Buried'
  <1> DEFINE e == Head(news)
  <1>1. /\ UNCHANGED <<pulls, told>> /\ cache' = OnCreated(cache, e) /\ news # <<>> /\ e.kind = "created"
        /\ cache \in Cache /\ cache.pending \in Seq(Event) /\ news \in Seq(Event)
    BY DEF HearBirth, TypedIndex, Cache
  <1>2. e \in Births /\ e = news[1] /\ 1 \in DOMAIN news
    BY <1>1 DEF Event
  <1>3. e.id \notin told
    BY <1>1, <1>2 DEF NewsInOrder
  <1> HIDE DEF e
  <1>4. /\ cache'.seq = cache.seq /\ cache'.inFlight = cache.inFlight /\ cache'.adopted = cache.adopted
        /\ \/ cache'.pending = cache.pending
           \/ cache'.pending = Append(cache.pending, e) /\ cache.inFlight
        /\ \/ cache'.lines = cache.lines
           \/ cache'.lines = Put(cache.lines, e.id, [line |-> e.line, basis |-> e.evicted])
    <2>1. cache'.seq = cache.seq /\ cache'.inFlight = cache.inFlight /\ cache'.adopted = cache.adopted
      BY <1>1, <1>2, OnCreatedIs
    <2>2. \/ cache'.pending = cache.pending
          \/ cache'.pending = Append(cache.pending, e) /\ cache.inFlight
      BY <1>1, <1>2, OnCreatedIs
    <2>3. \/ cache'.lines = cache.lines
          \/ cache'.lines = Put(cache.lines, e.id, [line |-> e.line, basis |-> e.evicted])
      BY <1>1, <1>2, OnCreatedIs
    <2>4. QED
      BY <2>1, <2>2, <2>3
  <1>5. /\ \A i \in DOMAIN cache.pending : i \in DOMAIN cache'.pending /\ cache'.pending[i] = cache.pending[i]
        /\ \A i \in DOMAIN cache'.pending : i \in DOMAIN cache.pending \/ cache'.pending[i] = e
    <2>1. CASE cache'.pending = cache.pending
      BY <2>1
    <2>2. CASE cache'.pending = Append(cache.pending, e)
      <3>1. /\ DOMAIN cache'.pending = 1..(Len(cache.pending) + 1)
            /\ DOMAIN cache.pending = 1..Len(cache.pending) /\ Len(cache.pending) \in Nat
            /\ \A i \in DOMAIN cache.pending : cache'.pending[i] = cache.pending[i]
            /\ cache'.pending[Len(cache.pending) + 1] = e
        BY <1>1, <2>2
      <3>2. QED
        BY <3>1
    <2>3. QED
      BY <1>4, <2>1, <2>2
  <1>6. DOMAIN cache'.lines \subseteq DOMAIN cache.lines \cup {e.id}
    BY <1>4 DEF Put
  <1>7. \A id : DeathQueued(id) => DeathQueued(id)'
    BY <1>5 DEF DeathQueued
  <1>8. ASSUME NEW i \in DOMAIN cache'.pending, cache'.pending[i].kind = "created", cache'.pending[i].id \in told
        PROVE  \E j \in DOMAIN cache'.pending : /\ cache'.pending[j].kind = "disposed" /\ j > i
                                               /\ cache'.pending[j].id = cache'.pending[i].id
    <2>1. i \in DOMAIN cache.pending /\ cache'.pending[i] = cache.pending[i]
      BY <1>3, <1>5, <1>8
    <2>2. PICK j \in DOMAIN cache.pending : /\ cache.pending[j].kind = "disposed" /\ j > i
                                            /\ cache.pending[j].id = cache.pending[i].id
      BY <1>8, <2>1 DEF Buried
    <2>3. QED
      BY <1>5, <2>1, <2>2
  <1>9. QED
    BY <1>1, <1>3, <1>4, <1>6, <1>7, <1>8 DEF Buried

LEMMA HearDeathBuried ==
  ASSUME TypedIndex, OwnPull, NewsInOrder, Buried, HearDeath
  PROVE  Buried'
  <1> DEFINE e == Head(news)
  <1>1. /\ pulls' = pulls /\ told' = told \cup {e.id} /\ cache' = OnDisposed(cache, e)
        /\ news # <<>> /\ e.kind = "disposed"
        /\ cache \in Cache /\ cache.pending \in Seq(Event) /\ news \in Seq(Event)
    BY DEF HearDeath, TypedIndex, Cache
  <1>2. e \in Event
    BY <1>1
  <1> HIDE DEF e
  <1>3. /\ cache'.seq = cache.seq /\ cache'.inFlight = cache.inFlight /\ cache'.adopted = cache.adopted
        /\ cache'.pending = IF cache.inFlight THEN Append(cache.pending, e) ELSE cache.pending
        /\ cache'.lines = Drop(cache.lines, e.id)
    BY <1>1, <1>2, OnDisposedIs
  <1>4. CASE ~cache.inFlight
    <2>1. \A p \in pulls : p.seq # cache.seq
      BY <1>4 DEF OwnPull
    <2>2. cache'.pending = <<>> /\ DOMAIN cache'.lines = DOMAIN cache.lines \ {e.id}
      BY <1>3, <1>4 DEF Buried, Drop
    <2>3. cache'.adopted # Null => DOMAIN cache'.lines \cap told' = {}
      BY <1>1, <1>3, <2>2 DEF Buried
    <2>4. \A p \in pulls' : p.seq # cache'.seq
      BY <1>1, <1>3, <2>1
    <2>5. QED
      BY <2>2, <2>3, <2>4 DEF Buried
  <1>5. CASE cache.inFlight
    <2>1. PICK n \in Nat : n = Len(cache.pending) + 1
      BY <1>1
    <2>2. /\ \A i \in DOMAIN cache.pending : /\ i \in DOMAIN cache'.pending /\ i < n
                                             /\ cache'.pending[i] = cache.pending[i]
          /\ \A i \in DOMAIN cache'.pending : i \in DOMAIN cache.pending \/ i = n
          /\ n \in DOMAIN cache'.pending /\ cache'.pending[n] = e
      BY <1>1, <1>3, <1>5, <2>1
    <2>3. \A id \in told' : id = e.id \/ id \in told
      BY <1>1
    <2>4. \A id : id = e.id \/ DeathQueued(id) => DeathQueued(id)'
      <3>1. \A id : id = e.id => DeathQueued(id)'
        BY <1>1, <2>2 DEF DeathQueued
      <3>2. \A id : DeathQueued(id) => DeathQueued(id)'
        BY <2>2 DEF DeathQueued
      <3>3. QED
        BY <3>1, <3>2
    <2>5. ASSUME NEW i \in DOMAIN cache'.pending, cache'.pending[i].kind = "created", cache'.pending[i].id \in told'
          PROVE  \E j \in DOMAIN cache'.pending : /\ cache'.pending[j].kind = "disposed" /\ j > i
                                                 /\ cache'.pending[j].id = cache'.pending[i].id
      <3>1. i \in DOMAIN cache.pending /\ cache'.pending[i] = cache.pending[i] /\ i < n
        BY <1>1, <2>2, <2>5
      <3>2. CASE cache'.pending[i].id = e.id
        BY <1>1, <2>2, <3>1, <3>2
      <3>3. CASE cache'.pending[i].id \in told
        <4>1. PICK j \in DOMAIN cache.pending : /\ cache.pending[j].kind = "disposed" /\ j > i
                                                /\ cache.pending[j].id = cache.pending[i].id
          BY <2>5, <3>1, <3>3 DEF Buried
        <4>2. QED
          BY <2>2, <3>1, <4>1
      <3>4. QED
        BY <2>3, <2>5, <3>2, <3>3
    <2>6. ASSUME NEW p \in pulls', p.seq = cache'.seq, NEW snap \in p.answer, NEW id \in DOMAIN snap.index \cap told'
          PROVE  DeathQueued(id)'
      <3>1. CASE id \in told
        BY <1>1, <1>3, <2>4, <2>6, <3>1 DEF Buried
      <3>2. CASE id = e.id
        BY <2>4, <3>2
      <3>3. QED
        BY <2>3, <3>1, <3>2
    <2>7. cache'.adopted = Null
      BY <1>3, <1>5 DEF OwnPull
    <2>8. QED
      BY <1>3, <1>5, <2>5, <2>6, <2>7 DEF Buried
  <1>6. QED
    BY <1>4, <1>5

LEMMA LandBuried ==
  ASSUME TypedIndex, OwnPull, NewsInOrder, Buried, NEW p \in pulls, Land(p)
  PROVE  Buried'
  <1>1. pulls' = pulls \ {p} /\ told' = told
    BY DEF Land
  <1>2. PICK snap \in p.answer : cache' = IF p.seq = cache.seq THEN Pulled(cache, snap) ELSE cache
    BY DEF Land
  <1>3. CASE p.seq # cache.seq
    BY <1>1, <1>2, <1>3 DEF Buried, DeathQueued
  <1>4. CASE p.seq = cache.seq
    <2>1. cache \in Cache /\ snap \in Snap
      BY DEF TypedIndex, Pull
    <2>2. /\ cache'.pending = <<>> /\ cache'.seq = cache.seq
          /\ \A id \in DOMAIN cache'.lines : LandsFrom(cache, snap, id, cache'.lines[id])
      BY <1>2, <1>4, <2>1, PulledIs
    <2>3. ASSUME NEW id \in DOMAIN cache'.lines, id \in told PROVE FALSE
      <3>1. LandsFrom(cache, snap, id, cache'.lines[id])
        BY <2>2
      <3>2. CASE /\ id \in DOMAIN snap.index
                 /\ \A j \in DOMAIN cache.pending :
                      cache.pending[j].id = id => cache.pending[j].kind # "disposed"
        <4>1. DeathQueued(id)
          BY <1>4, <2>3, <3>2 DEF Buried
        <4>2. QED
          BY <3>2, <4>1 DEF DeathQueued
      <3>3. ASSUME NEW i \in DOMAIN cache.pending, cache.pending[i].kind = "created", cache.pending[i].id = id,
                   \A j \in DOMAIN cache.pending :
                     cache.pending[j].id = id /\ j > i => cache.pending[j].kind # "disposed"
            PROVE  FALSE
        BY <2>3, <3>3 DEF Buried
      <3>4. QED
        BY <3>1, <3>2, <3>3 DEF LandsFrom
    <2>4. \A q \in pulls' : q.seq # cache'.seq
      BY <1>1, <1>4, <2>2 DEF OwnPull
    <2>5. QED
      BY <1>1, <2>2, <2>3, <2>4 DEF Buried
  <1>5. QED
    BY <1>3, <1>4

LEMMA SyncBuried ==
  ASSUME TypedIndex, OwnPull, Buried, Sync
  PROVE  Buried'
  <1>1. Head(onWire) \in Frame /\ cache \in Cache
    BY DEF TypedIndex, Sync
  <1> DEFINE c == Judged(cache, Head(onWire))
  <1>2. /\ c \in Cache /\ c.seq = cache.seq /\ c.inFlight = cache.inFlight /\ c.pending = cache.pending
        /\ \/ c.adopted = Null
           \/ c.adopted = cache.adopted /\ c.lines = cache.lines
    BY <1>1, JudgedIs
  <1>3. told' = told
    BY DEF Sync
  <1>4. CASE WantsPull(c)
    <2>1. cache' = Pulling(c) /\ pulls' = pulls \cup {[seq |-> c.seq + 1, answer |-> Null]} /\ ~c.inFlight
      BY <1>4 DEF Sync, WantsPull
    <2> HIDE DEF c
    <2>2. /\ cache'.seq = cache.seq + 1 /\ cache'.inFlight /\ cache'.adopted = Null
          /\ cache'.pending = cache.pending /\ cache.pending = <<>>
      BY <1>2, <2>1, PullingIs DEF Buried
    <2>3. \A q \in pulls' : q.seq = cache'.seq => q.answer = Null
      <3>1. \A q \in pulls : q.seq < cache'.seq /\ q.seq \in Nat
        BY <1>1, <2>2 DEF OwnPull, TypedIndex, Pull, Cache
      <3>2. \A q \in pulls' : q \in pulls \/ q.answer = Null
        BY <2>1
      <3>3. QED
        BY <3>1, <3>2
    <2>4. QED
      BY <1>3, <2>2, <2>3 DEF Buried, Null
  <1>5. CASE ~WantsPull(c)
    <2>1. cache' = c /\ pulls' = pulls
      BY <1>5 DEF Sync
    <2> HIDE DEF c
    <2>2. \A id : DeathQueued(id) => DeathQueued(id)'
      BY <1>2, <2>1 DEF DeathQueued
    <2>3. QED
      BY <1>2, <1>3, <2>1, <2>2 DEF Buried
  <1>6. QED
    BY <1>4, <1>5

LEMMA EvaluateBuried ==
  ASSUME TypedIndex, NewsInOrder, Buried, NEW p \in pulls, Evaluate(p)
  PROVE  Buried'
  <1>1. cache' = cache /\ told' = told
    BY DEF Evaluate
  <1>2. PICK q : q = [p EXCEPT !.answer = {[index |-> index, evicted |-> evicted, epoch |-> epoch]}]
    OBVIOUS
  <1>3. pulls' = (pulls \ {p}) \cup {q} /\ \A snap \in q.answer : snap.index = index
    BY <1>2 DEF Evaluate, TypedIndex, Pull
  <1>4. DOMAIN index \cap told = {}
    BY DEF TypedIndex, Engine, NewsInOrder
  <1>5. QED
    BY <1>1, <1>3, <1>4 DEF Buried, DeathQueued

LEMMA BuriedHolds ==
  ASSUME TypedIndex, OwnPull, NewsInOrder, BuriedIfAnswered, Next
  PROVE  BuriedIfAnswered'
  <1> SUFFICES ASSUME spent'.refusals = 0
               PROVE  Buried'
    BY DEF BuriedIfAnswered
  <1>0. spent.refusals \in Nat /\ spent \in [steps : Nat, refusals : Nat, resets : Nat] /\ cache \in Cache
    BY DEF TypedIndex
  <1>1. ASSUME NEW p \in pulls PROVE ~Reject(p)
    <2>1. SUFFICES ASSUME Reject(p) PROVE FALSE
      OBVIOUS
    <2>2. spent' = [spent EXCEPT !.refusals = spent.refusals + 1]
      BY <2>1 DEF Reject
    <2>3. QED
      BY <1>0, <2>2
  <1>2. spent.refusals = 0
    <2>1. spent'.refusals = spent.refusals
      BY <1>0, <1>1 DEF Next, EngineStep, SendFrame, Sync, HearBirth, HearDeath, Reset, Evaluate, Land
    <2>2. QED
      BY <2>1
  <1>3. Buried
    BY <1>2 DEF BuriedIfAnswered
  <1>4. CASE EngineStep \/ SendFrame
    BY <1>3, <1>4 DEF EngineStep, SendFrame, widgetVars, Buried, DeathQueued
  <1>5. CASE Reset
    <2>1. /\ pulls' = pulls /\ cache'.seq = cache.seq + 1 /\ ~cache'.inFlight /\ cache'.pending = <<>>
          /\ cache'.adopted = Null
      BY <1>0, <1>5, DetachedIs DEF Reset
    <2>2. \A p \in pulls' : p.seq # cache'.seq
      BY <1>0, <2>1 DEF OwnPull, TypedIndex, Pull, Cache
    <2>3. QED
      BY <2>1, <2>2 DEF Buried
  <1>6. CASE Sync \/ HearBirth \/ HearDeath
    BY <1>3, <1>6, SyncBuried, HearBirthBuried, HearDeathBuried
  <1>7. ASSUME NEW p \in pulls, Evaluate(p) \/ Land(p) PROVE Buried'
    BY <1>3, <1>7, EvaluateBuried, LandBuried
  <1>8. QED
    BY <1>1, <1>4, <1>5, <1>6, <1>7 DEF Next

-----------------------------------------------------------------------------
(* The invariant, and what follows. *)

LEMMA InitIndexInv ==
  ASSUME Init
  PROVE  IndexInv
  <1>1. TypedIndex
    BY InitTypedIndex
  <1>2. /\ index = <<>> /\ live = {} /\ born = 0 /\ onWire = <<>> /\ news = <<>> /\ pulls = {}
        /\ shown = {} /\ told = {} /\ DOMAIN index = {}
    BY NoEntries DEF Init, FeedInit, Null
  <1>3. /\ ~cache.inFlight /\ cache.adopted = {} /\ cache.seen = {} /\ cache.pending = <<>>
        /\ DOMAIN cache.lines = {}
    BY NoEntries DEF Init, Empty, Null
  <1>4. OwnPull
    BY <1>2, <1>3 DEF OwnPull, Null
  <1>5. Truths
    <2>1. PICK place \in PlacesIn : TRUE
      <3>1. [e \in Nat |-> [id \in Nat |-> 0]] \in PlacesIn
        BY DEF PlacesIn
      <3>2. QED
        BY <3>1
    <2>2. Truth(place)
      BY <1>2, <1>3
         DEF Truth, IndexTrue, FramesTrue, AnswersTrue, SightedBirths, ContentsTrue, ShownTrue
    <2>3. QED
      BY <2>2 DEF Truths
  <1>6. Known /\ NewsInOrder /\ BuriedIfAnswered
    BY <1>2, <1>3 DEF Known, NewsInOrder, BuriedIfAnswered, Buried
  <1>7. QED
    BY <1>1, <1>4, <1>5, <1>6 DEF IndexInv

LEMMA NextIndexInv ==
  ASSUME IndexInv, Next
  PROVE  IndexInv'
  BY NextTypedIndex, OwnPullHolds, TruthsHold, KnownHolds, NewsHold, BuriedHolds DEF IndexInv

LEMMA StutterIndexInv ==
  ASSUME IndexInv, UNCHANGED vars
  PROVE  IndexInv'
  <1>1. UNCHANGED <<index, live, born, evicted, epoch, onWire, news, pulls, cache, shown, told, spent>>
    BY DEF vars, feedVars
  <1>2. TypedIndex' /\ OwnPull' /\ Known' /\ NewsInOrder' /\ BuriedIfAnswered'
    BY <1>1 DEF IndexInv, TypedIndex, Engine, OwnPull, Known, NewsInOrder, BuriedIfAnswered, Buried, DeathQueued
  <1>3. Truths'
    <2>1. PICK place \in PlacesIn : Truth(place)
      BY DEF IndexInv, Truths
    <2>2. Truth(place)'
      BY <1>1, <2>1
         DEF Truth, IndexTrue, FramesTrue, AnswersTrue, SightedBirths, ContentsTrue, ShownTrue, Sighted
    <2>3. QED
      BY <2>2 DEF Truths
  <1>4. QED
    BY <1>2, <1>3 DEF IndexInv

(* The invariant of the index and of all that is on its way to it: whatever the *)
(* engine does within its promise, and however frames, events, answers,         *)
(* refusals and resets interleave (marker-index.ts, MarkerIndexCache).          *)
THEOREM IndexInvHolds == Spec => []IndexInv
  <1>1. Init => IndexInv
    BY InitIndexInv
  <1>2. IndexInv /\ [Next]_vars => IndexInv'
    BY NextIndexInv, StutterIndexInv
  <1>3. QED
    BY <1>1, <1>2, PTL DEF Spec

LEMMA InvAnswers ==
  ASSUME IndexInv
  PROVE  AnswersAreTrue
  <1>1. TypeOK
    BY DEF IndexInv, OwnPull, Known, TypeOK
  <1>2. NeverWrong
    <2> SUFFICES ASSUME NEW held \in shown, NEW id \in Answers(cache) \cap DOMAIN held
                 PROVE  LineOf(cache, id) = held[id]
      BY DEF NeverWrong
    <2>1. cache.adopted # Null /\ cache.adopted = cache.seen /\ id \in DOMAIN cache.lines
      BY DEF Answers
    <2>2. PICK e \in Epochs : cache.adopted = {e} /\ cache.seen = {e}
      BY <2>1 DEF IndexInv, OwnPull
    <2>3. PICK place \in PlacesIn : Truth(place)
      BY DEF IndexInv, Truths
    <2>4. cache.lines[id].line + cache.lines[id].basis = held[id] + cache.basis
      BY <2>1, <2>2, <2>3 DEF Truth, ContentsTrue, ShownTrue, Sighted
    <2>5. cache.lines[id] \in Entry /\ held[id] \in Nat /\ cache.basis \in Nat
      BY <2>1, EntriesAre, MapIs DEF IndexInv, TypedIndex, Cache
    <2>6. PICK a \in Nat, b \in Nat, c \in Nat, d \in Nat :
            a = cache.lines[id].line /\ b = cache.lines[id].basis /\ c = held[id] /\ d = cache.basis
      BY <2>5 DEF Entry
    <2>7. a - (d - b) = c
      BY <2>4, <2>6
    <2>8. QED
      BY <2>6, <2>7 DEF LineOf
  <1>3. DeadStayDeadIfAnswered
    BY DEF IndexInv, BuriedIfAnswered, Buried, DeadStayDeadIfAnswered, DeadStayDead, Answers
  <1>4. QED
    BY <1>1, <1>2, <1>3 DEF AnswersAreTrue

(* The answers of the marker index are true: a line it gives for a marker of    *)
(* the newest frame's buffer is that marker's line, and, while no pull was      *)
(* refused, it gives none for a marker whose disposal was delivered.            *)
THEOREM AnswersAlwaysTrue == Spec => []AnswersAreTrue
  <1>1. IndexInv => AnswersAreTrue
    BY InvAnswers
  <1>2. QED
    BY <1>1, IndexInvHolds, PTL

-----------------------------------------------------------------------------
(* Pointer: the drag, its selection and what has been announced of it.      *)
\* What a handler works on: the controller's fields, the engine's selection and the calls made.
Controller(c) ==
  /\ c = [dragging |-> c.dragging, hasSelection |-> c.hasSelection, amount |-> c.amount, last |-> c.last,
          dragged |-> c.dragged, anchor |-> c.anchor, reported |-> c.reported]
  /\ c.dragging \in BOOLEAN /\ c.hasSelection \in BOOLEAN /\ c.amount \in Int
Selected(e) == e # NoCell => e = <<e[1], e[2], e[3]>>
Calls(o) == o = [changed |-> o.changed, began |-> o.began, scrolled |-> o.scrolled, cursor |-> o.cursor]
            /\ o.changed \in BOOLEAN /\ o.began \in BOOLEAN /\ o.scrolled \in Int
Working(s) == /\ s = [ctl |-> s.ctl, engine |-> s.engine, out |-> s.out]
              /\ Controller(s.ctl) /\ Selected(s.engine) /\ Calls(s.out)
\* What the controller believes is so, in a gesture of its own or not; gone: the engine dropped
\* the selection itself.
Believed(c, e, mine, gone) ==
  /\ c.dragging => mine /\ c.hasSelection
  /\ c.amount # 0 => c.dragging
  /\ e # NoCell => c.hasSelection
  /\ c.hasSelection => e # NoCell \/ gone
\* The engine's selection is the one last begun and announced.
Announced(c, e, v) ==
  /\ c.anchor # NoCell => /\ c.anchor = <<c.anchor[1], c.anchor[2]>>
                           /\ e # NoCell /\ e[1] = c.anchor[1] /\ e[2] = Abs(v, c.anchor[2])
  /\ c.reported # NoCell => /\ c.anchor # NoCell /\ c.reported = <<c.anchor, c.reported[2]>>
                             /\ e[3] = Abs(v, c.reported[2])
PointerInv ==
  /\ Controller(selection) /\ Selected(engine)
  /\ view \in 0..Bottom /\ pointer \in Int \X Int /\ measured \in BOOLEAN /\ stale \in BOOLEAN /\ dropped \in BOOLEAN
  /\ Believed(selection, engine, gesture = "local", dropped)
  /\ selection.amount # 0 => selection.amount = DragScrollSpeed(pointer[1])
  /\ ~stale => Announced(selection, engine, view)
  /\ gesture \in {"none", "app", "local"} /\ owed \subseteq buttons /\ (gesture # "app" => owed = {})

\* A selection, an anchor and a report are something.
LEMMA Somethings ==
  /\ \A a, b : <<a, b>> # NoCell
  /\ \A a, b, c : <<a, b, c>> # NoCell
  BY DEF NoCell

\* reportChange keeps the selection, and announces every change of what is known.
LEMMA Reports ==
  ASSUME NEW s, Working(s), NEW focus, NEW u, u = ReportChange(s, focus)
  PROVE  /\ Working(u) /\ u.engine = s.engine
         /\ u.ctl.dragging = s.ctl.dragging /\ u.ctl.hasSelection = s.ctl.hasSelection /\ u.ctl.amount = s.ctl.amount
         /\ u.ctl.anchor = s.ctl.anchor /\ u.out.began = s.out.began /\ u.out.scrolled = s.out.scrolled
         /\ \/ /\ u.ctl.reported = s.ctl.reported /\ u.out.changed = s.out.changed
               /\ focus # NoCell /\ s.ctl.anchor # NoCell /\ s.ctl.reported = <<s.ctl.anchor, focus>>
            \/ u.out.changed /\ u.ctl.reported = IF focus # NoCell /\ s.ctl.anchor # NoCell THEN <<s.ctl.anchor, focus>>
                                                 ELSE NoCell
  <1> DEFINE key == IF focus # NoCell /\ s.ctl.anchor # NoCell THEN <<s.ctl.anchor, focus>> ELSE NoCell
  <1>1. PICK c : c = s.ctl
    OBVIOUS
  <1>2. PICK o : o = s.out
    OBVIOUS
  <1>3. s = [ctl |-> c, engine |-> s.engine, out |-> o] /\ Controller(c) /\ Calls(o)
    BY <1>1, <1>2 DEF Working
  <1>4. CASE key # NoCell /\ key = c.reported
    <2>1. u = s
      BY <1>1, <1>4 DEF ReportChange
    <2>2. QED
      BY <2>1, <1>1, <1>4
  <1>5. CASE ~(key # NoCell /\ key = c.reported)
    <2>1. u = [s EXCEPT !.ctl.reported = key, !.out.changed = TRUE]
      BY <1>1, <1>5 DEF ReportChange
    <2>2. PICK k : k = key
      OBVIOUS
    <2>3. u = [ctl |-> [c EXCEPT !.reported = k], engine |-> s.engine, out |-> [o EXCEPT !.changed = TRUE]]
      <3> HIDE DEF key
      <3>1. PICK e : e = s.engine
        OBVIOUS
      <3>2. u = [[ctl |-> c, engine |-> e, out |-> o] EXCEPT !.ctl.reported = k, !.out.changed = TRUE]
        BY <2>1, <2>2, <1>3, <3>1
      <3>3. QED
        BY <3>1, <3>2
    <2>4. PICK d : d = [c EXCEPT !.reported = k]
      OBVIOUS
    <2>5. PICK p : p = [o EXCEPT !.changed = TRUE]
      OBVIOUS
    <2>6. /\ Controller(d) /\ d.dragging = c.dragging /\ d.hasSelection = c.hasSelection /\ d.amount = c.amount
          /\ d.anchor = c.anchor /\ d.reported = k
      BY <2>4, <1>3 DEF Controller
    <2>7. Calls(p) /\ p.changed /\ p.began = o.began /\ p.scrolled = o.scrolled
      BY <2>5, <1>3 DEF Calls
    <2>8. u = [ctl |-> d, engine |-> s.engine, out |-> p]
      BY <2>3, <2>4, <2>5
    <2>9. Working(u) /\ u.ctl = d /\ u.out = p /\ u.engine = s.engine
      BY <2>6, <2>7, <2>8 DEF Working
    <2>10. QED
      BY <2>2, <2>6, <2>7, <2>9, <1>1, <1>2
  <1>6. QED
    BY <1>4, <1>5

\* selection_extend moves the focus of a selection there is.
LEMMA Extends ==
  ASSUME NEW s, Working(s), NEW v, NEW cell, NEW u, u = PortExtend(s, v, cell)
  PROVE  /\ Working(u) /\ u.ctl = s.ctl /\ u.out = s.out
         /\ s.engine = NoCell => u.engine = NoCell
         /\ s.engine # NoCell => u.engine # NoCell /\ u.engine = <<s.engine[1], s.engine[2], Abs(v, cell)>>
  <1>1. PICK e : e = s.engine
    OBVIOUS
  <1>2. PICK f : f = <<e[1], e[2], Abs(v, cell)>>
    OBVIOUS
  <1>3. f # NoCell /\ Selected(f)
    BY <1>2, Somethings DEF Selected
  <1>4. CASE e = NoCell
    BY <1>1, <1>4 DEF PortExtend
  <1>5. CASE e # NoCell
    <2>1. u = [s EXCEPT !.engine = f]
      BY <1>1, <1>2, <1>5 DEF PortExtend
    <2>2. PICK c, o : c = s.ctl /\ o = s.out
      OBVIOUS
    <2>3. s = [ctl |-> c, engine |-> e, out |-> o]
      BY <1>1, <2>2 DEF Working
    <2>4. u = [ctl |-> c, engine |-> f, out |-> o]
      BY <2>1, <2>3
    <2>5. u.ctl = s.ctl /\ u.out = s.out /\ u.engine = f /\ u = [ctl |-> u.ctl, engine |-> u.engine, out |-> u.out]
      BY <2>2, <2>4
    <2>6. Working(u)
      BY <2>5, <1>3 DEF Working
    <2>7. QED
      BY <2>5, <2>6, <1>1, <1>2, <1>3, <1>5
  <1>6. QED
    BY <1>4, <1>5

\* An extension that is announced, at its cell or without one, leaves what is announced right.
LEMMA ExtendsAnnounced ==
  ASSUME NEW s, Working(s), NEW v, NEW cell, cell # NoCell, NEW focus, focus \in {cell, NoCell},
         NEW u, u = ReportChange(PortExtend(s, v, cell), focus)
  PROVE  /\ Working(u) /\ (u.engine = NoCell <=> s.engine = NoCell)
         /\ u.ctl.dragging = s.ctl.dragging /\ u.ctl.hasSelection = s.ctl.hasSelection /\ u.ctl.amount = s.ctl.amount
         /\ u.ctl.anchor = s.ctl.anchor /\ u.out.began = s.out.began /\ u.out.scrolled = s.out.scrolled
         /\ ~s.out.changed /\ u.out.changed /\ u.ctl.anchor = NoCell => Announced(u.ctl, u.engine, v)
         /\ Announced(s.ctl, s.engine, v) => Announced(u.ctl, u.engine, v) /\ (u.engine # s.engine => u.out.changed)
  <1>1. PICK x : x = PortExtend(s, v, cell)
    OBVIOUS
  <1>2. /\ Working(x) /\ x.ctl = s.ctl /\ x.out = s.out
        /\ s.engine = NoCell => x.engine = NoCell
        /\ s.engine # NoCell => x.engine # NoCell /\ x.engine = <<s.engine[1], s.engine[2], Abs(v, cell)>>
    BY <1>1, Extends
  <1>3. u = ReportChange(x, focus)
    BY <1>1
  <1>4. /\ Working(u) /\ u.engine = x.engine
        /\ u.ctl.dragging = x.ctl.dragging /\ u.ctl.hasSelection = x.ctl.hasSelection /\ u.ctl.amount = x.ctl.amount
        /\ u.ctl.anchor = x.ctl.anchor /\ u.out.began = x.out.began /\ u.out.scrolled = x.out.scrolled
        /\ \/ /\ u.ctl.reported = x.ctl.reported /\ u.out.changed = x.out.changed
              /\ focus # NoCell /\ x.ctl.anchor # NoCell /\ x.ctl.reported = <<x.ctl.anchor, focus>>
           \/ u.out.changed /\ u.ctl.reported = IF focus # NoCell /\ x.ctl.anchor # NoCell THEN <<x.ctl.anchor, focus>>
                                                ELSE NoCell
    BY <1>2, <1>3, Reports
  <1>5. ASSUME ~s.out.changed, u.out.changed, u.ctl.anchor = NoCell
        PROVE  Announced(u.ctl, u.engine, v)
    <2>1. u.ctl.reported = NoCell
      BY <1>2, <1>4, <1>5
    <2>2. QED
      BY <2>1, <1>5 DEF Announced
  <1>6. ASSUME Announced(s.ctl, s.engine, v)
        PROVE  Announced(u.ctl, u.engine, v) /\ (u.engine # s.engine => u.out.changed)
    <2>1. u.ctl.anchor # NoCell => /\ u.ctl.anchor = <<u.ctl.anchor[1], u.ctl.anchor[2]>>
                                    /\ u.engine # NoCell /\ u.engine[1] = u.ctl.anchor[1]
                                    /\ u.engine[2] = Abs(v, u.ctl.anchor[2])
      BY <1>2, <1>4, <1>6 DEF Announced
    <2>2. CASE u.ctl.reported = s.ctl.reported /\ s.ctl.anchor # NoCell /\ s.ctl.reported = <<s.ctl.anchor, focus>> /\ focus = cell
      <3>1. s.ctl.reported # NoCell /\ s.ctl.reported[2] = cell
        BY <2>2, Somethings
      <3>2. s.engine # NoCell /\ s.engine[3] = Abs(v, cell)
        BY <3>1, <1>6 DEF Announced
      <3>3. s.engine = <<s.engine[1], s.engine[2], s.engine[3]>>
        BY <3>2 DEF Working, Selected
      <3>4. u.engine = s.engine
        BY <3>2, <3>3, <1>2, <1>4
      <3>5. Announced(u.ctl, u.engine, v)
        BY <3>1, <3>2, <3>4, <2>1, <2>2, <1>2, <1>4 DEF Announced
      <3>6. QED
        BY <3>4, <3>5
    <2>3. CASE u.out.changed /\ u.ctl.reported = NoCell
      BY <2>1, <2>3 DEF Announced
    <2>4. CASE u.out.changed /\ u.ctl.anchor # NoCell /\ u.ctl.reported = <<u.ctl.anchor, cell>>
      <3>1. u.engine[3] = Abs(v, cell) /\ u.ctl.reported[2] = cell
        BY <2>1, <2>4, <1>2, <1>4
      <3>2. QED
        BY <3>1, <2>1, <2>4 DEF Announced
    <2>5. QED
      BY <2>2, <2>3, <2>4, <1>2, <1>4
  <1>7. (u.engine = NoCell <=> s.engine = NoCell)
    BY <1>2, <1>4
  <1>8. QED
    BY <1>2, <1>4, <1>5, <1>6, <1>7

\* A report of no selection.
LEMMA ReportsNone ==
  ASSUME NEW s, Working(s), NEW none, none = NoCell, NEW u, u = ReportChange(s, none)
  PROVE  /\ Working(u) /\ u.engine = s.engine
         /\ u.ctl.dragging = s.ctl.dragging /\ u.ctl.hasSelection = s.ctl.hasSelection /\ u.ctl.amount = s.ctl.amount
         /\ u.ctl.anchor = s.ctl.anchor /\ u.out.began = s.out.began /\ u.out.scrolled = s.out.scrolled
         /\ u.out.changed /\ u.ctl.reported = NoCell
  <1>1. PICK focus : focus = none
    OBVIOUS
  <1>2. /\ Working(u) /\ u.engine = s.engine
        /\ u.ctl.dragging = s.ctl.dragging /\ u.ctl.hasSelection = s.ctl.hasSelection /\ u.ctl.amount = s.ctl.amount
        /\ u.ctl.anchor = s.ctl.anchor /\ u.out.began = s.out.began /\ u.out.scrolled = s.out.scrolled
        /\ \/ /\ u.ctl.reported = s.ctl.reported /\ u.out.changed = s.out.changed
              /\ focus # NoCell /\ s.ctl.anchor # NoCell /\ s.ctl.reported = <<s.ctl.anchor, focus>>
           \/ u.out.changed /\ u.ctl.reported = IF focus # NoCell /\ s.ctl.anchor # NoCell THEN <<s.ctl.anchor, focus>>
                                                ELSE NoCell
    <2>1. u = ReportChange(s, focus)
      BY <1>1
    <2>2. QED
      BY <2>1, Reports
  <1>3. QED
    BY <1>1, <1>2

\* What a handler owes: what it leaves is right if what it found was, or if it announced it anew.
Handles(s, u, v) ==
  /\ u.out.changed /\ (u.out.began \/ u.ctl.anchor = NoCell) => Announced(u.ctl, u.engine, v)
  /\ Announced(s.ctl, s.engine, v) => Announced(u.ctl, u.engine, v) /\ (u.engine # s.engine => u.out.changed)
Untouched(s) == Working(s) /\ s.out = Silent
\* A handler that does not scroll, nor change the speed at which it will.
Steady(s, u) == u.out.scrolled = 0 /\ u.ctl.amount = s.ctl.amount

\* A handler that does nothing.
LEMMA Idle ==
  ASSUME NEW s, Untouched(s), NEW v
  PROVE  Handles(s, s, v) /\ ~s.out.changed /\ ~s.out.began /\ s.out.scrolled = 0
  BY DEF Handles, Untouched, Silent

\* The selection dropped and the drop announced, as clear and an Alt+click do.
LEMMA Drops ==
  ASSUME NEW s, Working(s), NEW v, NEW u,
         u = ReportChange(PortClear([s EXCEPT !.ctl.hasSelection = FALSE, !.ctl.anchor = NoCell]), NoCell)
  PROVE  /\ Working(u) /\ u.engine = NoCell /\ u.out.changed /\ ~u.ctl.hasSelection
         /\ u.ctl.dragging = s.ctl.dragging /\ u.ctl.amount = s.ctl.amount /\ u.out.scrolled = s.out.scrolled
         /\ u.ctl.anchor = NoCell /\ Announced(u.ctl, u.engine, v)
  <1>1. PICK c, o : c = s.ctl /\ o = s.out
    OBVIOUS
  <1>2. s = [ctl |-> c, engine |-> s.engine, out |-> o] /\ Controller(c) /\ Calls(o)
    BY <1>1 DEF Working
  <1>3. PICK d : d = [c EXCEPT !.hasSelection = FALSE, !.anchor = NoCell]
    OBVIOUS
  <1>4. Controller(d) /\ d.dragging = c.dragging /\ ~d.hasSelection /\ d.amount = c.amount /\ d.anchor = NoCell
    BY <1>2, <1>3 DEF Controller
  <1>5. PICK m : m = PortClear([s EXCEPT !.ctl.hasSelection = FALSE, !.ctl.anchor = NoCell])
    OBVIOUS
  <1>6. m = [ctl |-> d, engine |-> NoCell, out |-> o]
    <2>1. PICK e : e = s.engine
      OBVIOUS
    <2>2. s = [ctl |-> c, engine |-> e, out |-> o]
      BY <1>2, <2>1
    <2>3. m = [[[ctl |-> c, engine |-> e, out |-> o] EXCEPT !.ctl.hasSelection = FALSE, !.ctl.anchor = NoCell] EXCEPT !.engine = NoCell]
      BY <1>5, <2>2 DEF PortClear
    <2>4. QED
      BY <1>3, <2>3
  <1>7. Working(m) /\ m.ctl = d /\ m.out = o /\ m.engine = NoCell
    BY <1>2, <1>4, <1>6 DEF Working, Selected
  <1>8. PICK n : n = NoCell
    OBVIOUS
  <1>9. u = ReportChange(m, n)
    BY <1>5, <1>8
  <1>10. /\ Working(u) /\ u.engine = m.engine
         /\ u.ctl.dragging = m.ctl.dragging /\ u.ctl.hasSelection = m.ctl.hasSelection /\ u.ctl.amount = m.ctl.amount
         /\ u.ctl.anchor = m.ctl.anchor /\ u.out.began = m.out.began /\ u.out.scrolled = m.out.scrolled
         /\ u.out.changed /\ u.ctl.reported = NoCell
    BY <1>7, <1>8, <1>9, ReportsNone
  <1>11. Announced(u.ctl, u.engine, v)
    BY <1>4, <1>7, <1>10 DEF Announced
  <1>12. QED
    BY <1>1, <1>4, <1>7, <1>10, <1>11

LEMMA ClearHandles ==
  ASSUME NEW s, Untouched(s), NEW v, NEW mine, NEW gone, Believed(s.ctl, s.engine, mine, gone), NEW u, u = ClearSelection(s)
  PROVE  /\ Working(u) /\ Handles(s, u, v) /\ Steady(s, u)
         /\ Believed(u.ctl, u.engine, mine, gone)
  <1>1. CASE ~s.ctl.hasSelection \/ s.ctl.dragging
    <2>1. u = s
      BY <1>1 DEF ClearSelection
    <2>2. QED
      BY <2>1, Idle DEF Untouched, Steady
  <1>2. CASE s.ctl.hasSelection /\ ~s.ctl.dragging
    <2>1. u = ReportChange(PortClear([s EXCEPT !.ctl.hasSelection = FALSE, !.ctl.anchor = NoCell]), NoCell)
      BY <1>2 DEF ClearSelection
    <2>2. Working(s) /\ s.out.scrolled = 0
      BY DEF Untouched, Silent
    <2>3. /\ Working(u) /\ u.engine = NoCell /\ u.out.changed /\ ~u.ctl.hasSelection
          /\ u.ctl.dragging = s.ctl.dragging /\ u.ctl.amount = s.ctl.amount /\ u.out.scrolled = s.out.scrolled
          /\ u.ctl.anchor = NoCell /\ Announced(u.ctl, u.engine, v)
      BY <2>1, <2>2, Drops
    <2>4. QED
      BY <1>2, <2>2, <2>3 DEF Handles, Believed, Steady
  <1>3. QED
    BY <1>1, <1>2 DEF Untouched, Working, Controller, Steady

\* selectAll.
LEMMA AllHandles ==
  ASSUME NEW s, Untouched(s), NEW v, NEW mine, NEW gone, Believed(s.ctl, s.engine, mine, gone), NEW u, u = SelectAll(s)
  PROVE  /\ Working(u) /\ Handles(s, u, v) /\ Steady(s, u)
         /\ Believed(u.ctl, u.engine, mine, gone)
  <1>1. PICK c, o : c = s.ctl /\ o = s.out
    OBVIOUS
  <1>2. s = [ctl |-> c, engine |-> s.engine, out |-> o] /\ Controller(c) /\ Calls(o) /\ o.scrolled = 0
    BY <1>1 DEF Working, Untouched, Silent
  <1>3. PICK d : d = [c EXCEPT !.hasSelection = TRUE, !.anchor = NoCell]
    OBVIOUS
  <1>4. Controller(d) /\ d.dragging = c.dragging /\ d.hasSelection /\ d.amount = c.amount /\ d.anchor = NoCell
    BY <1>2, <1>3 DEF Controller
  <1>5. PICK f : f = <<"char", <<0, 0>>, <<Bottom + PaneRows - 1, Halves - 1>> >>
    OBVIOUS
  <1>6. PICK m : m = [s EXCEPT !.engine = f, !.ctl.hasSelection = TRUE, !.ctl.anchor = NoCell]
    OBVIOUS
  <1>7. m = [ctl |-> d, engine |-> f, out |-> o]
    <2>1. PICK e : e = s.engine
      OBVIOUS
    <2>2. s = [ctl |-> c, engine |-> e, out |-> o]
      BY <1>2, <2>1
    <2>3. m = [[ctl |-> c, engine |-> e, out |-> o] EXCEPT !.engine = f, !.ctl.hasSelection = TRUE, !.ctl.anchor = NoCell]
      BY <1>6, <2>2
    <2>4. QED
      BY <1>3, <2>3 DEF Steady
  <1>8. f # NoCell /\ Selected(f)
    BY <1>5, Somethings DEF Selected
  <1>9. Working(m) /\ m.ctl = d /\ m.out = o /\ m.engine = f
    BY <1>2, <1>4, <1>7, <1>8 DEF Working
  <1>10. PICK n : n = NoCell
    OBVIOUS
  <1>11. u = ReportChange(m, n)
    BY <1>5, <1>6, <1>10 DEF SelectAll
  <1>12. /\ Working(u) /\ u.engine = m.engine
         /\ u.ctl.dragging = m.ctl.dragging /\ u.ctl.hasSelection = m.ctl.hasSelection /\ u.ctl.amount = m.ctl.amount
         /\ u.ctl.anchor = m.ctl.anchor /\ u.out.began = m.out.began /\ u.out.scrolled = m.out.scrolled
         /\ u.out.changed /\ u.ctl.reported = NoCell
    BY <1>9, <1>10, <1>11, ReportsNone
  <1>13. Announced(u.ctl, u.engine, v)
    BY <1>4, <1>9, <1>12 DEF Announced
  <1>14. Handles(s, u, v) /\ u.out.scrolled = 0 /\ u.ctl.amount = s.ctl.amount
    BY <1>1, <1>2, <1>4, <1>9, <1>12, <1>13 DEF Handles
  <1>15. Believed(u.ctl, u.engine, mine, gone)
    BY <1>1, <1>4, <1>8, <1>9, <1>12 DEF Believed
  <1>16. QED
    BY <1>12, <1>14, <1>15 DEF Steady

\* mouseUp: the drag is over, and a click that moved the cursor selects nothing.
LEMMA UpHandles ==
  ASSUME NEW s, Untouched(s), NEW v, NEW gone, NEW alt, NEW quick, NEW its, Believed(s.ctl, s.engine, its, gone),
         NEW u, u = MouseUp(s, alt, quick)
  PROVE  /\ Working(u) /\ Handles(s, u, v) /\ u.out.scrolled = 0 /\ ~u.ctl.dragging
         /\ \A mine : Believed(u.ctl, u.engine, mine, gone)
  <1>1. CASE ~s.ctl.dragging
    <2>1. u = s
      BY <1>1 DEF MouseUp
    <2>2. Working(s) /\ Handles(s, s, v) /\ s.out.scrolled = 0
      BY Idle DEF Untouched
    <2>3. QED
      BY <2>1, <2>2, <1>1 DEF Believed
  <1>2. CASE s.ctl.dragging
    <2>1. PICK c, o : c = s.ctl /\ o = s.out
      OBVIOUS
    <2>2. PICK e : e = s.engine
      OBVIOUS
    <2>3. /\ s = [ctl |-> c, engine |-> e, out |-> o] /\ Controller(c) /\ Calls(o) /\ Selected(e)
          /\ o.scrolled = 0 /\ ~o.changed /\ ~o.began
      BY <2>1, <2>2 DEF Working, Untouched, Silent
    <2>4. PICK d : d = [c EXCEPT !.dragging = FALSE, !.amount = 0]
      OBVIOUS
    <2>5. /\ Controller(d) /\ ~d.dragging /\ d.hasSelection = c.hasSelection /\ d.amount = 0 /\ d.anchor = c.anchor
          /\ d.reported = c.reported
      <3>1. PICK b : b = [c EXCEPT !.dragging = FALSE]
        OBVIOUS
      <3>2. /\ Controller(b) /\ ~b.dragging /\ b.hasSelection = c.hasSelection /\ b.anchor = c.anchor
            /\ b.reported = c.reported
        BY <3>1, <2>3 DEF Controller
      <3>3. d = [b EXCEPT !.amount = 0]
        BY <3>1, <2>4
      <3>4. /\ Controller(d) /\ d.dragging = b.dragging /\ d.hasSelection = b.hasSelection /\ d.amount = 0
            /\ d.anchor = b.anchor /\ d.reported = b.reported
        BY <3>2, <3>3 DEF Controller
      <3>5. QED
        BY <3>2, <3>4
    <2>6. PICK done : done = [s EXCEPT !.ctl.dragging = FALSE, !.ctl.amount = 0]
      OBVIOUS
    <2>7. done = [ctl |-> d, engine |-> e, out |-> o]
      <3>1. done = [[ctl |-> c, engine |-> e, out |-> o] EXCEPT !.ctl.dragging = FALSE, !.ctl.amount = 0]
        BY <2>3, <2>6
      <3>2. QED
        BY <3>1, <2>4
    <2>8. Working(done) /\ done.ctl = d /\ done.engine = e /\ done.out = o
      BY <2>3, <2>5, <2>7 DEF Working
    <2>9. CASE ~(alt /\ ~s.ctl.dragged /\ quick /\ view = Bottom) \/ ~measured
      <3>1. u = done
        BY <1>2, <2>6, <2>9 DEF MouseUp
      <3>2. Handles(s, u, v)
        BY <3>1, <2>1, <2>2, <2>3, <2>5, <2>8 DEF Handles, Announced
      <3>3. \A mine : Believed(u.ctl, u.engine, mine, gone)
        BY <3>1, <2>1, <2>2, <2>5, <2>8 DEF Believed
      <3>4. QED
        BY <3>1, <3>2, <3>3, <2>3, <2>5, <2>8
    <2>10. CASE alt /\ ~s.ctl.dragged /\ quick /\ view = Bottom /\ measured
      <3>1. PICK x : x = ReportChange(PortClear([done EXCEPT !.ctl.hasSelection = FALSE, !.ctl.anchor = NoCell]), NoCell)
        OBVIOUS
      <3>2. u = [x EXCEPT !.out.cursor = CellAndSide(pointer)]
        BY <1>2, <2>6, <2>10, <3>1 DEF MouseUp
      <3>3. /\ Working(x) /\ x.engine = NoCell /\ x.out.changed /\ ~x.ctl.hasSelection
            /\ x.ctl.dragging = done.ctl.dragging /\ x.ctl.amount = done.ctl.amount /\ x.out.scrolled = done.out.scrolled
            /\ x.ctl.anchor = NoCell /\ Announced(x.ctl, x.engine, v)
        BY <3>1, <2>8, Drops
      <3>4. PICK a, f, p : a = x.ctl /\ f = x.engine /\ p = x.out
        OBVIOUS
      <3>5. x = [ctl |-> a, engine |-> f, out |-> p] /\ Controller(a) /\ Selected(f) /\ Calls(p)
        BY <3>3, <3>4 DEF Working
      <3>6. PICK q : q = [p EXCEPT !.cursor = CellAndSide(pointer)]
        OBVIOUS
      <3>7. Calls(q) /\ q.changed = p.changed /\ q.began = p.began /\ q.scrolled = p.scrolled
        BY <3>5, <3>6 DEF Calls
      <3>8. u = [ctl |-> a, engine |-> f, out |-> q]
        <4>1. u = [[ctl |-> a, engine |-> f, out |-> p] EXCEPT !.out.cursor = CellAndSide(pointer)]
          BY <3>2, <3>5
        <4>2. QED
          BY <4>1, <3>6
      <3>9. Working(u) /\ u.ctl = a /\ u.engine = f /\ u.out = q
        BY <3>5, <3>7, <3>8 DEF Working
      <3>10. Announced(u.ctl, u.engine, v) /\ u.out.changed /\ ~u.ctl.dragging /\ ~u.ctl.hasSelection /\ u.ctl.amount = 0
             /\ u.engine = NoCell /\ u.out.scrolled = 0
        BY <3>3, <3>4, <3>7, <3>9, <2>3, <2>5, <2>8
      <3>11. Handles(s, u, v) /\ \A mine : Believed(u.ctl, u.engine, mine, gone)
        BY <3>10 DEF Handles, Believed
      <3>12. QED
        BY <3>9, <3>10, <3>11
    <2>11. QED
      BY <2>9, <2>10
  <1>3. QED
    BY <1>1, <1>2

\* The cells a pointer is put in.
LEMMA CellsAreSomething ==
  /\ \A p : CellAndSide(p) # NoCell
  /\ \A a, b : <<a, b>> # NoCell
  BY Somethings DEF CellAndSide

\* mouseMove: the focus follows the pointer inside the pane, and outside it sets the speed.
Follows(u, p) == u.ctl.amount # 0 => u.ctl.amount = DragScrollSpeed(p[1])
LEMMA MoveHandles ==
  ASSUME NEW s, Untouched(s), NEW gone, NEW mine, NEW p, p[1] \in Int, Believed(s.ctl, s.engine, mine, gone),
         NEW u, u = MouseMove(s, p)
  PROVE  /\ Working(u) /\ Handles(s, u, view) /\ u.out.scrolled = 0 /\ Believed(u.ctl, u.engine, mine, gone)
         /\ Follows(u, p)
  <1>1. CASE ~s.ctl.dragging
    <2>1. u = s
      BY <1>1 DEF MouseMove
    <2>2. Working(s) /\ Handles(s, s, view) /\ s.out.scrolled = 0
      BY Idle DEF Untouched
    <2>3. QED
      BY <2>1, <2>2, <1>1 DEF Believed, Follows
  <1>2. CASE s.ctl.dragging
    <2>1. PICK c, o : c = s.ctl /\ o = s.out
      OBVIOUS
    <2>2. PICK e : e = s.engine
      OBVIOUS
    <2>3. /\ s = [ctl |-> c, engine |-> e, out |-> o] /\ Controller(c) /\ Calls(o) /\ Selected(e)
          /\ o.scrolled = 0 /\ ~o.changed /\ ~o.began /\ c.dragging
      BY <2>1, <2>2, <1>2 DEF Working, Untouched, Silent
    <2>4. CASE ~measured
      <3>1. u = [s EXCEPT !.ctl.dragged = TRUE, !.ctl.amount = 0]
        BY <1>2, <2>4 DEF MouseMove
      <3>2. PICK d : d = [c EXCEPT !.dragged = TRUE, !.amount = 0]
        OBVIOUS
      <3>3. /\ Controller(d) /\ d.dragging = c.dragging /\ d.hasSelection = c.hasSelection /\ d.amount = 0
            /\ d.anchor = c.anchor /\ d.reported = c.reported
        <4>1. PICK b : b = [c EXCEPT !.dragged = TRUE]
          OBVIOUS
        <4>2. /\ Controller(b) /\ b.dragging = c.dragging /\ b.hasSelection = c.hasSelection /\ b.anchor = c.anchor
              /\ b.reported = c.reported
          BY <4>1, <2>3 DEF Controller
        <4>3. d = [b EXCEPT !.amount = 0]
          BY <4>1, <3>2
        <4>4. /\ Controller(d) /\ d.dragging = b.dragging /\ d.hasSelection = b.hasSelection /\ d.amount = 0
              /\ d.anchor = b.anchor /\ d.reported = b.reported
          BY <4>2, <4>3 DEF Controller
        <4>5. QED
          BY <4>2, <4>4 DEF Follows
      <3>4. u = [ctl |-> d, engine |-> e, out |-> o]
        <4>1. u = [[ctl |-> c, engine |-> e, out |-> o] EXCEPT !.ctl.dragged = TRUE, !.ctl.amount = 0]
          BY <2>3, <3>1
        <4>2. QED
          BY <4>1, <3>2 DEF Follows
      <3>5. Working(u) /\ u.ctl = d /\ u.engine = e /\ u.out = o
        BY <2>3, <3>3, <3>4 DEF Working
      <3>6. Handles(s, u, view)
        BY <3>3, <3>5, <2>1, <2>2, <2>3 DEF Handles, Announced
      <3>7. Believed(u.ctl, u.engine, mine, gone)
        BY <3>3, <3>5, <2>1, <2>2 DEF Believed
      <3>8. QED
        BY <3>3, <3>5, <3>6, <3>7, <2>3 DEF Follows
    <2>5. CASE measured
      <3>1. PICK cell : cell = CellAndSide(p)
        OBVIOUS
      <3>2. PICK speed : speed = DragScrollSpeed(p[1])
        OBVIOUS
      <3>3. speed \in Int /\ cell # NoCell
        BY <3>1, <3>2, CellsAreSomething DEF DragScrollSpeed
      <3>4. PICK m : m = [s EXCEPT !.ctl.dragged = TRUE, !.ctl.last = cell[2], !.ctl.amount = speed]
        OBVIOUS
      <3>5. u = IF speed = 0 THEN ReportChange(PortExtend(m, view, cell), cell) ELSE m
        BY <1>2, <2>5, <3>1, <3>2, <3>4 DEF MouseMove
      <3>6. PICK d : d = [c EXCEPT !.dragged = TRUE, !.last = cell[2], !.amount = speed]
        OBVIOUS
      <3>7. /\ Controller(d) /\ d.dragging = c.dragging /\ d.hasSelection = c.hasSelection /\ d.amount = speed
            /\ d.anchor = c.anchor /\ d.reported = c.reported
        BY <2>3, <3>3, <3>6 DEF Controller
      <3>8. m = [ctl |-> d, engine |-> e, out |-> o]
        <4>1. m = [[ctl |-> c, engine |-> e, out |-> o] EXCEPT !.ctl.dragged = TRUE, !.ctl.last = cell[2], !.ctl.amount = speed]
          BY <2>3, <3>4
        <4>2. QED
          BY <4>1, <3>6 DEF Follows
      <3>9. Working(m) /\ m.ctl = d /\ m.engine = e /\ m.out = o
        BY <2>3, <3>7, <3>8 DEF Working
      <3>10. Announced(s.ctl, s.engine, view) => Announced(m.ctl, m.engine, view)
        BY <3>7, <3>9, <2>1, <2>2 DEF Announced
      <3>11. Believed(m.ctl, m.engine, mine, gone)
        BY <3>7, <3>9, <2>1, <2>2, <2>3 DEF Believed
      <3>12. CASE speed # 0
        <4>1. u = m
          BY <3>5, <3>12
        <4>2. Handles(s, u, view)
          BY <4>1, <3>9, <3>10, <2>2, <2>3 DEF Handles
        <4>3. QED
          BY <4>1, <4>2, <3>2, <3>7, <3>9, <3>11, <2>3 DEF Follows
      <3>13. CASE speed = 0
        <4>1. PICK f : f = cell
          OBVIOUS
        <4>2. u = ReportChange(PortExtend(m, view, cell), f) /\ f \in {cell, NoCell}
          BY <4>1, <3>5, <3>13
        <4>3. /\ Working(u) /\ (u.engine = NoCell <=> m.engine = NoCell)
              /\ u.ctl.dragging = m.ctl.dragging /\ u.ctl.hasSelection = m.ctl.hasSelection /\ u.ctl.amount = m.ctl.amount
              /\ u.ctl.anchor = m.ctl.anchor /\ u.out.began = m.out.began /\ u.out.scrolled = m.out.scrolled
              /\ ~m.out.changed /\ u.out.changed /\ u.ctl.anchor = NoCell => Announced(u.ctl, u.engine, view)
              /\ Announced(m.ctl, m.engine, view) => Announced(u.ctl, u.engine, view) /\ (u.engine # m.engine => u.out.changed)
          BY <4>2, <3>3, <3>9, ExtendsAnnounced
        <4>4. Handles(s, u, view)
          BY <4>3, <3>9, <3>10, <2>2, <2>3 DEF Handles
        <4>5. Believed(u.ctl, u.engine, mine, gone)
          BY <4>3, <3>11 DEF Believed
        <4>6. QED
          BY <4>3, <4>4, <4>5, <3>7, <3>9, <3>13, <2>3 DEF Follows
      <3>14. QED
        BY <3>12, <3>13 DEF Follows
    <2>6. QED
      BY <2>4, <2>5 DEF Follows
  <1>3. QED
    BY <1>1, <1>2 DEF Follows

\* A press with the left button on a pane that has a box begins or extends a selection.
\* A press goes on with the gesture that was, or begins the widget's own.
GoesOn(mine, its, ev) == (mine => its) /\ (ev.button = "left" => its)
LEMMA DownHandles ==
  ASSUME NEW s, Untouched(s), NEW gone, NEW mine, NEW its, NEW ev, GoesOn(mine, its, ev), NEW forced,
         Believed(s.ctl, s.engine, mine, gone), NEW u, u = MouseDown(s, ev, forced)
  PROVE  /\ Working(u) /\ Handles(s, u, view) /\ Steady(s, u)
         /\ Believed(u.ctl, u.engine, its, gone)
  <1>1. CASE ev.button # "left" \/ ~measured
    <2>1. u = s
      BY <1>1 DEF MouseDown
    <2>2. Working(s) /\ Handles(s, s, view) /\ s.out.scrolled = 0
      BY Idle DEF Untouched
    <2>3. QED
      BY <2>1, <2>2 DEF Believed, GoesOn, Steady
  <1>2. CASE ev.button = "left" /\ measured
    <2>1. PICK c, o : c = s.ctl /\ o = s.out
      OBVIOUS
    <2>2. PICK e : e = s.engine
      OBVIOUS
    <2>3. /\ s = [ctl |-> c, engine |-> e, out |-> o] /\ Controller(c) /\ Calls(o) /\ Selected(e)
          /\ o.scrolled = 0 /\ ~o.changed /\ ~o.began
      BY <2>1, <2>2 DEF Working, Untouched, Silent
    <2>4. PICK cell : cell = CellAndSide(pointer)
      OBVIOUS
    <2>5. PICK ty : ty = ModeForClick(ev.detail, ev.alt)
      OBVIOUS
    <2>6. cell # NoCell
      BY <2>4, CellsAreSomething
    <2>7. PICK begun : begun = PortBegin([s EXCEPT !.ctl.hasSelection = TRUE, !.ctl.anchor = <<ty, cell>>, !.out.began = TRUE],
                                         view, cell, ty)
      OBVIOUS
    <2>8. PICK made : made = IF ev.shift /\ s.ctl.hasSelection /\ ~forced THEN PortExtend(s, view, cell) ELSE begun
      OBVIOUS
    <2>9. u = ReportChange([made EXCEPT !.ctl.dragging = TRUE, !.ctl.dragged = FALSE], cell)
      BY <1>2, <2>4, <2>5, <2>7, <2>8 DEF MouseDown
    <2>10. CASE ev.shift /\ s.ctl.hasSelection /\ ~forced
      <3>1. made = PortExtend(s, view, cell)
        BY <2>8, <2>10
      <3>2. PICK d : d = [c EXCEPT !.dragging = TRUE, !.dragged = FALSE]
        OBVIOUS
      <3>3. /\ Controller(d) /\ d.dragging /\ d.hasSelection = c.hasSelection /\ d.amount = c.amount
            /\ d.anchor = c.anchor /\ d.reported = c.reported
        <4>1. PICK b : b = [c EXCEPT !.dragging = TRUE]
          OBVIOUS
        <4>2. /\ Controller(b) /\ b.dragging /\ b.hasSelection = c.hasSelection /\ b.amount = c.amount
              /\ b.anchor = c.anchor /\ b.reported = c.reported
          BY <4>1, <2>3 DEF Controller
        <4>3. d = [b EXCEPT !.dragged = FALSE]
          BY <4>1, <3>2
        <4>4. /\ Controller(d) /\ d.dragging = b.dragging /\ d.hasSelection = b.hasSelection /\ d.amount = b.amount
              /\ d.anchor = b.anchor /\ d.reported = b.reported
          BY <4>2, <4>3 DEF Controller
        <4>5. QED
          BY <4>2, <4>4 DEF Steady
      <3>4. PICK m : m = [ctl |-> d, engine |-> e, out |-> o]
        OBVIOUS
      <3>5. Working(m) /\ m.ctl = d /\ m.engine = e /\ m.out = o
        BY <2>3, <3>3, <3>4 DEF Working
      <3>6. [made EXCEPT !.ctl.dragging = TRUE, !.ctl.dragged = FALSE] = PortExtend(m, view, cell)
        <4>1. PICK f : f = <<e[1], e[2], Abs(view, cell)>>
          OBVIOUS
        <4>2. CASE e = NoCell
          <5>1. made = [ctl |-> c, engine |-> e, out |-> o] /\ PortExtend(m, view, cell) = m
            BY <4>2, <3>1, <3>5, <2>2, <2>3 DEF PortExtend
          <5>2. PICK x : x = [made EXCEPT !.ctl.dragging = TRUE, !.ctl.dragged = FALSE]
            OBVIOUS
          <5>3. x = [[ctl |-> c, engine |-> e, out |-> o] EXCEPT !.ctl.dragging = TRUE, !.ctl.dragged = FALSE]
            BY <5>1, <5>2
          <5>4. x = [ctl |-> d, engine |-> e, out |-> o]
            BY <5>3, <3>2
          <5>5. QED
            BY <5>1, <5>2, <5>4, <3>4 DEF Steady
        <4>3. CASE e # NoCell
          <5>1. made = [s EXCEPT !.engine = f] /\ PortExtend(m, view, cell) = [m EXCEPT !.engine = f]
            BY <4>1, <4>3, <3>1, <3>5, <2>2 DEF PortExtend
          <5>2. made = [ctl |-> c, engine |-> f, out |-> o] /\ PortExtend(m, view, cell) = [ctl |-> d, engine |-> f, out |-> o]
            BY <5>1, <2>3, <3>4
          <5>3. PICK x : x = [made EXCEPT !.ctl.dragging = TRUE, !.ctl.dragged = FALSE]
            OBVIOUS
          <5>4. x = [[ctl |-> c, engine |-> f, out |-> o] EXCEPT !.ctl.dragging = TRUE, !.ctl.dragged = FALSE]
            BY <5>2, <5>3
          <5>5. x = [ctl |-> d, engine |-> f, out |-> o]
            BY <5>4, <3>2
          <5>6. QED
            BY <5>2, <5>3, <5>5 DEF Steady
        <4>4. QED
          BY <4>2, <4>3 DEF Steady
      <3>7. PICK f : f = cell
        OBVIOUS
      <3>8. u = ReportChange(PortExtend(m, view, cell), f) /\ f \in {cell, NoCell}
        BY <3>6, <3>7, <2>9
      <3>9. /\ Working(u) /\ (u.engine = NoCell <=> m.engine = NoCell)
            /\ u.ctl.dragging = m.ctl.dragging /\ u.ctl.hasSelection = m.ctl.hasSelection /\ u.ctl.amount = m.ctl.amount
            /\ u.ctl.anchor = m.ctl.anchor /\ u.out.began = m.out.began /\ u.out.scrolled = m.out.scrolled
            /\ ~m.out.changed /\ u.out.changed /\ u.ctl.anchor = NoCell => Announced(u.ctl, u.engine, view)
            /\ Announced(m.ctl, m.engine, view) => Announced(u.ctl, u.engine, view) /\ (u.engine # m.engine => u.out.changed)
        BY <3>5, <3>8, <2>6, ExtendsAnnounced
      <3>10. Announced(s.ctl, s.engine, view) => Announced(m.ctl, m.engine, view)
        BY <3>3, <3>5, <2>1, <2>2 DEF Announced
      <3>11. Handles(s, u, view)
        BY <3>5, <3>9, <3>10, <2>2, <2>3 DEF Handles
      <3>12. Believed(u.ctl, u.engine, its, gone)
        BY <3>3, <3>5, <3>9, <2>1, <2>2, <2>10, <1>2 DEF Believed, GoesOn
      <3>13. QED
        BY <3>3, <3>5, <3>9, <3>11, <3>12, <2>1, <2>3 DEF Steady
    <2>11. CASE ~(ev.shift /\ s.ctl.hasSelection /\ ~forced)
      <3>1. made = begun
        BY <2>8, <2>11
      <3>2. PICK anchor : anchor = <<ty, cell>>
        OBVIOUS
      <3>3. PICK f : f = <<ty, Abs(view, cell), Abs(view, cell)>>
        OBVIOUS
      <3>4. anchor # NoCell /\ anchor = <<anchor[1], anchor[2]>> /\ f # NoCell /\ Selected(f)
            /\ f[1] = anchor[1] /\ f[2] = Abs(view, anchor[2]) /\ f[3] = Abs(view, cell)
        BY <3>2, <3>3, Somethings DEF Selected
      <3>5. PICK b : b = [c EXCEPT !.hasSelection = TRUE, !.anchor = anchor]
        OBVIOUS
      <3>6. Controller(b) /\ b.hasSelection /\ b.amount = c.amount /\ b.anchor = anchor /\ b.reported = c.reported
        BY <2>3, <3>5 DEF Controller
      <3>7. PICK p : p = [o EXCEPT !.began = TRUE]
        OBVIOUS
      <3>8. Calls(p) /\ p.began /\ p.changed = o.changed /\ p.scrolled = o.scrolled
        BY <2>3, <3>7 DEF Calls
      <3>9. made = [ctl |-> b, engine |-> f, out |-> p]
        <4>1. made = [[s EXCEPT !.ctl.hasSelection = TRUE, !.ctl.anchor = anchor, !.out.began = TRUE] EXCEPT !.engine = f]
          BY <3>1, <3>2, <3>3, <2>7 DEF PortBegin
        <4>2. [s EXCEPT !.ctl.hasSelection = TRUE, !.ctl.anchor = anchor, !.out.began = TRUE] = [ctl |-> b, engine |-> e, out |-> p]
          <5>1. s = [ctl |-> c, engine |-> e, out |-> o]
            BY <2>3
          <5>2. PICK x : x = [s EXCEPT !.ctl.hasSelection = TRUE, !.ctl.anchor = anchor, !.out.began = TRUE]
            OBVIOUS
          <5>3. x = [[ctl |-> c, engine |-> e, out |-> o] EXCEPT !.ctl.hasSelection = TRUE, !.ctl.anchor = anchor, !.out.began = TRUE]
            BY <5>1, <5>2
          <5>4. x = [ctl |-> b, engine |-> e, out |-> p]
            BY <5>3, <3>5, <3>7
          <5>5. QED
            BY <5>2, <5>4 DEF Steady
        <4>3. QED
          BY <4>1, <4>2 DEF Steady
      <3>10. PICK d : d = [b EXCEPT !.dragging = TRUE, !.dragged = FALSE]
        OBVIOUS
      <3>11. /\ Controller(d) /\ d.dragging /\ d.hasSelection = b.hasSelection /\ d.amount = b.amount
             /\ d.anchor = b.anchor /\ d.reported = b.reported
        <4>1. PICK a : a = [b EXCEPT !.dragging = TRUE]
          OBVIOUS
        <4>2. /\ Controller(a) /\ a.dragging /\ a.hasSelection = b.hasSelection /\ a.amount = b.amount
              /\ a.anchor = b.anchor /\ a.reported = b.reported
          BY <4>1, <3>6 DEF Controller
        <4>3. d = [a EXCEPT !.dragged = FALSE]
          BY <4>1, <3>10
        <4>4. /\ Controller(d) /\ d.dragging = a.dragging /\ d.hasSelection = a.hasSelection /\ d.amount = a.amount
              /\ d.anchor = a.anchor /\ d.reported = a.reported
          BY <4>2, <4>3 DEF Controller
        <4>5. QED
          BY <4>2, <4>4 DEF Steady
      <3>12. PICK m : m = [made EXCEPT !.ctl.dragging = TRUE, !.ctl.dragged = FALSE]
        OBVIOUS
      <3>13. m = [ctl |-> d, engine |-> f, out |-> p]
        <4>1. m = [[ctl |-> b, engine |-> f, out |-> p] EXCEPT !.ctl.dragging = TRUE, !.ctl.dragged = FALSE]
          BY <3>9, <3>12
        <4>2. QED
          BY <4>1, <3>10 DEF Steady
      <3>14. Working(m) /\ m.ctl = d /\ m.engine = f /\ m.out = p
        BY <3>4, <3>8, <3>11, <3>13 DEF Working
      <3>15. u = ReportChange(m, cell)
        BY <2>9, <3>12
      <3>16. /\ Working(u) /\ u.engine = m.engine
             /\ u.ctl.dragging = m.ctl.dragging /\ u.ctl.hasSelection = m.ctl.hasSelection /\ u.ctl.amount = m.ctl.amount
             /\ u.ctl.anchor = m.ctl.anchor /\ u.out.began = m.out.began /\ u.out.scrolled = m.out.scrolled
             /\ \/ /\ u.ctl.reported = m.ctl.reported /\ u.out.changed = m.out.changed
                   /\ cell # NoCell /\ m.ctl.anchor # NoCell /\ m.ctl.reported = <<m.ctl.anchor, cell>>
                \/ u.out.changed /\ u.ctl.reported = IF cell # NoCell /\ m.ctl.anchor # NoCell THEN <<m.ctl.anchor, cell>>
                                                     ELSE NoCell
        BY <3>14, <3>15, Reports
      <3>17. u.ctl.anchor = anchor /\ u.ctl.reported = <<anchor, cell>> /\ u.engine = f
        BY <3>4, <3>6, <3>11, <3>14, <3>16, <2>6
      <3>18. Announced(u.ctl, u.engine, view)
        <4>1. u.ctl.reported[2] = cell
          BY <3>17
        <4>2. QED
          BY <4>1, <3>4, <3>17 DEF Announced, Steady
      <3>19. ASSUME Announced(s.ctl, s.engine, view), ~u.out.changed
             PROVE  u.engine = s.engine
        <4>1. c.reported = <<anchor, cell>>
          BY <3>6, <3>11, <3>14, <3>16, <3>17, <3>19
        <4>2. c.reported # NoCell /\ c.reported[1] = anchor /\ c.reported[2] = cell
          BY <4>1, Somethings
        <4>3. c.anchor # NoCell /\ c.reported = <<c.anchor, c.reported[2]>> /\ e[3] = Abs(view, cell)
              /\ e # NoCell /\ e[1] = c.anchor[1] /\ e[2] = Abs(view, c.anchor[2])
          BY <4>2, <3>19, <2>1, <2>2 DEF Announced
        <4>4. c.anchor = anchor
          BY <4>2, <4>3
        <4>5. e = <<e[1], e[2], e[3]>>
          BY <4>3, <2>3 DEF Selected
        <4>6. e = f
          BY <4>3, <4>4, <4>5, <3>2, <3>3
        <4>7. QED
          BY <4>6, <3>17, <2>2 DEF Steady
      <3>20. Handles(s, u, view)
        BY <3>18, <3>19 DEF Handles
      <3>21. Believed(u.ctl, u.engine, its, gone)
        BY <3>4, <3>6, <3>11, <3>14, <3>16, <3>17, <1>2 DEF Believed, GoesOn
      <3>22. QED
        BY <3>6, <3>8, <3>11, <3>14, <3>16, <3>20, <3>21, <2>1, <2>3 DEF Steady
    <2>12. QED
      BY <2>10, <2>11 DEF Steady
  <1>3. QED
    BY <1>1, <1>2 DEF Steady

\* A tick scrolls a shown pane at the speed the pointer gave, and at no other.
Scrolls(s, u) ==
  /\ u.ctl.amount # 0 => u.ctl.amount = s.ctl.amount
  /\ u.out.scrolled # 0 => measured /\ u.out.scrolled = s.ctl.amount /\ s.ctl.amount # 0

\* A tick scrolls the view and takes the focus to its edge, or stops at a pane without a box.
LEMMA TickHandles ==
  ASSUME NEW s, Untouched(s), NEW gone, NEW mine, Believed(s.ctl, s.engine, mine, gone), NEW u, u = TickOnce(s),
         NEW v, v = Scrolled(view, u.out.scrolled)
  PROVE  /\ Working(u) /\ Handles(s, u, v) /\ Believed(u.ctl, u.engine, mine, gone)
         /\ Scrolls(s, u)
  <1>1. CASE ~s.ctl.dragging \/ s.ctl.amount = 0
    <2>1. u = s
      BY <1>1 DEF TickOnce
    <2>2. Working(s) /\ Handles(s, s, v) /\ s.out.scrolled = 0
      BY Idle DEF Untouched
    <2>3. QED
      BY <2>1, <2>2 DEF Scrolls
  <1>2. CASE s.ctl.dragging /\ s.ctl.amount # 0
    <2>1. PICK c, o : c = s.ctl /\ o = s.out
      OBVIOUS
    <2>2. PICK e : e = s.engine
      OBVIOUS
    <2>3. /\ s = [ctl |-> c, engine |-> e, out |-> o] /\ Controller(c) /\ Calls(o) /\ Selected(e)
          /\ o.scrolled = 0 /\ ~o.changed /\ ~o.began
      BY <2>1, <2>2 DEF Working, Untouched, Silent
    <2>4. CASE ~measured
      <3>1. u = [s EXCEPT !.ctl.amount = 0]
        BY <1>2, <2>4 DEF TickOnce
      <3>2. PICK d : d = [c EXCEPT !.amount = 0]
        OBVIOUS
      <3>3. /\ Controller(d) /\ d.dragging = c.dragging /\ d.hasSelection = c.hasSelection /\ d.amount = 0
            /\ d.anchor = c.anchor /\ d.reported = c.reported
        BY <2>3, <3>2 DEF Controller
      <3>4. u = [ctl |-> d, engine |-> e, out |-> o]
        <4>1. u = [[ctl |-> c, engine |-> e, out |-> o] EXCEPT !.ctl.amount = 0]
          BY <2>3, <3>1
        <4>2. QED
          BY <4>1, <3>2 DEF Scrolls
      <3>5. Working(u) /\ u.ctl = d /\ u.engine = e /\ u.out = o
        BY <2>3, <3>3, <3>4 DEF Working
      <3>6. Handles(s, u, v)
        BY <3>3, <3>5, <2>1, <2>2, <2>3 DEF Handles, Announced
      <3>7. Believed(u.ctl, u.engine, mine, gone)
        BY <3>3, <3>5, <2>1, <2>2 DEF Believed
      <3>8. QED
        BY <3>3, <3>5, <3>6, <3>7, <2>3 DEF Scrolls
    <2>5. CASE measured
      <3>1. PICK edge : edge = <<IF s.ctl.amount > 0 THEN PaneRows - 1 ELSE 0, s.ctl.last>>
        OBVIOUS
      <3>2. edge # NoCell
        BY <3>1, CellsAreSomething
      <3>3. PICK n : n = c.amount
        OBVIOUS
      <3>4. PICK m : m = [s EXCEPT !.out.scrolled = n]
        OBVIOUS
      <3>5. PICK none : none = NoCell
        OBVIOUS
      <3>6. PICK w : w = Scrolled(view, n)
        OBVIOUS
      <3>7. u = ReportChange(PortExtend(m, w, edge), none)
        BY <1>2, <2>1, <2>5, <3>1, <3>3, <3>4, <3>5, <3>6 DEF TickOnce
      <3>8. PICK p : p = [o EXCEPT !.scrolled = n]
        OBVIOUS
      <3>9. Calls(p) /\ p.scrolled = n /\ p.changed = o.changed /\ p.began = o.began
        <4>1. n \in Int
          BY <3>3, <2>3 DEF Controller
        <4>2. QED
          BY <4>1, <3>8, <2>3 DEF Calls, Scrolls
      <3>10. m = [ctl |-> c, engine |-> e, out |-> p]
        <4>1. m = [[ctl |-> c, engine |-> e, out |-> o] EXCEPT !.out.scrolled = n]
          BY <2>3, <3>4
        <4>2. QED
          BY <4>1, <3>8 DEF Scrolls
      <3>11. Working(m) /\ m.ctl = c /\ m.engine = e /\ m.out = p
        BY <2>3, <3>9, <3>10 DEF Working
      <3>12. none \in {edge, NoCell}
        BY <3>5
      <3>13. /\ Working(u) /\ (u.engine = NoCell <=> m.engine = NoCell)
             /\ u.ctl.dragging = m.ctl.dragging /\ u.ctl.hasSelection = m.ctl.hasSelection /\ u.ctl.amount = m.ctl.amount
             /\ u.ctl.anchor = m.ctl.anchor /\ u.out.began = m.out.began /\ u.out.scrolled = m.out.scrolled
             /\ ~m.out.changed /\ u.out.changed /\ u.ctl.anchor = NoCell => Announced(u.ctl, u.engine, w)
             /\ Announced(m.ctl, m.engine, w) => Announced(u.ctl, u.engine, w) /\ (u.engine # m.engine => u.out.changed)
        BY <3>2, <3>7, <3>11, <3>12, ExtendsAnnounced
      <3>14. v = w
        BY <3>6, <3>9, <3>11, <3>13
      <3>15. Handles(s, u, v)
        BY <3>9, <3>11, <3>13, <3>14, <2>1, <2>2, <2>3 DEF Handles
      <3>16. Believed(u.ctl, u.engine, mine, gone)
        BY <3>11, <3>13, <2>1, <2>2 DEF Believed
      <3>17. QED
        BY <3>3, <3>9, <3>11, <3>13, <3>15, <3>16, <2>1, <2>5, <1>2 DEF Scrolls
    <2>6. QED
      BY <2>4, <2>5 DEF Scrolls
  <1>3. QED
    BY <1>1, <1>2 DEF Scrolls

\* The state a handler starts from.
LEMMA NowUntouched ==
  ASSUME PointerInv
  PROVE  Untouched(Now) /\ Now.ctl = selection /\ Now.engine = engine
  <1>1. PICK n, c, e, o : n = Now /\ c = selection /\ e = engine /\ o = Silent
    OBVIOUS
  <1>2. n = [ctl |-> c, engine |-> e, out |-> o]
    BY <1>1 DEF Now
  <1>3. Calls(o)
    BY <1>1 DEF Calls, Silent
  <1>4. Controller(c) /\ Selected(e)
    BY <1>1 DEF PointerInv
  <1>5. n.ctl = c /\ n.engine = e /\ n.out = o /\ Working(n)
    BY <1>2, <1>3, <1>4 DEF Working
  <1>6. QED
    BY <1>1, <1>5 DEF Untouched

\* A view that is not scrolled stays.
LEMMA ViewStays ==
  ASSUME PointerInv, NEW n, n \in Int
  PROVE  Scrolled(view, n) \in 0..Bottom /\ Scrolled(view, 0) = view
  BY PointerAssumption DEF PointerInv, Scrolled, ClampTo

\* What a step keeps of the selection, and how it is felt.
SelectionKept(its) ==
  /\ Controller(selection') /\ Selected(engine') /\ view' \in 0..Bottom /\ stale' \in BOOLEAN /\ dropped' \in BOOLEAN
  /\ Believed(selection', engine', its, dropped')
  /\ ~stale' => Announced(selection', engine', view')
  /\ engine' # engine /\ ~stale /\ ~stale' => out'.changed

LEMMA Taken ==
  ASSUME PointerInv, NEW u, Working(u), Take(u), NEW v, v = Scrolled(view, u.out.scrolled), NEW s, s = Now, Handles(s, u, v),
         NEW its, Believed(u.ctl, u.engine, its, dropped)
  PROVE  SelectionKept(its) /\ selection' = u.ctl /\ out' = u.out
  <1>1. /\ selection' = u.ctl /\ engine' = u.engine /\ out' = u.out /\ view' = v
        /\ stale' = ((stale \/ view' # view) /\ ~(u.out.changed /\ (u.out.began \/ u.ctl.anchor = NoCell)))
        /\ dropped' = (dropped /\ u.engine = NoCell /\ u.ctl.hasSelection)
    BY DEF Take
  <1>2. Controller(selection') /\ Selected(engine') /\ u.out.scrolled \in Int
    BY <1>1 DEF Working, Calls
  <1>3. view' \in 0..Bottom
    BY <1>1, <1>2, ViewStays
  <1>4. stale' \in BOOLEAN /\ dropped' \in BOOLEAN
    BY <1>1
  <1>5. Believed(selection', engine', its, dropped')
    BY <1>1 DEF Believed
  <1>6. s.ctl = selection /\ s.engine = engine
    BY NowUntouched
  <1>7. ~stale => Announced(s.ctl, s.engine, view)
    BY <1>6 DEF PointerInv
  <1>8. ~stale' => Announced(selection', engine', view')
    <2>1. CASE u.out.changed /\ (u.out.began \/ u.ctl.anchor = NoCell)
      BY <2>1, <1>1 DEF Handles
    <2>2. CASE ~stale /\ view' = view
      BY <2>2, <1>1, <1>7 DEF Handles
    <2>3. QED
      BY <2>1, <2>2, <1>1
  <1>9. engine' # engine /\ ~stale /\ ~stale' => out'.changed
    <2>1. CASE u.out.changed
      BY <2>1, <1>1
    <2>2. CASE ~u.out.changed
      <3>1. ~stale /\ ~stale' => view' = view
        BY <2>2, <1>1
      <3>2. QED
        BY <3>1, <1>1, <1>6, <1>7 DEF Handles
    <2>3. QED
      BY <2>1, <2>2
  <1>10. QED
    BY <1>1, <1>2, <1>3, <1>4, <1>5, <1>8, <1>9 DEF SelectionKept

\* What is left of the invariant, for a step.
Rest(its) ==
  /\ its => gesture' = "local"
  /\ pointer' \in Int \X Int /\ measured' \in BOOLEAN
  /\ selection'.amount # 0 => selection'.amount = DragScrollSpeed(pointer'[1])
  /\ gesture' \in {"none", "app", "local"} /\ owed' \subseteq buttons' /\ (gesture' # "app" => owed' = {})
  /\ out'.scrolled # 0 => measured /\ (out'.scrolled < 0 <=> pointer[1] < 0) /\ pointer[1] \notin 0..(PaneRows - 1)

LEMMA Closes ==
  ASSUME NEW its, SelectionKept(its), Rest(its)
  PROVE  PointerInv' /\ StepIsFelt
  <1>1. StepIsFelt
    BY DEF StepIsFelt, SelectionKept, Rest
  <1>2. Believed(selection', engine', gesture' = "local", dropped')
    BY DEF SelectionKept, Believed, Rest
  <1>3. QED
    BY <1>1, <1>2 DEF PointerInv, SelectionKept, Rest

\* The facts of the invariant a step starts from.
LEMMA Given ==
  ASSUME PointerInv, NEW mine, mine = (gesture = "local")
  PROVE  /\ Untouched(Now) /\ Now.ctl = selection /\ Now.engine = engine
         /\ Believed(selection, engine, mine, dropped)
         /\ view \in 0..Bottom /\ pointer \in Int \X Int /\ measured \in BOOLEAN /\ stale \in BOOLEAN /\ dropped \in BOOLEAN
         /\ gesture \in {"none", "app", "local"} /\ owed \subseteq buttons /\ (gesture # "app" => owed = {})
         /\ selection.amount # 0 => selection.amount = DragScrollSpeed(pointer[1])
         /\ selection.amount # 0 => mine
         /\ Silent.scrolled = 0 /\ Scrolled(view, 0) = view
  <1>1. Believed(selection, engine, mine, dropped)
    BY DEF PointerInv, Believed
  <1>2. Scrolled(view, 0) = view
    BY ViewStays
  <1>3. selection.amount # 0 => mine
    BY <1>1 DEF Believed
  <1>4. QED
    BY <1>1, <1>2, <1>3, NowUntouched DEF PointerInv, Silent

\* A step that calls nothing.
LEMMA TakesNothing ==
  ASSUME PointerInv, Take(Now), NEW its, NEW mine, mine = (gesture = "local"), mine => its
  PROVE  SelectionKept(its) /\ selection' = selection /\ out'.scrolled = 0
  <1>1. PICK s : s = Now
    OBVIOUS
  <1>2. /\ Untouched(s) /\ s.ctl = selection /\ s.engine = engine /\ Believed(selection, engine, mine, dropped)
        /\ Silent.scrolled = 0 /\ Scrolled(view, 0) = view
    BY <1>1, Given
  <1>3. Working(s) /\ s.out = Silent /\ s.out.scrolled = 0
    BY <1>2 DEF Untouched
  <1>4. PICK v : v = Scrolled(view, s.out.scrolled)
    OBVIOUS
  <1>5. Handles(s, s, v)
    BY <1>2, Idle
  <1>6. Believed(s.ctl, s.engine, its, dropped)
    BY <1>2 DEF Believed
  <1>7. Take(s)
    BY <1>1
  <1>8. SelectionKept(its) /\ selection' = s.ctl /\ out' = s.out
    BY <1>1, <1>3, <1>4, <1>5, <1>6, <1>7, Taken
  <1>9. QED
    BY <1>2, <1>3, <1>8

LEMMA PressKeeps ==
  ASSUME PointerInv, PressButton
  PROVE  PointerInv' /\ StepIsFelt
  <1>1. PICK b \in Buttons \ buttons, shift \in BOOLEAN, alt \in BOOLEAN, detail \in 1..3 :
          /\ buttons' = buttons \cup {b}
          /\ Down([button |-> b, shift |-> shift, alt |-> alt, detail |-> detail])
    BY DEF PressButton
  <1>2. PICK ev : ev = [button |-> b, shift |-> shift, alt |-> alt, detail |-> detail]
    OBVIOUS
  <1>3. Down(ev) /\ ev.button = b /\ pointer' = pointer /\ measured' = measured
    BY <1>1, <1>2 DEF PressButton, Page
  <1>4. PICK mine : mine = (gesture = "local")
    OBVIOUS
  <1>5. PICK s : s = Now
    OBVIOUS
  <1>6. /\ Untouched(s) /\ s.ctl = selection /\ s.engine = engine
        /\ Believed(selection, engine, mine, dropped)
        /\ view \in 0..Bottom /\ pointer \in Int \X Int /\ measured \in BOOLEAN
        /\ gesture \in {"none", "app", "local"} /\ owed \subseteq buttons /\ (gesture # "app" => owed = {})
        /\ selection.amount # 0 => selection.amount = DragScrollSpeed(pointer[1])
        /\ Silent.scrolled = 0 /\ Scrolled(view, 0) = view
    BY <1>4, <1>5, Given
  <1>7. PICK before : before = Continues(ev)
    OBVIOUS
  <1>8. (before # "app" => owed = {}) /\ before \in {"none", "app", "local"}
    <2>1. CASE gesture = "app" /\ buttons = {}
      BY <2>1, <1>6, <1>7 DEF Continues
    <2>2. CASE ~(gesture = "app" /\ buttons = {})
      BY <2>2, <1>6, <1>7 DEF Continues
    <2>3. QED
      BY <2>1, <2>2
  <1>9. mine => before = "local"
    BY <1>4, <1>7 DEF Continues
  <1>10. PICK its : its = (gesture' = "local")
    OBVIOUS
  <1>11. CASE /\ before = "app" \/ (before = "none" /\ PressGoesToApp(ev))
              /\ gesture' = IF measured THEN "app" ELSE before
              /\ owed' = IF measured /\ "up" \in mask THEN owed \cup {b} ELSE owed
              /\ Take(Now)
    <2>1. ~mine
      BY <1>9, <1>11
    <2>2. SelectionKept(its) /\ selection' = selection /\ out'.scrolled = 0
      BY <2>1, <1>4, <1>11, TakesNothing
    <2>3. owed' \subseteq buttons' /\ (gesture' # "app" => owed' = {})
      BY <1>1, <1>6, <1>8, <1>11
    <2>4. Rest(its)
      BY <2>2, <2>3, <1>3, <1>6, <1>10, <1>11 DEF Rest
    <2>5. QED
      BY <2>2, <2>4, Closes
  <1>12. CASE /\ ~(before = "app" \/ (before = "none" /\ PressGoesToApp(ev)))
              /\ gesture' = IF b = "left" /\ before = "none" THEN "local" ELSE before
              /\ Take(MouseDown(Now, ev, "down" \in mask)) /\ owed' = owed
    <2>1. before \in {"none", "local"}
      BY <1>8, <1>12
    <2>2. PICK forced : forced = ("down" \in mask)
      OBVIOUS
    <2>3. PICK u : u = MouseDown(s, ev, forced)
      OBVIOUS
    <2>4. Take(u)
      BY <1>5, <1>12, <2>2, <2>3
    <2>5. mine => its
      BY <1>9, <1>10, <1>12
    <2>6. ev.button = "left" => its
      BY <1>3, <1>10, <1>12, <2>1
    <2>7. GoesOn(mine, its, ev)
      BY <2>5, <2>6 DEF GoesOn
    <2>8. Believed(s.ctl, s.engine, mine, dropped)
      BY <1>6
    <2>9. /\ Working(u) /\ Handles(s, u, view) /\ Steady(s, u)
          /\ Believed(u.ctl, u.engine, its, dropped)
      <3>1. Untouched(s)
        BY <1>6
      <3>2. QED
        BY <3>1, <2>7, <2>8, <2>3, DownHandles
    <2>10. PICK v : v = Scrolled(view, u.out.scrolled)
      OBVIOUS
    <2>11. v = view
      BY <2>9, <2>10, <1>6 DEF Steady
    <2>12. Handles(s, u, v)
      BY <2>9, <2>11
    <2>13. SelectionKept(its) /\ selection' = u.ctl /\ out' = u.out
      BY <2>9, <2>10, <2>12, <2>4, <1>5, Taken
    <2>14. owed' \subseteq buttons' /\ (gesture' # "app" => owed' = {})
      BY <1>1, <1>6, <1>8, <1>12
    <2>15. Rest(its)
      <3>1. selection'.amount = selection.amount /\ out'.scrolled = 0
        BY <2>9, <2>13, <1>6 DEF Steady
      <3>2. gesture' \in {"none", "app", "local"}
        BY <2>1, <1>12
      <3>3. selection'.amount # 0 => selection'.amount = DragScrollSpeed(pointer'[1])
        BY <3>1, <1>3, <1>6
      <3>4. its => gesture' = "local"
        BY <1>10
      <3>5. pointer' \in Int \X Int /\ measured' \in BOOLEAN
        BY <1>3, <1>6
      <3>6. QED
        BY <3>1, <3>2, <3>3, <3>4, <3>5, <2>14 DEF Rest
    <2>16. QED
      BY <2>13, <2>15, Closes
  <1>13. QED
    BY <1>3, <1>7, <1>11, <1>12 DEF Down

LEMMA ReleaseKeeps ==
  ASSUME PointerInv, ReleaseButton
  PROVE  PointerInv' /\ StepIsFelt
  <1>1. PICK b \in buttons, alt \in BOOLEAN, quick \in BOOLEAN :
          buttons' = buttons \ {b} /\ gesture # "none" /\ Up(b, alt, quick)
    BY DEF ReleaseButton
  <1>2. /\ gesture' = IF gesture = "app" /\ buttons \ {b} # {} THEN "app" ELSE "none"
        /\ owed' = owed \ {b} /\ pointer' = pointer /\ measured' = measured
        /\ Take(IF gesture = "local" THEN MouseUp(Now, alt, quick) ELSE Now)
    BY <1>1 DEF Up, ReleaseButton, Page
  <1>3. PICK mine, its : mine = (gesture = "local") /\ its = FALSE
    OBVIOUS
  <1>4. PICK s : s = Now
    OBVIOUS
  <1>5. /\ Untouched(s) /\ s.ctl = selection /\ s.engine = engine
        /\ Believed(selection, engine, mine, dropped)
        /\ pointer \in Int \X Int /\ measured \in BOOLEAN
        /\ gesture \in {"none", "app", "local"} /\ owed \subseteq buttons /\ (gesture # "app" => owed = {})
        /\ selection.amount # 0 => mine
    BY <1>3, <1>4, Given
  <1>6. /\ gesture' \in {"none", "app", "local"} /\ owed' \subseteq buttons' /\ (gesture' # "app" => owed' = {})
        /\ pointer' \in Int \X Int /\ measured' \in BOOLEAN
    BY <1>1, <1>2, <1>5
  <1>7. CASE gesture = "local"
    <2>1. PICK u : u = MouseUp(s, alt, quick)
      OBVIOUS
    <2>2. PICK v : v = Scrolled(view, u.out.scrolled)
      OBVIOUS
    <2>3. Untouched(s) /\ Believed(s.ctl, s.engine, mine, dropped)
      BY <1>5
    <2>4. /\ Working(u) /\ Handles(s, u, v) /\ u.out.scrolled = 0 /\ ~u.ctl.dragging
          /\ \A any : Believed(u.ctl, u.engine, any, dropped)
      BY <2>1, <2>3, UpHandles
    <2>5. Believed(u.ctl, u.engine, its, dropped)
      BY <2>4
    <2>6. Take(u)
      BY <1>2, <1>4, <1>7, <2>1
    <2>7. SelectionKept(its) /\ selection' = u.ctl /\ out' = u.out
      BY <1>4, <2>2, <2>4, <2>5, <2>6, Taken
    <2>8. u.ctl.amount = 0
      BY <2>4, <2>5 DEF Believed
    <2>9. Rest(its)
      BY <1>3, <1>6, <2>4, <2>7, <2>8 DEF Rest
    <2>10. QED
      BY <2>7, <2>9, Closes
  <1>8. CASE gesture # "local"
    <2>1. ~mine /\ Take(Now)
      BY <1>2, <1>3, <1>8
    <2>2. SelectionKept(its) /\ selection' = selection /\ out'.scrolled = 0
      BY <2>1, <1>3, TakesNothing
    <2>3. selection'.amount = 0
      BY <2>1, <2>2, <1>5
    <2>4. Rest(its)
      BY <1>3, <1>6, <2>2, <2>3 DEF Rest
    <2>5. QED
      BY <2>2, <2>4, Closes
  <1>9. QED
    BY <1>7, <1>8

LEMMA MoveKeeps ==
  ASSUME PointerInv, Move
  PROVE  PointerInv' /\ StepIsFelt
  <1>1. PICK p \in (-1..PaneRows) \X (0..Halves) :
          /\ pointer' = p
          /\ gesture' = IF gesture = "app" /\ buttons = {} THEN "none" ELSE gesture
          /\ Take(IF gesture = "local" THEN MouseMove(Now, p) ELSE Now)
    BY DEF Move
  <1>2. p[1] \in Int /\ p \in Int \X Int
    BY PointerAssumption
  <1>3. buttons' = buttons /\ owed' = owed /\ measured' = measured
    BY DEF Move, Page
  <1>4. PICK mine : mine = (gesture = "local")
    OBVIOUS
  <1>5. PICK s : s = Now
    OBVIOUS
  <1>6. /\ Untouched(s) /\ s.ctl = selection /\ s.engine = engine
        /\ Believed(selection, engine, mine, dropped) /\ Scrolled(view, 0) = view
        /\ pointer \in Int \X Int /\ measured \in BOOLEAN
        /\ gesture \in {"none", "app", "local"} /\ owed \subseteq buttons /\ (gesture # "app" => owed = {})
        /\ selection.amount # 0 => mine
    BY <1>4, <1>5, Given
  <1>7. /\ gesture' \in {"none", "app", "local"} /\ owed' \subseteq buttons' /\ (gesture' # "app" => owed' = {})
        /\ pointer' \in Int \X Int /\ measured' \in BOOLEAN
    BY <1>1, <1>2, <1>3, <1>6
  <1>8. mine => gesture' = "local"
    BY <1>1, <1>4
  <1>9. CASE gesture = "local"
    <2>1. PICK u : u = MouseMove(s, p)
      OBVIOUS
    <2>2. PICK v : v = Scrolled(view, u.out.scrolled)
      OBVIOUS
    <2>3. Untouched(s) /\ Believed(s.ctl, s.engine, mine, dropped)
      BY <1>6
    <2>4. /\ Working(u) /\ Handles(s, u, view) /\ u.out.scrolled = 0 /\ Believed(u.ctl, u.engine, mine, dropped)
          /\ Follows(u, p)
      BY <2>1, <2>3, <1>2, MoveHandles
    <2>5. v = view
      BY <2>2, <2>4, <1>6
    <2>6. Handles(s, u, v)
      BY <2>4, <2>5
    <2>7. Take(u)
      BY <1>1, <1>5, <1>9, <2>1
    <2>8. SelectionKept(mine) /\ selection' = u.ctl /\ out' = u.out
      BY <1>5, <2>2, <2>4, <2>6, <2>7, Taken
    <2>9. Rest(mine)
      BY <1>1, <1>7, <1>8, <2>4, <2>8 DEF Rest, Follows
    <2>10. QED
      BY <2>8, <2>9, Closes
  <1>10. CASE gesture # "local"
    <2>1. ~mine /\ Take(Now)
      BY <1>1, <1>4, <1>10
    <2>2. SelectionKept(mine) /\ selection' = selection /\ out'.scrolled = 0
      BY <2>1, <1>4, TakesNothing
    <2>3. selection'.amount = 0
      BY <2>1, <2>2, <1>6
    <2>4. Rest(mine)
      BY <1>7, <1>8, <2>2, <2>3 DEF Rest
    <2>5. QED
      BY <2>2, <2>4, Closes
  <1>11. QED
    BY <1>9, <1>10

LEMMA TickKeeps ==
  ASSUME PointerInv, Tick
  PROVE  PointerInv' /\ StepIsFelt
  <1>1. /\ gesture = "local" /\ gesture' = gesture /\ buttons' = buttons /\ owed' = owed
        /\ pointer' = pointer /\ measured' = measured /\ Take(TickOnce(Now))
    BY DEF Tick, Page
  <1>2. PICK mine : mine = (gesture = "local")
    OBVIOUS
  <1>3. PICK s : s = Now
    OBVIOUS
  <1>4. /\ Untouched(s) /\ s.ctl = selection /\ s.engine = engine
        /\ Believed(selection, engine, mine, dropped)
        /\ pointer \in Int \X Int /\ measured \in BOOLEAN
        /\ gesture \in {"none", "app", "local"} /\ owed \subseteq buttons /\ (gesture # "app" => owed = {})
        /\ selection.amount # 0 => selection.amount = DragScrollSpeed(pointer[1])
    BY <1>2, <1>3, Given
  <1>5. PICK u : u = TickOnce(s)
    OBVIOUS
  <1>6. PICK v : v = Scrolled(view, u.out.scrolled)
    OBVIOUS
  <1>7. Untouched(s) /\ Believed(s.ctl, s.engine, mine, dropped)
    BY <1>4
  <1>8. Working(u) /\ Handles(s, u, v) /\ Believed(u.ctl, u.engine, mine, dropped) /\ Scrolls(s, u)
    BY <1>5, <1>6, <1>7, TickHandles
  <1>9. Take(u)
    BY <1>1, <1>3, <1>5
  <1>10. SelectionKept(mine) /\ selection' = u.ctl /\ out' = u.out
    BY <1>3, <1>6, <1>8, <1>9, Taken
  <1>11. selection'.amount # 0 => selection'.amount = DragScrollSpeed(pointer'[1])
    BY <1>1, <1>4, <1>8, <1>10 DEF Scrolls
  <1>12. out'.scrolled # 0 => measured /\ (out'.scrolled < 0 <=> pointer[1] < 0) /\ pointer[1] \notin 0..(PaneRows - 1)
    <2>1. SUFFICES ASSUME out'.scrolled # 0
                   PROVE  measured /\ (out'.scrolled < 0 <=> pointer[1] < 0) /\ pointer[1] \notin 0..(PaneRows - 1)
      OBVIOUS
    <2>2. measured /\ out'.scrolled = DragScrollSpeed(pointer[1]) /\ DragScrollSpeed(pointer[1]) # 0
      BY <2>1, <1>4, <1>8, <1>10 DEF Scrolls
    <2>3. PICK row : row = pointer[1]
      OBVIOUS
    <2>4. row \in Int
      BY <2>3, <1>4
    <2>5. /\ DragScrollSpeed(row) # 0 => row \notin 0..(PaneRows - 1)
          /\ DragScrollSpeed(row) < 0 <=> row < 0
      BY <2>4, PointerAssumption DEF DragScrollSpeed
    <2>6. QED
      BY <2>2, <2>3, <2>5
  <1>13. Rest(mine)
    BY <1>1, <1>2, <1>4, <1>11, <1>12 DEF Rest
  <1>14. QED
    BY <1>10, <1>13, Closes

\* A key typed, and select all: a handler in the gesture that was, which does not scroll.
LEMMA InPlace ==
  ASSUME PointerInv, NEW u, Working(u), NEW s, s = Now, Handles(s, u, view), Steady(s, u), Take(u),
         NEW mine, mine = (gesture = "local"), Believed(u.ctl, u.engine, mine, dropped),
         gesture' = gesture, buttons' = buttons, owed' = owed, pointer' = pointer, measured' = measured
  PROVE  PointerInv' /\ StepIsFelt
  <1>1. PICK v : v = Scrolled(view, u.out.scrolled)
    OBVIOUS
  <1>2. /\ s.ctl = selection /\ Scrolled(view, 0) = view /\ pointer \in Int \X Int /\ measured \in BOOLEAN
        /\ gesture \in {"none", "app", "local"} /\ owed \subseteq buttons /\ (gesture # "app" => owed = {})
        /\ selection.amount # 0 => selection.amount = DragScrollSpeed(pointer[1])
    BY Given
  <1>3. v = view
    BY <1>1, <1>2 DEF Steady
  <1>4. Handles(s, u, v)
    BY <1>3
  <1>5. SelectionKept(mine) /\ selection' = u.ctl /\ out' = u.out
    BY <1>1, <1>4, Taken
  <1>6. Rest(mine)
    BY <1>2, <1>5 DEF Rest, Steady
  <1>7. QED
    BY <1>5, <1>6, Closes

LEMMA TypeKeeps ==
  ASSUME PointerInv, Type
  PROVE  PointerInv' /\ StepIsFelt
  <1>1. /\ gesture' = gesture /\ buttons' = buttons /\ owed' = owed /\ pointer' = pointer /\ measured' = measured
        /\ Take(ClearSelection(Now))
    BY DEF Type, Page
  <1>2. PICK mine, s : mine = (gesture = "local") /\ s = Now
    OBVIOUS
  <1>3. Untouched(s) /\ Believed(s.ctl, s.engine, mine, dropped)
    BY <1>2, Given
  <1>4. PICK u : u = ClearSelection(s)
    OBVIOUS
  <1>5. Working(u) /\ Handles(s, u, view) /\ Steady(s, u) /\ Believed(u.ctl, u.engine, mine, dropped)
    BY <1>3, <1>4, ClearHandles
  <1>6. Take(u)
    BY <1>1, <1>2, <1>4
  <1>7. QED
    BY <1>1, <1>2, <1>5, <1>6, InPlace

LEMMA ChooseAllKeeps ==
  ASSUME PointerInv, ChooseAll
  PROVE  PointerInv' /\ StepIsFelt
  <1>1. /\ gesture' = gesture /\ buttons' = buttons /\ owed' = owed /\ pointer' = pointer /\ measured' = measured
        /\ Take(SelectAll(Now))
    BY DEF ChooseAll, Page
  <1>2. PICK mine, s : mine = (gesture = "local") /\ s = Now
    OBVIOUS
  <1>3. Untouched(s) /\ Believed(s.ctl, s.engine, mine, dropped)
    BY <1>2, Given
  <1>4. PICK u : u = SelectAll(s)
    OBVIOUS
  <1>5. Working(u) /\ Handles(s, u, view) /\ Steady(s, u) /\ Believed(u.ctl, u.engine, mine, dropped)
    BY <1>3, <1>4, AllHandles
  <1>6. Take(u)
    BY <1>1, <1>2, <1>4
  <1>7. QED
    BY <1>1, <1>2, <1>5, <1>6, InPlace

\* What happens around the gesture: a release nobody hears, the pane hidden, the mode, the view, the engine.
LEMMA AroundKeeps ==
  ASSUME PointerInv, ReleaseUnheard \/ HideOrShow \/ SetMask \/ ScrollView \/ EngineDrops
  PROVE  PointerInv' /\ StepIsFelt
  <1>1. Silent.scrolled = 0
    BY DEF Silent
  <1>2. CASE ReleaseUnheard
    BY <1>1, <1>2 DEF ReleaseUnheard, PointerInv, StepIsFelt
  <1>3. CASE HideOrShow
    BY <1>1, <1>3 DEF HideOrShow, Still, PointerInv, StepIsFelt
  <1>4. CASE SetMask
    BY <1>1, <1>4 DEF SetMask, Still, PointerInv, StepIsFelt
  <1>5. CASE ScrollView
    BY <1>1, <1>5 DEF ScrollView, Still, PointerInv, StepIsFelt
  <1>6. CASE EngineDrops
    BY <1>1, <1>6 DEF EngineDrops, Still, PointerInv, StepIsFelt, Selected, Believed
  <1>7. QED
    BY <1>2, <1>3, <1>4, <1>5, <1>6

LEMMA PointerBegins ==
  ASSUME PointerInit
  PROVE  PointerInv
  <1>1. PICK c : c = [dragging |-> FALSE, hasSelection |-> FALSE, amount |-> 0, last |-> 0, dragged |-> FALSE,
                      anchor |-> NoCell, reported |-> NoCell]
    OBVIOUS
  <1>2. selection = c
    BY <1>1 DEF PointerInit
  <1>3. Controller(c) /\ ~c.dragging /\ ~c.hasSelection /\ c.amount = 0 /\ c.anchor = NoCell /\ c.reported = NoCell
    BY <1>1 DEF Controller
  <1>4. /\ engine = NoCell /\ view \in 0..Bottom /\ pointer \in Int \X Int /\ measured \in BOOLEAN
        /\ stale \in BOOLEAN /\ dropped \in BOOLEAN /\ gesture \in {"none", "app", "local"} /\ owed = {}
    <2>1. view \in 0..Bottom
      BY PointerAssumption DEF PointerInit
    <2>2. pointer \in Int \X Int
      BY DEF PointerInit
    <2>3. QED
      BY <2>1, <2>2 DEF PointerInit
  <1>5. Selected(engine) /\ Announced(c, engine, view)
    BY <1>3, <1>4 DEF Selected, Announced
  <1>6. Believed(c, engine, gesture = "local", dropped)
    BY <1>3, <1>4 DEF Believed
  <1>7. QED
    BY <1>2, <1>3, <1>4, <1>5, <1>6 DEF PointerInv

LEMMA PointerKeeps ==
  ASSUME PointerInv, PointerNext
  PROVE  PointerInv' /\ StepIsFelt
  BY PressKeeps, ReleaseKeeps, MoveKeeps, TickKeeps, TypeKeeps, ChooseAllKeeps, AroundKeeps DEF PointerNext

\* PointerRouter and SelectionController, for every pane, every history and every set of events an
\* application asks for: a drag has a selection and ends with its release, what is believed selected
\* is, a change is announced, and the view is scrolled towards the pointer only.
THEOREM PointerFollowed == PointerSpec => PointerIsFollowed
  <1>1. PointerInit => PointerInv
    BY PointerBegins
  <1>2. PointerInv /\ [PointerNext]_pointerVars => PointerInv'
    <2>1. CASE PointerInv /\ PointerNext
      BY <2>1, PointerKeeps
    <2>2. CASE PointerInv /\ UNCHANGED pointerVars
      BY <2>2 DEF PointerInv, pointerVars
    <2>3. QED
      BY <2>1, <2>2
  <1>3. PointerInv /\ [PointerNext]_pointerVars => [gestures' # gestures => StepIsFelt]_pointerVars
    BY PointerKeeps
  <1>4. PointerInv => GesturesAreWhole /\ ReleasesAreTold
    BY DEF PointerInv, Believed, GesturesAreWhole, ReleasesAreTold
  <1>5. QED
    BY <1>1, <1>2, <1>3, <1>4, PTL DEF PointerSpec, PointerIsFollowed, DragsAreFollowed
-----------------------------------------------------------------------------
(* Composition: the tasks that wait, what is left of a keystroke, and the    *)
(* phase a commit is in.                                                     *)

ImeText == Seq(Int)
TaskKinds == [do : {"end", "clear"}] \cup [do : {"read"}, start : Nat, suffix : ImeText] \cup [do : {"diff"}, old : ImeText]
\* A keystroke not dispatched at all, and the rest of one.
FreshIme == {<<"ime", "start", "update">>, <<"ime", "insert">>, <<"ime", "delete">>, <<"ime", "update">>, <<"ime", "end">>,
             <<"ime", "end", "start", "update">>, <<"ime", "end", "other">>}
Ending == {<<"end">>, <<"end", "start", "update">>, <<"end", "other">>}
Rests == FreshIme \cup Ending \cup {<<>>, <<"start", "update">>, <<"insert">>, <<"delete">>, <<"other">>, <<"update">>, <<"modifier">>}
Inserting == {<<"ime", "insert">>, <<"insert">>}
Deleting == {<<"ime", "delete">>, <<"delete">>}

Waits(ts, what) == \E t \in ToSet(ts) : t.do = what
Pending(ts) == ts # <<>> /\ Head(ts).do = "diff"

\* Of already the proof says only what the phases below do.
ControllerOf(already) ==
  [composing : BOOLEAN, sending : BOOLEAN, start : Nat, end : Nat, suffix : ImeText, already : {already}, pending : BOOLEAN]

\* The types; the caret is in the text.
ImeTyped ==
  /\ area \in [value : ImeText, caret : Nat, from : Int] /\ area.caret <= Len(area.value)
  /\ ime \in ControllerOf(ime.already)
  /\ tasks \in Seq(TaskKinds) /\ burst \in Rests /\ sent \in ImeText /\ committed \in ImeText /\ strokes \in Nat

\* What may wait when: a plain edit is told before anything else, an update before its end, a commit until it
\* is read; and the browser runs the tasks of a keystroke before the next.
ImeQueue ==
  /\ ime.pending <=> Pending(tasks)
  /\ tasks # <<>> => ~Waits(Tail(tasks), "diff")
  /\ ime.sending => Waits(tasks, "read") /\ ~Waits(tasks, "diff")
  /\ Waits(tasks, "end") => ime.composing /\ burst = <<>>
  /\ burst \in FreshIme \cup {<<"modifier">>} => tasks = <<>>
  /\ burst \in Ending => \A t \in ToSet(tasks) : t.do = "clear"
  /\ Waits(tasks, "diff") => burst \in {<<>>, <<"update">>, <<"start", "update">>, <<"insert">>, <<"delete">>}

\* The browser's composition and the controller's are one, or there is none.
Open == /\ ime.composing /\ area.from = ime.start /\ ime.start <= area.caret /\ ime.already = <<>>
        /\ ime.suffix = Substring(area.value, area.caret, Len(area.value))
Shut == ~ime.composing /\ area.from = NoStart
\* Nothing composed, nothing to be read; a plain edit waits to be told.
Plain ==
  /\ Shut /\ ~ime.sending
  /\ burst \in {<<>>, <<"ime", "start", "update">>, <<"start", "update">>, <<"other">>} \cup Inserting \cup Deleting
  /\ ~Pending(tasks) => committed = sent
  /\ Pending(tasks) => DiffText(Head(tasks)) \in ImeText /\ committed = sent \o DiffText(Head(tasks))
  /\ Pending(tasks) /\ burst # <<>> => Head(tasks).old = area.value
  /\ burst \in Inserting \cup Deleting => area.caret = Len(area.value)
  /\ burst \in Deleting => area.caret > 0
  /\ burst \in {<<"insert">>, <<"delete">>} => Pending(tasks)
\* A composition open, none before it to be read.
Syllable ==
  /\ Open /\ ~ime.sending /\ committed = sent
  /\ burst \in {<<>>, <<"update">>, <<"ime", "update">>, <<"ime", "end">>, <<"ime", "end", "start", "update">>, <<"ime", "end", "other">>,
                <<"modifier">>, <<"other">>} \cup Ending
  /\ \/ ime.end = area.caret
     \/ burst \in {<<"update">>, <<"ime", "update">>, <<"ime", "end", "start", "update">>, <<"end", "start", "update">>}
     \/ burst = <<>> /\ Waits(tasks, "end")
\* A composition closed and to be read.
Ended ==
  /\ Shut /\ ime.sending /\ ime.already = <<>>
  /\ ime.start <= area.caret /\ committed = sent \o Substring(area.value, ime.start, area.caret)
  /\ burst \in {<<>>, <<"start", "update">>, <<"other">>}
  /\ burst = <<"other">> => ime.end = area.caret
  /\ \A t \in ToSet(tasks) : t.do = "read" => t.start = ime.start /\ t.suffix = Substring(area.value, area.caret, Len(area.value))
\* The next one open before the last one is read.
Following ==
  /\ Open /\ ime.sending
  /\ burst \in {<<>>, <<"update">>}
  /\ burst = <<>> => ime.end = area.caret \/ Waits(tasks, "end")
  /\ \A t \in ToSet(tasks) : t.do = "read" =>
       t.start <= ime.start /\ committed = sent \o Substring(area.value, t.start, ime.start)
ImeInv == ImeTyped /\ ImeQueue /\ (Plain \/ Syllable \/ Ended \/ Following)
-----------------------------------------------------------------------------
(* Composition: texts cut, joined and edited.                                *)

LEMMA CutIs ==
  ASSUME NEW v \in Seq(Int), NEW i \in Nat, NEW j \in Nat, i <= j, j <= Len(v)
  PROVE  /\ Substring(v, i, j) \in Seq(Int) /\ Len(Substring(v, i, j)) = j - i
         /\ \A k \in 1..(j - i) : Substring(v, i, j)[k] = v[i + k]
  <1>1. Len(v) \in Nat /\ i <= Len(v)
    OBVIOUS
  <1>2. Lesser(i, Len(v)) = i /\ Lesser(j, Len(v)) = j /\ Lesser(i, j) = i /\ Larger(i, j) = j
    BY <1>1 DEF Lesser, Larger
  <1>3. Substring(v, i, j) = SubSeq(v, i + 1, j)
    BY <1>2 DEF Substring
  <1>4. \A k \in (i + 1)..j : v[k] \in Int
    BY <1>1
  <1>5. /\ SubSeq(v, i + 1, j) \in Seq(Int) /\ Len(SubSeq(v, i + 1, j)) = IF i + 1 <= j THEN j - (i + 1) + 1 ELSE 0
        /\ \A k \in 1..(j - (i + 1) + 1) : SubSeq(v, i + 1, j)[k] = v[(i + 1) + k - 1]
    BY <1>4, SubSeqProperties
  <1>6. (IF i + 1 <= j THEN j - (i + 1) + 1 ELSE 0) = j - i /\ j - (i + 1) + 1 = j - i
    OBVIOUS
  <1>7. \A k \in 1..(j - i) : (i + 1) + k - 1 = i + k
    OBVIOUS
  <1>8. QED
    BY <1>3, <1>5, <1>6, <1>7

\* y stands in w after n.
Piece(w, n, y) == \A k \in 1..Len(y) : w[n + k] = y[k]

LEMMA PieceIs ==
  ASSUME NEW w \in Seq(Int), NEW y \in Seq(Int), NEW n \in Nat, NEW to \in Nat, to = n + Len(y), to <= Len(w), Piece(w, n, y)
  PROVE  Substring(w, n, to) = y
  <1>1. Len(y) \in Nat /\ n <= to /\ to - n = Len(y)
    OBVIOUS
  <1>2. PICK z : z = Substring(w, n, to)
    OBVIOUS
  <1>3. z \in Seq(Int) /\ Len(z) = to - n /\ \A k \in 1..(to - n) : z[k] = w[n + k]
    BY <1>1, <1>2, CutIs
  <1>4. Len(z) = Len(y) /\ \A k \in 1..Len(z) : z[k] = y[k]
    BY <1>1, <1>3 DEF Piece
  <1>5. z = y
    BY <1>3, <1>4, SeqEqual
  <1>6. QED
    BY <1>2, <1>5

LEMMA CutStands ==
  ASSUME NEW v \in Seq(Int), NEW i \in Nat, NEW j \in Nat, i <= j, j <= Len(v)
  PROVE  Piece(v, i, Substring(v, i, j))
  BY CutIs DEF Piece

LEMMA TextsJoined ==
  ASSUME NEW p \in Seq(Int), NEW x \in Seq(Int)
  PROVE  p \o x \in Seq(Int) /\ Len(p \o x) = Len(p) + Len(x) /\ Piece(p \o x, 0, p) /\ Piece(p \o x, Len(p), x)
  <1>0. PICK w : w = p \o x
    OBVIOUS
  <1>1. w \in Seq(Int) /\ Len(w) = Len(p) + Len(x) /\ \A i \in 1..(Len(p) + Len(x)) : w[i] = IF i <= Len(p) THEN p[i] ELSE x[i - Len(p)]
    BY <1>0, ConcatProperties
  <1>2. Len(p) \in Nat /\ Len(x) \in Nat
    OBVIOUS
  <1>3. ASSUME NEW k \in 1..Len(p) PROVE w[0 + k] = p[k]
    <2>1. k \in 1..(Len(p) + Len(x)) /\ k <= Len(p) /\ 0 + k = k
      BY <1>2
    <2>2. QED
      BY <1>1, <2>1
  <1>4. ASSUME NEW k \in 1..Len(x) PROVE w[Len(p) + k] = x[k]
    <2>1. PICK i \in Int : i = Len(p) + k
      BY <1>2
    <2>2. i \in 1..(Len(p) + Len(x)) /\ ~(i <= Len(p)) /\ i - Len(p) = k
      BY <1>2, <2>1
    <2>3. w[i] = x[i - Len(p)]
      BY <1>1, <2>2
    <2>4. QED
      BY <2>1, <2>2, <2>3
  <1>5. QED
    BY <1>0, <1>1, <1>3, <1>4 DEF Piece

\* A text with a piece of it replaced by another.
Splice(v, i, x, j) == Substring(v, 0, i) \o x \o Substring(v, j, Len(v))

LEMMA Spliced ==
  ASSUME NEW v \in Seq(Int), NEW i \in Nat, NEW j \in Nat, i <= j, j <= Len(v), NEW x \in Seq(Int),
         NEW l \in Nat, l = i + Len(x)
  PROVE  LET w == Splice(v, i, x, j) IN
         /\ w \in Seq(Int) /\ l <= Len(w) /\ Len(w) = l + (Len(v) - j)
         /\ Substring(w, i, l) = x
         /\ Substring(w, l, Len(w)) = Substring(v, j, Len(v))
         /\ \A k \in 0..i : Substring(w, k, i) = Substring(v, k, i)
  <1>a. PICK w : w = Splice(v, i, x, j)
    OBVIOUS
  <1>0. Len(v) \in Nat /\ Len(x) \in Nat /\ i <= Len(v) /\ l \in Nat
    OBVIOUS
  <1>1. PICK p \in Seq(Int) : p = Substring(v, 0, i) /\ Len(p) = i /\ Piece(v, 0, p)
    <2>1. Substring(v, 0, i) \in Seq(Int) /\ Len(Substring(v, 0, i)) = i - 0 /\ Piece(v, 0, Substring(v, 0, i))
      BY <1>0, CutIs, CutStands
    <2>2. QED
      BY <2>1
  <1>2. PICK n \in Nat : n = Len(v)
    BY <1>0
  <1>3. PICK q \in Seq(Int) : q = Substring(v, j, n) /\ Len(q) = n - j
    <2>1. j <= n /\ n <= Len(v)
      BY <1>2
    <2>2. Substring(v, j, n) \in Seq(Int) /\ Len(Substring(v, j, n)) = n - j
      BY <2>1, CutIs
    <2>3. QED
      BY <2>2
  <1>4. PICK px \in Seq(Int) : px = p \o x /\ Len(px) = l /\ Piece(px, 0, p) /\ Piece(px, i, x)
    <2>1. p \o x \in Seq(Int) /\ Len(p \o x) = Len(p) + Len(x) /\ Piece(p \o x, 0, p) /\ Piece(p \o x, Len(p), x)
      BY TextsJoined
    <2>2. QED
      BY <1>1, <2>1
  <1>5. w \in Seq(Int) /\ Len(w) = l + Len(q) /\ Piece(w, 0, px) /\ Piece(w, l, q)
    <2>1. px \o q \in Seq(Int) /\ Len(px \o q) = Len(px) + Len(q) /\ Piece(px \o q, 0, px) /\ Piece(px \o q, Len(px), q)
      BY TextsJoined
    <2>2. w = px \o q
      BY <1>a, <1>1, <1>2, <1>3, <1>4 DEF Splice
    <2>3. QED
      BY <1>4, <2>1, <2>2
  <1>6. PICK m \in Nat : m = Len(w) /\ m = l + Len(q) /\ l <= m
    BY <1>0, <1>5
  <1>7. Piece(w, i, x)
    <2>1. SUFFICES ASSUME NEW k \in 1..Len(x) PROVE w[i + k] = x[k]
      BY DEF Piece
    <2>2. PICK e \in Nat : e = i + k /\ e \in 1..l
      BY <1>0
    <2>3. e \in 1..Len(px) /\ 0 + e = e
      BY <1>4, <2>2
    <2>4. w[0 + e] = px[e]
      BY <1>5, <2>3 DEF Piece
    <2>5. px[i + k] = x[k]
      BY <1>4 DEF Piece
    <2>6. QED
      BY <2>2, <2>3, <2>4, <2>5
  <1>8. Substring(w, i, l) = x
    <2>1. w \in Seq(Int) /\ l \in Nat /\ l = i + Len(x) /\ l <= Len(w)
      BY <1>0, <1>5, <1>6
    <2>2. QED
      BY <1>7, <2>1, PieceIs
  <1>9. Substring(w, l, m) = q
    <2>1. w \in Seq(Int) /\ l \in Nat /\ m \in Nat /\ m = l + Len(q) /\ m <= Len(w) /\ Piece(w, l, q)
      BY <1>0, <1>5, <1>6
    <2>2. QED
      BY <2>1, PieceIs
  <1>10. ASSUME NEW k \in 0..i PROVE Substring(w, k, i) = Substring(v, k, i)
    <2>1. PICK y \in Seq(Int) : y = Substring(v, k, i) /\ Len(y) = i - k /\ Piece(v, k, y)
      <3>1. k \in Nat /\ k <= i /\ i <= Len(v)
        BY <1>0
      <3>2. Substring(v, k, i) \in Seq(Int) /\ Len(Substring(v, k, i)) = i - k /\ Piece(v, k, Substring(v, k, i))
        BY <3>1, CutIs, CutStands
      <3>3. QED
        BY <3>2
    <2>2. ASSUME NEW h \in 1..Len(y) PROVE w[k + h] = y[h]
      <3>1. PICK e \in Nat : e = k + h /\ e \in 1..i /\ 0 + e = e
        BY <2>1
      <3>2. e \in 1..Len(p) /\ e \in 1..Len(px)
        BY <1>0, <1>1, <1>4, <3>1
      <3>3. w[0 + e] = px[e] /\ px[0 + e] = p[e] /\ v[0 + e] = p[e]
        BY <1>1, <1>4, <1>5, <3>2 DEF Piece
      <3>4. v[k + h] = y[h]
        BY <2>1 DEF Piece
      <3>5. QED
        BY <3>1, <3>3, <3>4
    <2>3. Piece(w, k, y)
      BY <2>2 DEF Piece
    <2>4. k \in Nat /\ i = k + Len(y) /\ i <= Len(w)
      BY <1>0, <1>6, <2>1
    <2>5. w \in Seq(Int) /\ i \in Nat
      BY <1>5
    <2>6. Substring(w, k, i) = y
      BY <2>1, <2>3, <2>4, <2>5, PieceIs
    <2>7. QED
      BY <2>1, <2>6
  <1>11. QED
    BY <1>a, <1>0, <1>2, <1>3, <1>5, <1>6, <1>8, <1>9, <1>10

LEMMA CutNothing ==
  ASSUME NEW v \in Seq(Int), NEW i \in 0..Len(v)
  PROVE  Substring(v, i, i) = <<>>
  <1>1. i \in Nat /\ Len(v) \in Nat /\ i - i = 0
    OBVIOUS
  <1>2. PICK z : z = Substring(v, i, i)
    OBVIOUS
  <1>3. z \in Seq(Int) /\ Len(z) = 0
    BY <1>1, <1>2, CutIs
  <1>4. z = <<>>
    BY <1>3, EmptySeq
  <1>5. QED
    BY <1>2, <1>4

LEMMA CutAll ==
  ASSUME NEW v \in Seq(Int), NEW n, n = Len(v)
  PROVE  Substring(v, 0, n) = v
  <1>1. n \in Nat /\ n = 0 + Len(v)
    OBVIOUS
  <1>2. Piece(v, 0, v)
    BY DEF Piece
  <1>3. QED
    BY <1>1, <1>2, PieceIs

\* newValue.replace(oldValue, ""), of a text that goes on.
LEMMA WithoutStart ==
  ASSUME NEW v \in Seq(Int), NEW x \in Seq(Int)
  PROVE  WithoutFirst(v \o x, v) = x
  <1>0. PICK w : w = v \o x
    OBVIOUS
  <1>1. w \in Seq(Int) /\ Len(w) = Len(v) + Len(x) /\ Piece(w, 0, v) /\ Piece(w, Len(v), x)
    BY <1>0, TextsJoined
  <1>2. PICK n \in Nat : n = Len(v)
    OBVIOUS
  <1>3. PICK m \in Nat : m = Len(w) /\ n <= m /\ Len(x) = m - n /\ m = n + Len(x)
    BY <1>1, <1>2
  <1>4. PICK at : at = {i \in 0..Len(w) : Substring(w, i, i + Len(v)) = v /\ i + Len(v) <= Len(w)}
    OBVIOUS
  <1>5. Substring(w, 0, n) = v
    BY <1>1, <1>2, <1>3, PieceIs
  <1>6. Substring(w, n, m) = x
    BY <1>1, <1>2, <1>3, PieceIs
  <1>7. 0 \in at /\ at \in SUBSET Nat
    <2>1. 0 + Len(v) = n /\ 0 \in 0..Len(w) /\ 0..Len(w) \in SUBSET Nat
      BY <1>2, <1>3
    <2>2. QED
      BY <1>2, <1>3, <1>4, <1>5, <2>1
  <1>8. PICK c : c = CHOOSE i \in at : \A j \in at : i <= j
    OBVIOUS
  <1>9. \E i \in at : \A j \in at : i <= j
    BY <1>7
  <1>10. c \in at /\ \A j \in at : c <= j
    BY <1>8, <1>9
  <1>11. c = 0 /\ c + Len(v) = n
    BY <1>2, <1>7, <1>10
  <1>12. Substring(w, 0, 0) = <<>>
    <2>1. 0 \in 0..Len(w)
      BY <1>3
    <2>2. QED
      BY <1>1, <2>1, CutNothing
  <1>13. WithoutFirst(w, v) = Substring(w, 0, c) \o Substring(w, c + Len(v), Len(w))
    BY <1>7, <1>4, <1>8 DEF WithoutFirst
  <1>14. WithoutFirst(w, v) = <<>> \o x
    BY <1>3, <1>6, <1>11, <1>12, <1>13
  <1>15. QED
    BY <1>0, <1>14, ConcatEmptySeq

-----------------------------------------------------------------------------
(* Composition: the queue of tasks, and a dispatched event.                  *)

LEMMA WaitsOne ==
  ASSUME NEW ts, NEW t \in ToSet(ts), NEW what, t.do = what
  PROVE  Waits(ts, what)
  BY DEF Waits

LEMMA TaskTail ==
  ASSUME NEW ts \in Seq(TaskKinds), ts # <<>>
  PROVE  /\ Tail(ts) \in Seq(TaskKinds) /\ Head(ts) \in TaskKinds /\ Head(ts) \in ToSet(ts) /\ ToSet(ts) \subseteq TaskKinds
         /\ ToSet(ts) = {Head(ts)} \cup ToSet(Tail(ts))
         /\ Tail(ts) # <<>> => Head(Tail(ts)) \in ToSet(Tail(ts))
  <1>1. Len(ts) \in Nat /\ Len(ts) > 0 /\ DOMAIN ts = 1..Len(ts) /\ Head(ts) = ts[1] /\ \A k \in 1..Len(ts) : ts[k] \in TaskKinds
    OBVIOUS
  <1>2. PICK r \in Seq(TaskKinds) : r = Tail(ts) /\ Len(r) = Len(ts) - 1 /\ \A k \in 1..Len(r) : r[k] = ts[k + 1]
    <2>1. Tail(ts) \in Seq(TaskKinds) /\ Len(Tail(ts)) = Len(ts) - 1 /\ \A k \in 1..Len(Tail(ts)) : Tail(ts)[k] = ts[k + 1]
      BY HeadTailProperties
    <2>2. QED
      BY <2>1
  <1>2a. DOMAIN r = 1..Len(r)
    OBVIOUS
  <1>3. ASSUME NEW t \in ToSet(ts) PROVE t \in TaskKinds /\ (t = Head(ts) \/ t \in ToSet(r))
    <2>1. PICK k \in 1..Len(ts) : t = ts[k]
      BY <1>1 DEF ToSet
    <2>2. CASE k = 1
      BY <1>1, <2>1, <2>2
    <2>3. CASE k # 1
      <3>1. PICK j \in Int : j = k - 1
        BY <1>1
      <3>2. j \in 1..Len(r) /\ j + 1 = k
        BY <1>1, <1>2, <2>3, <3>1
      <3>3. r[j] = ts[k]
        BY <1>2, <3>2
      <3>4. QED
        BY <1>1, <1>2a, <2>1, <3>2, <3>3 DEF ToSet
    <2>4. QED
      BY <2>2, <2>3
  <1>4. ASSUME NEW t \in ToSet(r) PROVE t \in ToSet(ts)
    <2>1. PICK k \in 1..Len(r) : t = r[k]
      BY <1>2a DEF ToSet
    <2>2. r[k] = ts[k + 1] /\ k + 1 \in 1..Len(ts)
      BY <1>1, <1>2
    <2>3. QED
      BY <1>1, <2>1, <2>2 DEF ToSet
  <1>5. Head(ts) \in ToSet(ts)
    BY <1>1 DEF ToSet
  <1>6. r # <<>> => Head(r) \in ToSet(r)
    <2>1. SUFFICES ASSUME r # <<>> PROVE Head(r) \in ToSet(r)
      OBVIOUS
    <2>2. Len(r) > 0 /\ Head(r) = r[1]
      BY <1>2, <2>1
    <2>3. 1 \in 1..Len(r)
      BY <1>2, <2>2
    <2>4. QED
      BY <1>2a, <2>2, <2>3 DEF ToSet
  <1>7. QED
    BY <1>1, <1>2, <1>3, <1>4, <1>5, <1>6

LEMMA TailOfJoin ==
  ASSUME NEW S, NEW ts \in Seq(S), NEW us \in Seq(S), ts # <<>>
  PROVE  ts \o us # <<>> /\ Head(ts \o us) = Head(ts) /\ Tail(ts \o us) = Tail(ts) \o us
  <1>1. PICK w \in Seq(S) : w = ts \o us /\ Len(w) = Len(ts) + Len(us) /\ \A i \in 1..(Len(ts) + Len(us)) : w[i] = IF i <= Len(ts) THEN ts[i] ELSE us[i - Len(ts)]
    <2>1. ts \o us \in Seq(S) /\ Len(ts \o us) = Len(ts) + Len(us) /\ \A i \in 1..(Len(ts) + Len(us)) : (ts \o us)[i] = IF i <= Len(ts) THEN ts[i] ELSE us[i - Len(ts)]
      BY ConcatProperties
    <2>2. QED
      BY <2>1
  <1>2. Len(ts) \in Nat /\ Len(us) \in Nat /\ Len(ts) > 0 /\ w # <<>>
    BY <1>1
  <1>3. Head(w) = w[1] /\ Head(ts) = ts[1] /\ w[1] = ts[1]
    BY <1>1, <1>2
  <1>4. PICK r \in Seq(S) : r = Tail(ts) /\ Len(r) = Len(ts) - 1 /\ \A k \in 1..Len(r) : r[k] = ts[k + 1]
    <2>1. Tail(ts) \in Seq(S) /\ Len(Tail(ts)) = Len(ts) - 1 /\ \A k \in 1..Len(Tail(ts)) : Tail(ts)[k] = ts[k + 1]
      BY HeadTailProperties
    <2>2. QED
      BY <2>1
  <1>5. PICK v \in Seq(S) : v = Tail(w) /\ Len(v) = Len(w) - 1 /\ \A k \in 1..Len(v) : v[k] = w[k + 1]
    <2>1. Tail(w) \in Seq(S) /\ Len(Tail(w)) = Len(w) - 1 /\ \A k \in 1..Len(Tail(w)) : Tail(w)[k] = w[k + 1]
      BY <1>2, HeadTailProperties
    <2>2. QED
      BY <2>1
  <1>6. PICK x \in Seq(S) : x = r \o us /\ Len(x) = Len(r) + Len(us) /\ \A i \in 1..(Len(r) + Len(us)) : x[i] = IF i <= Len(r) THEN r[i] ELSE us[i - Len(r)]
    <2>1. r \o us \in Seq(S) /\ Len(r \o us) = Len(r) + Len(us) /\ \A i \in 1..(Len(r) + Len(us)) : (r \o us)[i] = IF i <= Len(r) THEN r[i] ELSE us[i - Len(r)]
      BY ConcatProperties
    <2>2. QED
      BY <2>1
  <1>7. Len(v) = Len(x) /\ Len(v) \in Nat
    BY <1>1, <1>2, <1>4, <1>5, <1>6
  <1>8. ASSUME NEW k \in 1..Len(v) PROVE v[k] = x[k]
    <2>1. PICK j \in Int : j = k + 1
      OBVIOUS
    <2>2. j \in 1..(Len(ts) + Len(us)) /\ v[k] = w[j] /\ k \in 1..(Len(r) + Len(us))
      BY <1>1, <1>2, <1>4, <1>5, <2>1
    <2>3. CASE k <= Len(r)
      <3>1. j <= Len(ts) /\ k \in 1..Len(r)
        BY <1>2, <1>4, <2>1, <2>3
      <3>2. w[j] = ts[j] /\ x[k] = r[k] /\ r[k] = ts[k + 1]
        BY <1>1, <1>4, <1>6, <2>2, <2>3, <3>1
      <3>3. QED
        BY <2>1, <2>2, <3>2
    <2>4. CASE ~(k <= Len(r))
      <3>1. ~(j <= Len(ts)) /\ j - Len(ts) = k - Len(r)
        BY <1>2, <1>4, <2>1, <2>4
      <3>2. w[j] = us[j - Len(ts)] /\ x[k] = us[k - Len(r)]
        BY <1>1, <1>6, <2>2, <2>4, <3>1
      <3>3. QED
        BY <2>2, <3>1, <3>2
    <2>5. QED
      BY <2>3, <2>4
  <1>9. v = x
    BY <1>7, <1>8, SeqEqual
  <1>10. QED
    BY <1>1, <1>2, <1>3, <1>4, <1>5, <1>6, <1>9

LEMMA TaskJoin ==
  ASSUME NEW ts \in Seq(TaskKinds), NEW us \in Seq(TaskKinds)
  PROVE  /\ ts \o us \in Seq(TaskKinds) /\ ToSet(ts \o us) = ToSet(ts) \cup ToSet(us)
         /\ ts = <<>> => ts \o us = us
         /\ ts # <<>> => ts \o us # <<>> /\ Head(ts \o us) = Head(ts) /\ Tail(ts \o us) = Tail(ts) \o us
  <1>1. PICK w : w = ts \o us
    OBVIOUS
  <1>2. /\ w \in Seq(TaskKinds) /\ Len(w) = Len(ts) + Len(us)
        /\ \A i \in 1..(Len(ts) + Len(us)) : w[i] = IF i <= Len(ts) THEN ts[i] ELSE us[i - Len(ts)]
    BY <1>1, ConcatProperties
  <1>3. Len(ts) \in Nat /\ Len(us) \in Nat /\ DOMAIN ts = 1..Len(ts) /\ DOMAIN us = 1..Len(us) /\ DOMAIN w = 1..Len(w)
    BY <1>2
  <1>4. ASSUME NEW t \in ToSet(w) PROVE t \in ToSet(ts) \cup ToSet(us)
    <2>1. PICK k \in 1..Len(w) : t = w[k]
      BY <1>3 DEF ToSet
    <2>2. CASE k <= Len(ts)
      <3>1. k \in 1..(Len(ts) + Len(us)) /\ k \in 1..Len(ts)
        BY <1>2, <1>3, <2>2
      <3>2. w[k] = ts[k]
        BY <1>2, <2>2, <3>1
      <3>3. QED
        BY <1>3, <2>1, <3>1, <3>2 DEF ToSet
    <2>3. CASE ~(k <= Len(ts))
      <3>1. PICK j \in Int : j = k - Len(ts)
        BY <1>3
      <3>2. j \in 1..Len(us) /\ w[k] = us[j]
        BY <1>2, <1>3, <2>3, <3>1
      <3>3. QED
        BY <1>3, <2>1, <3>2 DEF ToSet
    <2>4. QED
      BY <2>2, <2>3
  <1>5. ASSUME NEW t \in ToSet(ts) PROVE t \in ToSet(w)
    <2>1. PICK k \in 1..Len(ts) : t = ts[k]
      BY <1>3 DEF ToSet
    <2>2. k \in 1..(Len(ts) + Len(us)) /\ k <= Len(ts)
      BY <1>3
    <2>3. w[k] = ts[k]
      BY <1>2, <2>2
    <2>4. QED
      BY <1>2, <1>3, <2>1, <2>2, <2>3 DEF ToSet
  <1>6. ASSUME NEW t \in ToSet(us) PROVE t \in ToSet(w)
    <2>1. PICK k \in 1..Len(us) : t = us[k]
      BY <1>3 DEF ToSet
    <2>2. PICK i \in Int : i = Len(ts) + k
      BY <1>3
    <2>3. i \in 1..(Len(ts) + Len(us)) /\ ~(i <= Len(ts)) /\ i - Len(ts) = k
      BY <1>3, <2>2
    <2>4. w[i] = us[k]
      BY <1>2, <2>3
    <2>5. QED
      BY <1>2, <1>3, <2>1, <2>3, <2>4 DEF ToSet
  <1>7. ASSUME ts = <<>> PROVE w = us
    BY <1>1, <1>7, ConcatEmptySeq
  <1>8. ASSUME ts # <<>> PROVE w # <<>> /\ Head(w) = Head(ts) /\ Tail(w) = Tail(ts) \o us
    BY <1>1, <1>8, TailOfJoin
  <1>9. QED
    BY <1>1, <1>2, <1>4, <1>5, <1>6, <1>7, <1>8

LEMMA TasksAdded ==
  ASSUME NEW ts \in Seq(TaskKinds), NEW us \in Seq(TaskKinds), us # <<>>, ~Waits(us, "diff"), ts # <<>> => ~Waits(Tail(ts), "diff")
  PROVE  /\ ts \o us \in Seq(TaskKinds) /\ ts \o us # <<>>
         /\ ToSet(ts \o us) = ToSet(ts) \cup ToSet(us)
         /\ \A what : Waits(ts \o us, what) <=> (Waits(ts, what) \/ Waits(us, what))
         /\ ~Waits(Tail(ts \o us), "diff") /\ (Pending(ts \o us) <=> Pending(ts))
         /\ Pending(ts) => Head(ts \o us) = Head(ts)
  <1>1. PICK w : w = ts \o us
    OBVIOUS
  <1>2. /\ w \in Seq(TaskKinds) /\ ToSet(w) = ToSet(ts) \cup ToSet(us)
        /\ ts = <<>> => w = us
        /\ ts # <<>> => w # <<>> /\ Head(w) = Head(ts) /\ Tail(w) = Tail(ts) \o us
    BY <1>1, TaskJoin
  <1>3. \A what : Waits(w, what) <=> (Waits(ts, what) \/ Waits(us, what))
    BY <1>2 DEF Waits
  <1>4. w # <<>>
    BY <1>2
  <1>5. /\ Tail(us) \in Seq(TaskKinds) /\ Head(us) \in ToSet(us) /\ ToSet(us) = {Head(us)} \cup ToSet(Tail(us))
    BY TaskTail
  <1>6. ~Waits(Tail(us), "diff") /\ ~Pending(us)
    BY <1>5 DEF Waits, Pending
  <1>7. CASE ts = <<>>
    BY <1>1, <1>2, <1>3, <1>4, <1>6, <1>7 DEF Pending
  <1>8. CASE ts # <<>>
    <2>1. Tail(ts) \in Seq(TaskKinds)
      BY <1>8, TaskTail
    <2>2. ToSet(Tail(w)) = ToSet(Tail(ts)) \cup ToSet(us)
      <3>1. ToSet(Tail(ts) \o us) = ToSet(Tail(ts)) \cup ToSet(us)
        BY <2>1, TaskJoin
      <3>2. QED
        BY <1>2, <1>8, <3>1
    <2>3. ~Waits(Tail(w), "diff")
      BY <1>8, <2>2 DEF Waits
    <2>4. QED
      BY <1>1, <1>2, <1>3, <1>4, <1>8, <2>3 DEF Pending
  <1>9. QED
    BY <1>7, <1>8

LEMMA TasksOf ==
  ASSUME NEW t \in TaskKinds
  PROVE  /\ <<t>> \in Seq(TaskKinds) /\ <<t>> # <<>> /\ ToSet(<<t>>) = {t} /\ \A what : Waits(<<t>>, what) <=> (t.do = what)
         /\ \A u \in TaskKinds : /\ <<t, u>> \in Seq(TaskKinds) /\ <<t, u>> # <<>> /\ ToSet(<<t, u>>) = {t, u}
                                 /\ \A what : Waits(<<t, u>>, what) <=> (t.do = what \/ u.do = what)
                                 /\ Head(<<t, u>>) = t /\ Tail(<<t, u>>) = <<u>>
  <1>1. /\ <<t>> \in Seq(TaskKinds) /\ <<t>> # <<>> /\ ToSet(<<t>>) = {t}
    BY DEF ToSet
  <1>2. \A what : Waits(<<t>>, what) <=> (t.do = what)
    BY <1>1 DEF Waits
  <1>3. ASSUME NEW u \in TaskKinds
        PROVE  /\ <<t, u>> \in Seq(TaskKinds) /\ <<t, u>> # <<>> /\ ToSet(<<t, u>>) = {t, u}
               /\ \A what : Waits(<<t, u>>, what) <=> (t.do = what \/ u.do = what)
               /\ Head(<<t, u>>) = t /\ Tail(<<t, u>>) = <<u>>
    <2>1. <<t, u>> \in Seq(TaskKinds) /\ <<t, u>> # <<>> /\ Head(<<t, u>>) = t /\ Tail(<<t, u>>) = <<u>>
      OBVIOUS
    <2>2. ToSet(<<t, u>>) = {t, u}
      <3>1. DOMAIN <<t, u>> = {1, 2} /\ <<t, u>>[1] = t /\ <<t, u>>[2] = u
        OBVIOUS
      <3>2. QED
        BY <3>1 DEF ToSet
    <2>3. \A what : Waits(<<t, u>>, what) <=> (t.do = what \/ u.do = what)
      BY <2>2 DEF Waits
    <2>4. QED
      BY <2>1, <2>2, <2>3
  <1>4. QED
    BY <1>1, <1>2, <1>3
LEMMA Dispatching ==
  ASSUME burst \in Rests, NEW name, Dispatched(name)
  PROVE  /\ burst # <<>> /\ burst' \in Rests
         /\ name = "other" => burst = <<"other">> /\ burst' = <<>>
         /\ name = "modifier" => burst = <<"modifier">> /\ burst' = <<>>
         /\ name = "insert" => burst = <<"insert">> /\ burst' = <<>>
         /\ name = "delete" => burst = <<"delete">> /\ burst' = <<>>
         /\ name = "update" => burst = <<"update">> /\ burst' = <<>>
         /\ name = "start" => burst = <<"start", "update">> /\ burst' = <<"update">>
         /\ name = "end" => \/ burst = <<"end">> /\ burst' = <<>>
                            \/ burst = <<"end", "start", "update">> /\ burst' = <<"start", "update">>
                            \/ burst = <<"end", "other">> /\ burst' = <<"other">>
         /\ name = "ime" => \/ burst = <<"ime", "start", "update">> /\ burst' = <<"start", "update">>
                            \/ burst = <<"ime", "insert">> /\ burst' = <<"insert">>
                            \/ burst = <<"ime", "delete">> /\ burst' = <<"delete">>
                            \/ burst = <<"ime", "update">> /\ burst' = <<"update">>
                            \/ burst = <<"ime", "end">> /\ burst' = <<"end">>
                            \/ burst = <<"ime", "end", "start", "update">> /\ burst' = <<"end", "start", "update">>
                            \/ burst = <<"ime", "end", "other">> /\ burst' = <<"end", "other">>
  <1>1. burst # <<>> /\ Head(burst) = name /\ burst' = Tail(burst)
    BY DEF Dispatched
  <1>2. \A a : Head(<<a>>) = a /\ Tail(<<a>>) = <<>>
    OBVIOUS
  <1>3. \A a, b : Head(<<a, b>>) = a /\ Tail(<<a, b>>) = <<b>>
    OBVIOUS
  <1>4. \A a, b, c : Head(<<a, b, c>>) = a /\ Tail(<<a, b, c>>) = <<b, c>>
    OBVIOUS
  <1>5. \A a, b, c, d : Head(<<a, b, c, d>>) = a /\ Tail(<<a, b, c, d>>) = <<b, c, d>>
    OBVIOUS
  <1>6. CASE burst = <<"insert">>
    <2>1. name = "insert" /\ burst' = <<>>
      BY <1>1, <1>2, <1>6
    <2>2. QED
      BY <1>1, <1>6, <2>1 DEF Rests, FreshIme, Ending
  <1>7. CASE burst = <<"delete">>
    <2>1. name = "delete" /\ burst' = <<>>
      BY <1>1, <1>2, <1>7
    <2>2. QED
      BY <1>1, <1>7, <2>1 DEF Rests, FreshIme, Ending
  <1>8. CASE burst = <<"other">>
    <2>1. name = "other" /\ burst' = <<>>
      BY <1>1, <1>2, <1>8
    <2>2. QED
      BY <1>1, <1>8, <2>1 DEF Rests, FreshIme, Ending
  <1>9. CASE burst = <<"update">>
    <2>1. name = "update" /\ burst' = <<>>
      BY <1>1, <1>2, <1>9
    <2>2. QED
      BY <1>1, <1>9, <2>1 DEF Rests, FreshIme, Ending
  <1>10. CASE burst = <<"modifier">>
    <2>1. name = "modifier" /\ burst' = <<>>
      BY <1>1, <1>2, <1>10
    <2>2. QED
      BY <1>1, <1>10, <2>1 DEF Rests, FreshIme, Ending
  <1>11. CASE burst = <<"end">>
    <2>1. name = "end" /\ burst' = <<>>
      BY <1>1, <1>2, <1>11
    <2>2. QED
      BY <1>1, <1>11, <2>1 DEF Rests, FreshIme, Ending
  <1>12. CASE burst = <<"ime", "insert">>
    <2>1. name = "ime" /\ burst' = <<"insert">>
      BY <1>1, <1>3, <1>12
    <2>2. QED
      BY <1>1, <1>12, <2>1 DEF Rests, FreshIme, Ending
  <1>13. CASE burst = <<"ime", "delete">>
    <2>1. name = "ime" /\ burst' = <<"delete">>
      BY <1>1, <1>3, <1>13
    <2>2. QED
      BY <1>1, <1>13, <2>1 DEF Rests, FreshIme, Ending
  <1>14. CASE burst = <<"ime", "update">>
    <2>1. name = "ime" /\ burst' = <<"update">>
      BY <1>1, <1>3, <1>14
    <2>2. QED
      BY <1>1, <1>14, <2>1 DEF Rests, FreshIme, Ending
  <1>15. CASE burst = <<"ime", "end">>
    <2>1. name = "ime" /\ burst' = <<"end">>
      BY <1>1, <1>3, <1>15
    <2>2. QED
      BY <1>1, <1>15, <2>1 DEF Rests, FreshIme, Ending
  <1>16. CASE burst = <<"end", "other">>
    <2>1. name = "end" /\ burst' = <<"other">>
      BY <1>1, <1>3, <1>16
    <2>2. QED
      BY <1>1, <1>16, <2>1 DEF Rests, FreshIme, Ending
  <1>17. CASE burst = <<"start", "update">>
    <2>1. name = "start" /\ burst' = <<"update">>
      BY <1>1, <1>3, <1>17
    <2>2. QED
      BY <1>1, <1>17, <2>1 DEF Rests, FreshIme, Ending
  <1>18. CASE burst = <<"ime", "start", "update">>
    <2>1. name = "ime" /\ burst' = <<"start", "update">>
      BY <1>1, <1>4, <1>18
    <2>2. QED
      BY <1>1, <1>18, <2>1 DEF Rests, FreshIme, Ending
  <1>19. CASE burst = <<"end", "start", "update">>
    <2>1. name = "end" /\ burst' = <<"start", "update">>
      BY <1>1, <1>4, <1>19
    <2>2. QED
      BY <1>1, <1>19, <2>1 DEF Rests, FreshIme, Ending
  <1>20. CASE burst = <<"ime", "end", "other">>
    <2>1. name = "ime" /\ burst' = <<"end", "other">>
      BY <1>1, <1>4, <1>20
    <2>2. QED
      BY <1>1, <1>20, <2>1 DEF Rests, FreshIme, Ending
  <1>21. CASE burst = <<"ime", "end", "start", "update">>
    <2>1. name = "ime" /\ burst' = <<"end", "start", "update">>
      BY <1>1, <1>5, <1>21
    <2>2. QED
      BY <1>1, <1>21, <2>1 DEF Rests, FreshIme, Ending
  <1>22. QED
    BY <1>1, <1>6, <1>7, <1>8, <1>9, <1>10, <1>11, <1>12, <1>13, <1>14, <1>15, <1>16, <1>17, <1>18, <1>19, <1>20, <1>21 DEF Rests, FreshIme, Ending

LEMMA NoTasks ==
  ToSet(<<>>) = {} /\ (\A what : ~Waits(<<>>, what)) /\ ~Pending(<<>>)
  <1>1. ToSet(<<>>) = {}
    BY DEF ToSet
  <1>2. QED
    BY <1>1 DEF Waits, Pending

LEMMA ImeFields ==
  ASSUME ImeTyped
  PROVE  /\ area.value \in ImeText /\ area.caret \in Nat /\ area.from \in Int /\ Len(area.value) \in Nat /\ area.caret <= Len(area.value)
         /\ ime.start \in Nat /\ ime.end \in Nat /\ ime.suffix \in ImeText
         /\ sent \in ImeText /\ committed \in ImeText
  <1>1. area.value \in ImeText /\ area.caret \in Nat /\ area.from \in Int /\ area.caret <= Len(area.value)
    BY DEF ImeTyped
  <1>2. Len(area.value) \in Nat
    BY <1>1 DEF ImeText
  <1>3. ime.start \in Nat /\ ime.end \in Nat /\ ime.suffix \in ImeText
    BY DEF ImeTyped, ControllerOf
  <1>4. QED
    BY <1>1, <1>2, <1>3 DEF ImeTyped

LEMMA Edited ==
  ASSUME ImeTyped, NEW from \in Nat, from <= area.caret, NEW text \in ImeText, NEW b, b = Replaced(area, from, text)
  PROVE  /\ b \in [value : ImeText, caret : Nat, from : Int] /\ b.caret <= Len(b.value) /\ b.from = area.from
         /\ b.caret = from + Len(text) /\ Len(b.value) = b.caret + (Len(area.value) - area.caret)
         /\ Substring(b.value, from, b.caret) = text
         /\ Substring(b.value, b.caret, Len(b.value)) = Substring(area.value, area.caret, Len(area.value))
         /\ \A k \in 0..from : Substring(b.value, k, from) = Substring(area.value, k, from)
  <1>0. PICK v : v = area.value
    OBVIOUS
  <1>0a. PICK c : c = area.caret
    OBVIOUS
  <1>1. v = area.value /\ c = area.caret /\ c \in Nat /\ Len(v) \in Nat /\ c <= Len(v) /\ v \in Seq(Int) /\ from <= c
    BY <1>0, <1>0a, ImeFields DEF ImeText
  <1>2. PICK w : w = Splice(v, from, text, c)
    OBVIOUS
  <1>3. PICK l : l = from + Len(text) /\ l \in Nat
    BY DEF ImeText
  <1>4. text \in Seq(Int)
    BY DEF ImeText
  <1>5. /\ w \in Seq(Int) /\ l \in Nat /\ l <= Len(w) /\ Len(w) = l + (Len(v) - c)
        /\ Substring(w, from, l) = text
        /\ Substring(w, l, Len(w)) = Substring(v, c, Len(v))
        /\ \A k \in 0..from : Substring(w, k, from) = Substring(v, k, from)
    <2>1. c \in Nat /\ from <= c /\ c <= Len(v) /\ v \in Seq(Int) /\ from \in Nat
      BY <1>1
    <2>2. l \in Nat /\ l = from + Len(text)
      BY <1>3
    <2>3. LET z == Splice(v, from, text, c) IN
          /\ z \in Seq(Int) /\ l <= Len(z) /\ Len(z) = l + (Len(v) - c)
          /\ Substring(z, from, l) = text
          /\ Substring(z, l, Len(z)) = Substring(v, c, Len(v))
          /\ \A k \in 0..from : Substring(z, k, from) = Substring(v, k, from)
      BY <1>4, <2>1, <2>2, Spliced
    <2>4. QED
      BY <1>2, <2>2, <2>3
  <1>6. b = [area EXCEPT !.value = w, !.caret = l]
    BY <1>1, <1>2, <1>3 DEF Replaced, Splice
  <1>7. area \in [value : ImeText, caret : Nat, from : Int]
    BY DEF ImeTyped
  <1>8. b \in [value : ImeText, caret : Nat, from : Int] /\ b.value = w /\ b.caret = l /\ b.from = area.from
    BY <1>5, <1>6, <1>7 DEF ImeText
  <1>9. QED
    BY <1>1, <1>3, <1>5, <1>8

LEMMA LettersAre ==
  ASSUME strokes \in Nat, NEW n \in Nat
  PROVE  Letters(n) \in ImeText /\ Len(Letters(n)) = n
  BY DEF Letters, ImeText

LEMMA CutTyped ==
  ASSUME NEW v \in ImeText, NEW i \in Nat, NEW j \in Nat, i <= j, j <= Len(v)
  PROVE  Substring(v, i, j) \in ImeText /\ Len(Substring(v, i, j)) = j - i
  BY CutIs DEF ImeText

LEMMA ReadEnded ==
  ASSUME ImeTyped, Ended, NEW t \in ToSet(tasks), t.do = "read"
  PROVE  ReadCommit(t, ime) = Substring(area.value, ime.start, area.caret)
  <1>0. PICK v : v = area.value
    OBVIOUS
  <1>0a. PICK c : c = area.caret
    OBVIOUS
  <1>0b. PICK n : n = Len(v)
    OBVIOUS
  <1>0c. PICK s : s = ime.start
    OBVIOUS
  <1>1. /\ v = area.value /\ c = area.caret /\ n = Len(v) /\ s = ime.start /\ v \in ImeText
        /\ c \in Nat /\ n \in Nat /\ s \in Nat /\ c <= n /\ s <= c
    BY <1>0, <1>0a, <1>0b, <1>0c, ImeFields DEF Ended
  <1>2. PICK x \in ImeText : x = Substring(v, c, n) /\ Len(x) = n - c
    <2>1. v \in ImeText /\ c \in Nat /\ n \in Nat /\ c <= n /\ n <= Len(v)
      BY <1>1
    <2>2. Substring(v, c, n) \in ImeText /\ Len(Substring(v, c, n)) = n - c
      BY <2>1, CutTyped
    <2>3. QED
      BY <2>2
  <1>3. t.start = s /\ t.suffix = x /\ ime.already = <<>> /\ ~ime.composing
    BY <1>1, <1>2 DEF Ended, Shut
  <1>4. ReadFrom(t, ime) = s
    BY <1>1, <1>3 DEF ReadFrom
  <1>5. ReadTo(t, ime) = c
    <2>2. PICK k : k = Len(t.suffix)
      OBVIOUS
    <2>3. k \in Nat /\ k = n - c /\ n - k = c
      BY <1>1, <1>2, <1>3, <2>2
    <2>4. ReadTo(t, ime) = IF k > 0 /\ k <= n /\ Substring(v, n - k, n) = t.suffix THEN n - k ELSE n
      BY <1>1, <1>3, <2>2 DEF ReadTo
    <2>5. CASE k > 0
      BY <1>1, <1>2, <1>3, <2>3, <2>4, <2>5
    <2>6. CASE ~(k > 0)
      BY <1>1, <2>3, <2>4, <2>6
    <2>7. QED
      BY <2>5, <2>6
  <1>6. Larger(s, c) = c
    BY <1>1 DEF Larger
  <1>7. QED
    BY <1>1, <1>4, <1>5, <1>6 DEF ReadCommit

LEMMA ReadFollowing ==
  ASSUME ImeTyped, Following, NEW t \in ToSet(tasks), t.do = "read", t \in TaskKinds
  PROVE  ReadCommit(t, ime) = Substring(area.value, t.start, ime.start)
  <1>1. t.start \in Nat
    BY DEF TaskKinds
  <1>2. t.start <= ime.start /\ ime.already = <<>> /\ ime.composing /\ ime.start \in Nat
    BY DEF Following, Open, ImeTyped, ControllerOf
  <1>3. ReadFrom(t, ime) = t.start
    BY <1>1, <1>2 DEF ReadFrom
  <1>4. ReadTo(t, ime) = ime.start
    BY <1>2 DEF ReadTo
  <1>5. Larger(t.start, ime.start) = ime.start
    BY <1>1, <1>2 DEF Larger
  <1>6. QED
    BY <1>3, <1>4, <1>5 DEF ReadCommit
-----------------------------------------------------------------------------
(* Composition: every step keeps ImeInv.                                     *)

LEMMA ImeStarts == ASSUME ImeInit PROVE ImeInv
  <1>1. PICK p \in Prefills : area = [value |-> p[1] \o p[2], caret |-> Len(p[1]), from |-> NoStart]
    BY DEF ImeInit
  <1>2. PICK a \in Seq(Int), b \in Seq(Int) : a = p[1] /\ b = p[2]
    BY PrefillsAreTexts
  <1>3. a \o b \in Seq(Int) /\ Len(a \o b) = Len(a) + Len(b) /\ Len(a) \in Nat /\ Len(b) \in Nat
    BY ConcatProperties
  <1>4. area \in [value : ImeText, caret : Nat, from : Int] /\ area.caret <= Len(area.value) /\ area.from = NoStart
    <2>1. PICK w : w = a \o b
      OBVIOUS
    <2>2. PICK l : l = Len(a)
      OBVIOUS
    <2>3. w \in ImeText /\ l \in Nat /\ l <= Len(w)
      BY <1>3, <2>1, <2>2 DEF ImeText
    <2>4. area = [value |-> w, caret |-> l, from |-> NoStart] /\ NoStart \in Int
      BY <1>1, <1>2, <2>1, <2>2 DEF NoStart
    <2>5. QED
      BY <2>3, <2>4
  <1>5. ime = [composing |-> FALSE, sending |-> FALSE, start |-> 0, end |-> 0, suffix |-> <<>>, already |-> <<>>, pending |-> FALSE]
    BY DEF ImeInit
  <1>6. ime \in ControllerOf(ime.already)
    BY <1>5 DEF ImeText, ControllerOf
  <1>7. tasks = <<>> /\ burst = <<>> /\ sent = <<>> /\ committed = <<>> /\ strokes = 0
    BY DEF ImeInit
  <1>8. ImeTyped
    BY <1>4, <1>6, <1>7 DEF ImeTyped, ImeText, Rests
  <1>9. ImeQueue
    <2>1. burst \notin FreshIme \cup {<<"modifier">>} /\ burst \notin Ending
      BY <1>7 DEF FreshIme, Ending
    <2>2. ime.pending = FALSE /\ ime.sending = FALSE
      BY <1>5
    <2>3. \A what : ~Waits(tasks, what)
      BY <1>7, NoTasks
    <2>4. ~Pending(tasks)
      BY <1>7, NoTasks
    <2>5. QED
      BY <1>7, <2>1, <2>2, <2>3, <2>4 DEF ImeQueue
  <1>10. Plain
    <2>1. burst \notin Inserting \cup Deleting /\ burst \notin {<<"insert">>, <<"delete">>}
      BY <1>7 DEF Inserting, Deleting
    <2>2. QED
      BY <1>4, <1>5, <1>7, <2>1, NoTasks DEF Plain, Shut
  <1>11. QED
    BY <1>8, <1>9, <1>10 DEF ImeInv

LEMMA RestOf ==
  ASSUME ImeTyped, ImeQueue, tasks # <<>>, NEW h, h = Head(tasks), NEW r, r = Tail(tasks)
  PROVE  /\ h \in TaskKinds /\ h \in ToSet(tasks) /\ r \in Seq(TaskKinds)
         /\ ~Waits(r, "diff") /\ ~Pending(r) /\ (r # <<>> => ~Waits(Tail(r), "diff"))
         /\ \A t \in ToSet(r) : t \in ToSet(tasks)
         /\ \A what : Waits(r, what) => Waits(tasks, what)
         /\ \A what : Waits(tasks, what) /\ h.do # what => Waits(r, what)
         /\ Waits(tasks, h.do)
         /\ (Pending(tasks) <=> h.do = "diff")
         /\ burst \notin FreshIme \cup {<<"modifier">>}
  <1>0. tasks \in Seq(TaskKinds)
    BY DEF ImeTyped
  <1>1. /\ r \in Seq(TaskKinds) /\ h \in TaskKinds /\ h \in ToSet(tasks) /\ ToSet(tasks) = {h} \cup ToSet(r)
        /\ r # <<>> => Head(r) \in ToSet(r)
    BY <1>0, TaskTail
  <1>2. ~Waits(r, "diff")
    BY DEF ImeQueue
  <1>3. ~Pending(r)
    BY <1>1, <1>2 DEF Pending, Waits
  <1>4. r # <<>> => ~Waits(Tail(r), "diff")
    <2>1. SUFFICES ASSUME r # <<>> PROVE ~Waits(Tail(r), "diff")
      OBVIOUS
    <2>2. ToSet(r) = {Head(r)} \cup ToSet(Tail(r))
      BY <1>1, <2>1, TaskTail
    <2>3. QED
      BY <1>2, <2>2 DEF Waits
  <1>5. (\A what : Waits(r, what) => Waits(tasks, what)) /\ (\A what : Waits(tasks, what) /\ h.do # what => Waits(r, what)) /\ Waits(tasks, h.do)
    BY <1>1 DEF Waits
  <1>6. Pending(tasks) <=> h.do = "diff"
    BY DEF Pending
  <1>7. burst \notin FreshIme \cup {<<"modifier">>}
    BY DEF ImeQueue
  <1>8. QED
    BY <1>1, <1>2, <1>3, <1>4, <1>5, <1>6, <1>7

LEMMA QueueRuns ==
  ASSUME ImeTyped, ImeQueue, tasks # <<>>, tasks' = Tail(tasks), burst' = burst, ~ime'.pending,
         ime'.sending => ime.sending /\ Head(tasks).do # "read", ime'.composing <=> ime.composing
  PROVE  ImeQueue'
  <1>1. PICK h : h = Head(tasks)
    OBVIOUS
  <1>2. PICK r : r = Tail(tasks)
    OBVIOUS
  <1>3. /\ ~Waits(r, "diff") /\ ~Pending(r) /\ (r # <<>> => ~Waits(Tail(r), "diff"))
        /\ (\A t \in ToSet(r) : t \in ToSet(tasks)) /\ \A what : Waits(r, what) => Waits(tasks, what)
    BY <1>1, <1>2, RestOf
  <1>4. \A what : Waits(tasks, what) /\ h.do # what => Waits(r, what)
    BY <1>1, <1>2, RestOf
  <1>5. burst \notin FreshIme \cup {<<"modifier">>}
    BY <1>1, <1>2, RestOf
  <1>6. ime'.sending => Waits(r, "read")
    BY <1>1, <1>4 DEF ImeQueue
  <1>7. Waits(r, "end") => ime'.composing /\ burst = <<>>
    BY <1>3 DEF ImeQueue
  <1>8. burst \in Ending => \A t \in ToSet(r) : t.do = "clear"
    BY <1>3 DEF ImeQueue
  <1>9. QED
    BY <1>2, <1>3, <1>5, <1>6, <1>7, <1>8 DEF ImeQueue

LEMMA NotEdits ==
  ASSUME NEW b \in {<<>>, <<"start", "update">>, <<"other">>}
  PROVE  b \notin Inserting \cup Deleting /\ b \notin {<<"insert">>, <<"delete">>}
  <1>1. CASE b = <<>>
    BY <1>1 DEF Inserting, Deleting
  <1>2. CASE b = <<"other">>
    BY <1>2 DEF Inserting, Deleting
  <1>3. CASE b = <<"start", "update">>
    BY <1>3 DEF Inserting, Deleting
  <1>4. QED
    BY <1>1, <1>2, <1>3

LEMMA EndRuns ==
  ASSUME ImeInv, tasks # <<>>, tasks' = Tail(tasks), Head(tasks).do = "end", ime' = [ime EXCEPT !.end = Larger(ime.start, area.caret)],
         UNCHANGED <<area, sent, burst, committed, strokes>>
  PROVE  ImeInv'
  <1>1. ImeTyped /\ ImeQueue
    BY DEF ImeInv
  <1>2. PICK h : h = Head(tasks)
    OBVIOUS
  <1>3. PICK r : r = Tail(tasks)
    OBVIOUS
  <1>4. /\ h.do = "end" /\ r \in Seq(TaskKinds) /\ ~Pending(tasks) /\ Waits(tasks, "end") /\ \A t \in ToSet(r) : t \in ToSet(tasks)
    <2>1. r \in Seq(TaskKinds) /\ (Pending(tasks) <=> h.do = "diff") /\ Waits(tasks, h.do) /\ \A t \in ToSet(r) : t \in ToSet(tasks)
      BY <1>1, <1>2, <1>3, RestOf
    <2>2. QED
      BY <1>2, <2>1
  <1>5. ime.composing /\ burst = <<>>
    BY <1>1, <1>4 DEF ImeQueue
  <1>6. ime \in ControllerOf(ime.already)
    BY <1>1 DEF ImeTyped
  <1>7. Open
    BY <1>5 DEF ImeInv, Plain, Ended, Shut, Syllable, Following
  <1>8. Larger(ime.start, area.caret) = area.caret /\ area.caret \in Nat
    BY <1>1, <1>7, ImeFields DEF Larger, Open
  <1>9. /\ ime' \in ControllerOf(ime'.already)
        /\ ime'.end = area.caret /\ ime'.composing = ime.composing /\ ime'.sending = ime.sending /\ ime'.start = ime.start
        /\ ime'.suffix = ime.suffix /\ ime'.already = ime.already /\ ime'.pending = ime.pending
    BY <1>6, <1>8 DEF ControllerOf
  <1>10. ImeTyped'
    BY <1>1, <1>3, <1>4, <1>9 DEF ImeTyped
  <1>11. ~ime'.pending
    BY <1>1, <1>4, <1>9 DEF ImeQueue
  <1>12. ImeQueue'
    BY <1>1, <1>2, <1>4, <1>9, <1>11, QueueRuns
  <1>13. Open'
    BY <1>7, <1>9 DEF Open
  <1>14. Syllable \/ Following
    BY <1>5 DEF ImeInv, Plain, Ended, Shut
  <1>15. CASE Syllable
    <2>1. Syllable'
      BY <1>5, <1>9, <1>13, <1>15 DEF Syllable
    <2>2. QED
      BY <1>10, <1>12, <2>1 DEF ImeInv
  <1>16. CASE Following
    <2>1. Following'
      BY <1>3, <1>4, <1>5, <1>9, <1>13, <1>16 DEF Following
    <2>2. QED
      BY <1>10, <1>12, <2>1 DEF ImeInv
  <1>17. QED
    BY <1>14, <1>15, <1>16

LEMMA ReadRuns ==
  ASSUME ImeInv, tasks # <<>>, tasks' = Tail(tasks), Head(tasks).do = "read",
         IF ime.sending THEN ime' = [ime EXCEPT !.sending = FALSE] /\ sent' = sent \o ReadCommit(Head(tasks), ime) ELSE UNCHANGED <<ime, sent>>,
         UNCHANGED <<area, burst, committed, strokes>>
  PROVE  ImeInv'
  <1>1. ImeTyped /\ ImeQueue
    BY DEF ImeInv
  <1>2. PICK h : h = Head(tasks)
    OBVIOUS
  <1>3. PICK r : r = Tail(tasks)
    OBVIOUS
  <1>4. /\ h \in TaskKinds /\ h \in ToSet(tasks) /\ h.do = "read" /\ r \in Seq(TaskKinds) /\ ~Pending(tasks) /\ ~Pending(r)
        /\ \A t \in ToSet(r) : t \in ToSet(tasks)
    BY <1>1, <1>2, <1>3, RestOf
  <1>5. \A what : Waits(tasks, what) /\ h.do # what => Waits(r, what)
    BY <1>1, <1>2, <1>3, RestOf
  <1>6. Waits(tasks, "end") => Waits(r, "end")
    BY <1>4, <1>5
  <1>7. ime \in ControllerOf(ime.already)
    BY <1>1 DEF ImeTyped
  <1>8. /\ ime' \in ControllerOf(ime'.already)
        /\ ime'.sending = FALSE /\ ime'.composing = ime.composing /\ ime'.start = ime.start /\ ime'.end = ime.end
        /\ ime'.suffix = ime.suffix /\ ime'.already = ime.already /\ ime'.pending = ime.pending
    BY <1>7 DEF ControllerOf
  <1>9. ~ime'.pending
    BY <1>1, <1>4, <1>8 DEF ImeQueue
  <1>10. ImeQueue'
    BY <1>1, <1>8, <1>9, QueueRuns
  <1>11. sent' \in ImeText => ImeTyped'
    BY <1>1, <1>3, <1>4, <1>8 DEF ImeTyped
  <1>12. CASE ~ime.sending
    <2>1. sent' = sent /\ ime' = ime
      BY <1>12
    <2>2. ImeTyped'
      BY <1>1, <1>11, <2>1 DEF ImeTyped
    <2>3. CASE Plain
      <3>1. Plain'
        BY <1>3, <1>4, <2>1, <2>3 DEF Plain, Shut
      <3>2. QED
        BY <1>10, <2>2, <3>1 DEF ImeInv
    <2>4. CASE Syllable
      <3>1. Syllable'
        BY <1>3, <1>6, <2>1, <2>4 DEF Syllable, Open
      <3>2. QED
        BY <1>10, <2>2, <3>1 DEF ImeInv
    <2>5. QED
      BY <1>12, <2>3, <2>4 DEF ImeInv, Ended, Following
  <1>13. CASE ime.sending
    <2>1. sent' = sent \o ReadCommit(h, ime)
      BY <1>2, <1>13
    <2>2. CASE Ended
      <3>1. sent' = committed
        BY <1>1, <1>4, <2>1, <2>2, ReadEnded DEF Ended
      <3>2. burst \notin Inserting \cup Deleting /\ burst \notin {<<"insert">>, <<"delete">>}
        BY <2>2, NotEdits DEF Ended
      <3>2a. Plain'
        BY <1>3, <1>4, <1>8, <2>2, <3>1, <3>2 DEF Plain, Ended, Shut
      <3>3. sent' \in ImeText
        BY <1>1, <3>1 DEF ImeTyped
      <3>4. QED
        BY <1>10, <1>11, <3>2a, <3>3 DEF ImeInv
    <2>3. CASE Following
      <3>1. sent' = committed
        BY <1>1, <1>4, <2>1, <2>3, ReadFollowing DEF Following
      <3>2. Syllable'
        BY <1>3, <1>6, <1>8, <2>3, <3>1 DEF Syllable, Following, Open
      <3>3. sent' \in ImeText
        BY <1>1, <3>1 DEF ImeTyped
      <3>4. QED
        BY <1>10, <1>11, <3>2, <3>3 DEF ImeInv
    <2>4. QED
      BY <1>13, <2>2, <2>3 DEF ImeInv, Plain, Syllable
  <1>14. QED
    BY <1>12, <1>13

LEMMA ClearRuns ==
  ASSUME ImeInv, tasks # <<>>, tasks' = Tail(tasks), Head(tasks).do = "clear", ~Atomic,
         area' = IF Active(ime) THEN area ELSE [area EXCEPT !.value = <<>>, !.caret = 0],
         UNCHANGED <<ime, sent, burst, committed, strokes>>
  PROVE  ImeInv'
  <1>1. ImeTyped /\ ImeQueue
    BY DEF ImeInv
  <1>2. PICK h : h = Head(tasks)
    OBVIOUS
  <1>3. PICK r : r = Tail(tasks)
    OBVIOUS
  <1>4. /\ h.do = "clear" /\ r \in Seq(TaskKinds) /\ ~Pending(tasks) /\ ~Pending(r) /\ \A t \in ToSet(r) : t \in ToSet(tasks)
    BY <1>1, <1>2, <1>3, RestOf
  <1>5. \A what : Waits(tasks, what) /\ h.do # what => Waits(r, what)
    BY <1>1, <1>2, <1>3, RestOf
  <1>6. Waits(tasks, "end") => Waits(r, "end")
    BY <1>4, <1>5
  <1>7. area \in [value : ImeText, caret : Nat, from : Int] /\ area.caret <= Len(area.value)
    BY <1>1 DEF ImeTyped
  <1>8. area' \in [value : ImeText, caret : Nat, from : Int] /\ area'.caret <= Len(area'.value) /\ area'.from = area.from
    <2>1. CASE Active(ime)
      BY <1>7, <2>1
    <2>2. CASE ~Active(ime)
      <3>1. area' = [area EXCEPT !.value = <<>>, !.caret = 0]
        BY <2>2
      <3>2. PICK none \in ImeText : none = <<>> /\ Len(none) = 0
        <4>1. <<>> \in Seq(Int) /\ Len(<<>>) = 0
          OBVIOUS
        <4>2. QED
          BY <4>1 DEF ImeText
      <3>3. area' \in [value : ImeText, caret : Nat, from : Int] /\ area'.value = none /\ area'.caret = 0 /\ area'.from = area.from
        <4>1. PICK x : x = [area EXCEPT !.value = none, !.caret = 0]
          OBVIOUS
        <4>2. area' = x
          BY <3>1, <3>2, <4>1
        <4>3. x \in [value : ImeText, caret : Nat, from : Int] /\ x.value = none /\ x.caret = 0 /\ x.from = area.from
          BY <1>7, <4>1
        <4>4. QED
          BY <4>2, <4>3
      <3>4. QED
        BY <3>2, <3>3
    <2>3. QED
      BY <2>1, <2>2
  <1>9. ImeTyped'
    BY <1>1, <1>3, <1>4, <1>8 DEF ImeTyped
  <1>10. ~ime.pending
    BY <1>1, <1>4 DEF ImeQueue
  <1>11. ImeQueue'
    BY <1>1, <1>2, <1>4, <1>10, QueueRuns
  <1>12. CASE Plain
    <2>1. burst \notin FreshIme
      BY <1>1, RestOf, <1>2, <1>3
    <2>2. burst \notin {<<"insert">>, <<"delete">>}
      BY <1>4, <1>12 DEF Plain
    <2>3. burst \notin Inserting \cup Deleting
      BY <2>1, <2>2 DEF Inserting, Deleting, FreshIme
    <2>4. Plain'
      BY <1>3, <1>4, <1>8, <1>12, <2>2, <2>3 DEF Plain, Shut
    <2>5. QED
      BY <1>9, <1>11, <2>4 DEF ImeInv
  <1>13. CASE ~Plain
    <2>1. area' = area
      BY <1>13 DEF ImeInv, Syllable, Ended, Following, Open, Active
    <2>2. CASE Syllable
      <3>1. Syllable'
        BY <1>3, <1>6, <2>1, <2>2 DEF Syllable, Open
      <3>2. QED
        BY <1>9, <1>11, <3>1 DEF ImeInv
    <2>3. CASE Ended
      <3>1. Ended'
        BY <1>3, <1>4, <2>1, <2>3 DEF Ended, Shut
      <3>2. QED
        BY <1>9, <1>11, <3>1 DEF ImeInv
    <2>4. CASE Following
      <3>1. Following'
        BY <1>3, <1>4, <1>6, <2>1, <2>4 DEF Following, Open
      <3>2. QED
        BY <1>9, <1>11, <3>1 DEF ImeInv
    <2>5. QED
      BY <1>13, <2>2, <2>3, <2>4 DEF ImeInv
  <1>14. QED
    BY <1>12, <1>13

LEMMA DiffRuns ==
  ASSUME ImeInv, tasks # <<>>, tasks' = Tail(tasks), Head(tasks).do = "diff", ~Atomic,
         IF ime.composing THEN ime' = [ime EXCEPT !.pending = FALSE] /\ UNCHANGED sent
         ELSE /\ ime' = [ime EXCEPT !.pending = FALSE, !.already = WithoutFirst(area.value, Head(tasks).old)]
              /\ sent' = sent \o DiffText(Head(tasks)),
         UNCHANGED <<area, burst, committed, strokes>>
  PROVE  ImeInv'
  <1>1. ImeTyped /\ ImeQueue
    BY DEF ImeInv
  <1>2. PICK h : h = Head(tasks)
    OBVIOUS
  <1>3. PICK r : r = Tail(tasks)
    OBVIOUS
  <1>4. /\ h.do = "diff" /\ r \in Seq(TaskKinds) /\ Pending(tasks) /\ ~Pending(r) /\ Waits(tasks, "diff")
    BY <1>1, <1>2, <1>3, RestOf
  <1>5. \A what : Waits(tasks, what) /\ h.do # what => Waits(r, what)
    BY <1>1, <1>2, <1>3, RestOf
  <1>6. Waits(tasks, "end") => Waits(r, "end")
    BY <1>4, <1>5
  <1>7. ime \in ControllerOf(ime.already)
    BY <1>1 DEF ImeTyped
  <1>8. /\ ime' \in ControllerOf(ime'.already)
        /\ ime'.sending = ime.sending /\ ime'.composing = ime.composing /\ ime'.start = ime.start /\ ime'.end = ime.end
        /\ ime'.suffix = ime.suffix /\ ime'.pending = FALSE
    BY <1>7 DEF ControllerOf
  <1>9. ~ime.sending
    BY <1>1, <1>4 DEF ImeQueue
  <1>10. ImeQueue'
    BY <1>1, <1>2, <1>8, <1>9, QueueRuns
  <1>11. sent' \in ImeText => ImeTyped'
    BY <1>1, <1>3, <1>4, <1>8 DEF ImeTyped
  <1>12. CASE Plain
    <2>1. sent' = committed
      BY <1>2, <1>4, <1>12 DEF Plain, Shut
    <2>2. burst \notin {<<"insert">>, <<"delete">>}
      <3>1. Head(<<"insert">>) = "insert" /\ Head(<<"delete">>) = "delete" /\ <<"insert">> # <<>> /\ <<"delete">> # <<>>
        OBVIOUS
      <3>2. QED
        BY <3>1 DEF Atomic
    <2>3. Plain'
      BY <1>3, <1>4, <1>8, <1>9, <1>12, <2>1, <2>2 DEF Plain, Shut
    <2>4. sent' \in ImeText
      BY <1>1, <2>1 DEF ImeTyped
    <2>5. QED
      BY <1>10, <1>11, <2>3, <2>4 DEF ImeInv
  <1>13. CASE Syllable
    <2>1. ime.composing /\ sent' = sent /\ ime'.already = ime.already
      BY <1>7, <1>13 DEF Syllable, Open, ControllerOf
    <2>2. Syllable'
      BY <1>3, <1>6, <1>8, <1>13, <2>1 DEF Syllable, Open
    <2>3. sent' \in ImeText
      BY <1>1, <2>1 DEF ImeTyped
    <2>4. QED
      BY <1>10, <1>11, <2>2, <2>3 DEF ImeInv
  <1>14. QED
    BY <1>9, <1>12, <1>13 DEF ImeInv, Ended, Following

LEMMA TaskRuns ==
  ASSUME ImeInv, RunTask
  PROVE  ImeInv'
  <1>1. /\ tasks # <<>> /\ ~Atomic /\ tasks' = Tail(tasks) /\ UNCHANGED <<burst, committed, strokes>>
    BY DEF RunTask
  <1>2. CASE Head(tasks).do = "end"
    BY <1>1, <1>2, EndRuns DEF RunTask
  <1>3. CASE Head(tasks).do = "read"
    BY <1>1, <1>3, ReadRuns DEF RunTask, Emit
  <1>4. CASE Head(tasks).do = "diff"
    BY <1>1, <1>4, DiffRuns DEF RunTask, Emit
  <1>5. CASE Head(tasks).do = "clear"
    BY <1>1, <1>5, ClearRuns DEF RunTask
  <1>6. QED
    BY <1>2, <1>3, <1>4, <1>5 DEF RunTask

LEMMA LateRests ==
  ASSUME NEW b \in {<<>>, <<"start", "update">>, <<"insert">>, <<"delete">>, <<"other">>, <<"update">>}
  PROVE  b \in Rests /\ b \notin FreshIme \cup {<<"modifier">>} /\ b \notin Ending
  <1>1. CASE b = <<>>
    BY <1>1 DEF Rests, FreshIme, Ending
  <1>2. CASE b \in {<<"insert">>, <<"delete">>, <<"other">>, <<"update">>}
    BY <1>2 DEF Rests, FreshIme, Ending
  <1>3. CASE b = <<"start", "update">>
    BY <1>3 DEF Rests, FreshIme, Ending
  <1>4. QED
    BY <1>1, <1>2, <1>3

LEMMA EndingRests ==
  ASSUME NEW b \in Ending
  PROVE  b \in Rests /\ b \notin FreshIme \cup {<<"modifier">>} /\ b # <<>>
  BY DEF Rests, FreshIme, Ending

ClearTask == [do |-> "clear"]

\* The tasks of a handler are put after those that wait.
LEMMA Queued ==
  ASSUME ImeTyped, ImeQueue, NEW us \in Seq(TaskKinds), us # <<>>, ~Waits(us, "diff"), NEW w, w = tasks \o us
  PROVE  /\ w \in Seq(TaskKinds) /\ w # <<>> /\ ToSet(w) = ToSet(tasks) \cup ToSet(us)
         /\ \A what : Waits(w, what) <=> (Waits(tasks, what) \/ Waits(us, what))
         /\ ~Waits(Tail(w), "diff") /\ (Pending(w) <=> ime.pending)
         /\ Pending(w) => Head(w) = Head(tasks)
  <1>1. tasks \in Seq(TaskKinds) /\ (tasks # <<>> => ~Waits(Tail(tasks), "diff"))
    BY DEF ImeTyped, ImeQueue
  <1>2. /\ tasks \o us \in Seq(TaskKinds) /\ tasks \o us # <<>>
        /\ ToSet(tasks \o us) = ToSet(tasks) \cup ToSet(us)
        /\ \A what : Waits(tasks \o us, what) <=> (Waits(tasks, what) \/ Waits(us, what))
        /\ ~Waits(Tail(tasks \o us), "diff") /\ (Pending(tasks \o us) <=> Pending(tasks))
        /\ Pending(tasks) => Head(tasks \o us) = Head(tasks)
    BY <1>1, TasksAdded
  <1>3. ime.pending <=> Pending(tasks)
    BY DEF ImeQueue
  <1>4. QED
    BY <1>2, <1>3

LEMMA ClearOnly ==
  /\ ClearTask \in TaskKinds /\ <<ClearTask>> \in Seq(TaskKinds) /\ <<ClearTask>> # <<>> /\ ToSet(<<ClearTask>>) = {ClearTask}
  /\ \A what : Waits(<<ClearTask>>, what) <=> what = "clear"
  <1>1. ClearTask \in TaskKinds /\ ClearTask.do = "clear"
    BY DEF ClearTask, TaskKinds
  <1>2. <<ClearTask>> \in Seq(TaskKinds) /\ <<ClearTask>> # <<>> /\ ToSet(<<ClearTask>>) = {ClearTask} /\ \A what : Waits(<<ClearTask>>, what) <=> (ClearTask.do = what)
    BY <1>1, TasksOf
  <1>3. QED
    BY <1>1, <1>2

LEMMA ImeIdle ==
  ASSUME ImeTyped, ImeQueue, tasks = <<>>
  PROVE  ~ime.sending /\ ~ime.pending /\ ~Pending(tasks) /\ (\A what : ~Waits(tasks, what)) /\ ToSet(tasks) = {}
  <1>1. (\A what : ~Waits(tasks, what)) /\ ~Pending(tasks) /\ ToSet(tasks) = {}
    BY NoTasks
  <1>2. QED
    BY <1>1 DEF ImeQueue

LEMMA FirstDiff ==
  ASSUME area.value \in ImeText, area'.value = area.value
  PROVE  DiffText(DiffTask)' = <<>> /\ DiffTask \in TaskKinds /\ DiffTask.do = "diff" /\ DiffTask.old = area.value
  <1>1. DiffTask \in TaskKinds /\ DiffTask.do = "diff" /\ DiffTask.old = area.value
    BY DEF DiffTask, TaskKinds
  <1>2. DiffText(DiffTask)' = <<>>
    <2>1. Len(area.value) \in Nat
      BY DEF ImeText
    <2>2. DiffTask'.old = area.value
      BY DEF DiffTask
    <2>3. QED
      BY <2>1, <2>2 DEF DiffText
  <1>3. QED
    BY <1>1, <1>2

LEMMA ImeKeydown ==
  ASSUME ImeInv, OnKeydown("ime")
  PROVE  ImeInv'
  <1>1. ImeTyped /\ ImeQueue /\ Dispatched("ime")
    BY DEF ImeInv, OnKeydown
  <1>2. burst \in FreshIme /\ burst' \in Rests
    <2>1. burst \in Rests
      BY <1>1 DEF ImeTyped
    <2>2. QED
      BY <1>1, <2>1, Dispatching DEF FreshIme
  <1>3. tasks = <<>>
    BY <1>1, <1>2 DEF ImeQueue
  <1>4. ~ime.sending /\ ~ime.pending /\ ~Pending(tasks) /\ (\A what : ~Waits(tasks, what)) /\ ToSet(tasks) = {}
    BY <1>1, <1>3, ImeIdle
  <1>5. ~Finalizes("ime", ime)
    BY DEF Finalizes
  <1>6. /\ ime' = [ime EXCEPT !.pending = @ \/ KeydownTasks("ime", ime) # <<>>]
        /\ tasks' = tasks \o KeydownTasks("ime", ime) \o <<ClearTask>>
        /\ sent' = sent \o (<<>> \o <<>>) /\ committed' = committed \o <<>> \o <<>> /\ area' = area /\ strokes' = strokes
    BY <1>5 DEF OnKeydown, Emit, Dispatched, ClearTask
  <1>7. sent' = sent /\ committed' = committed
    <2>1. sent \in Seq(Int) /\ committed \in Seq(Int) /\ <<>> \o <<>> = <<>>
      BY <1>1 DEF ImeTyped, ImeText
    <2>2. sent \o <<>> = sent /\ committed \o <<>> = committed
      BY <2>1, ConcatEmptySeq
    <2>3. QED
      BY <1>6, <2>1, <2>2
  <1>8. ime \in ControllerOf(ime.already)
    BY <1>1 DEF ImeTyped
  <1>9. PICK p \in BOOLEAN : p = (ime.pending \/ KeydownTasks("ime", ime) # <<>>)
    OBVIOUS
  <1>10. /\ ime' \in ControllerOf(ime'.already)
         /\ ime'.sending = ime.sending /\ ime'.composing = ime.composing /\ ime'.start = ime.start /\ ime'.end = ime.end
         /\ ime'.suffix = ime.suffix /\ ime'.already = ime.already /\ ime'.pending = p
    BY <1>6, <1>8, <1>9 DEF ControllerOf
  <1>11. CASE Plain
    <2>1. ~Active(ime)
      BY <1>4, <1>11 DEF Active, Plain, Shut
    <2>2. KeydownTasks("ime", ime) = <<DiffTask>> /\ <<DiffTask>> # <<>>
      BY <1>4, <2>1 DEF KeydownTasks
    <2>3. p
      BY <1>9, <2>2
    <2>4. area.value \in ImeText
      BY <1>1, ImeFields
    <2>5. DiffText(DiffTask)' = <<>> /\ DiffTask \in TaskKinds /\ DiffTask.do = "diff" /\ DiffTask.old = area.value
      BY <1>6, <2>4, FirstDiff
    <2>6. tasks' = <<DiffTask>> \o <<ClearTask>>
      <3>1. tasks' = <<>> \o <<DiffTask>> \o <<ClearTask>>
        BY <1>3, <1>6, <2>2
      <3>2. <<>> \o <<DiffTask>> = <<DiffTask>>
        <4>1. <<DiffTask>> \in Seq({DiffTask})
          OBVIOUS
        <4>2. QED
          BY <4>1, ConcatEmptySeq
      <3>3. QED
        BY <3>1, <3>2
    <2>7. /\ tasks' \in Seq(TaskKinds) /\ tasks' # <<>> /\ Head(tasks') = DiffTask /\ Tail(tasks') = <<ClearTask>>
          /\ \A what : Waits(tasks', what) <=> (DiffTask.do = what \/ ClearTask.do = what)
      <3>1. PICK one \in Seq(TaskKinds) : one = <<DiffTask>> /\ one # <<>> /\ ToSet(one) = {DiffTask}
        BY <2>5, TasksOf
      <3>2. Head(one) = DiffTask /\ Tail(one) = <<>>
        BY <3>1
      <3>3. PICK two \in Seq(TaskKinds) : two = <<ClearTask>> /\ ToSet(two) = {ClearTask}
        BY ClearOnly
      <3>4. /\ one \o two \in Seq(TaskKinds) /\ ToSet(one \o two) = ToSet(one) \cup ToSet(two)
            /\ one \o two # <<>> /\ Head(one \o two) = Head(one) /\ Tail(one \o two) = Tail(one) \o two
        BY <3>1, TaskJoin
      <3>5. <<>> \o two = two
        BY ConcatEmptySeq
      <3>6. tasks' = one \o two
        BY <2>6, <3>1, <3>3
      <3>7. ToSet(tasks') = {DiffTask, ClearTask}
        BY <3>1, <3>3, <3>4, <3>6
      <3>8. QED
        BY <3>2, <3>3, <3>4, <3>5, <3>6, <3>7 DEF Waits
    <2>8. ClearTask.do = "clear" /\ ~Waits(<<ClearTask>>, "diff") /\ Waits(tasks', "diff") /\ ~Waits(tasks', "read") /\ ~Waits(tasks', "end")
      BY <2>5, <2>7, ClearOnly DEF ClearTask
    <2>9. Pending(tasks')
      BY <2>5, <2>7 DEF Pending
    <2>10. burst \in {<<"ime", "start", "update">>, <<"ime", "insert">>, <<"ime", "delete">>}
      BY <1>2, <1>11 DEF Plain, FreshIme, Inserting, Deleting
    <2>11. /\ burst' \in {<<"start", "update">>, <<"insert">>, <<"delete">>}
           /\ burst' \in Inserting \cup Deleting => burst \in Inserting \cup Deleting
           /\ burst' \in Deleting => burst \in Deleting
      <3>1. CASE burst = <<"ime", "start", "update">>
        <4>1. burst' = <<"start", "update">>
          BY <1>1, <3>1 DEF Dispatched
        <4>2. QED
          BY <4>1, NotEdits
      <3>2. CASE burst = <<"ime", "insert">>
        <4>1. burst' = <<"insert">>
          BY <1>1, <3>2 DEF Dispatched
        <4>2. QED
          BY <3>2, <4>1 DEF Inserting, Deleting
      <3>3. CASE burst = <<"ime", "delete">>
        <4>1. burst' = <<"delete">>
          BY <1>1, <3>3 DEF Dispatched
        <4>2. QED
          BY <3>3, <4>1 DEF Inserting, Deleting
      <3>4. QED
        BY <2>10, <3>1, <3>2, <3>3
    <2>12. burst' \notin FreshIme \cup {<<"modifier">>} /\ burst' \notin Ending
      BY <2>11, LateRests
    <2>13. ImeTyped'
      BY <1>1, <1>2, <1>6, <1>7, <1>10, <2>7 DEF ImeTyped, Dispatched
    <2>14. ImeQueue'
      <3>1. ime'.pending <=> Pending(tasks')
        BY <1>10, <2>3, <2>9
      <3>2. ~Waits(Tail(tasks'), "diff")
        BY <2>7, <2>8
      <3>3. ~ime'.sending
        BY <1>4, <1>10
      <3>4. QED
        BY <2>8, <2>11, <2>12, <3>1, <3>2, <3>3 DEF ImeQueue
    <2>15. committed = sent /\ sent \in ImeText
      BY <1>1, <1>4, <1>11 DEF Plain, ImeTyped
    <2>16. Plain'
      <3>1. Shut' /\ ~ime'.sending
        BY <1>4, <1>6, <1>10, <1>11 DEF Plain, Shut
      <3>2. burst' \in {<<>>, <<"ime", "start", "update">>, <<"start", "update">>, <<"other">>} \cup Inserting \cup Deleting
        BY <2>11 DEF Inserting, Deleting
      <3>3. DiffText(Head(tasks))' = <<>>
        <4>1. PICK d : d = DiffTask
          OBVIOUS
        <4>2. Head(tasks') = d /\ d.old = area.value
          BY <2>5, <2>7, <4>1
        <4>3. Len(area.value) \in Nat
          BY <2>4 DEF ImeText
        <4>4. QED
          BY <1>6, <4>2, <4>3 DEF DiffText
      <3>4. <<>> \in ImeText
        BY DEF ImeText
      <3>5. committed' = sent' \o <<>>
        <4>1. sent \o <<>> = sent
          BY <2>15, ConcatEmptySeq DEF ImeText
        <4>2. QED
          BY <1>7, <2>15, <4>1
      <3>6. Head(tasks').old = area'.value
        BY <1>6, <2>5, <2>7
      <3>7. burst' \in Inserting \cup Deleting => area'.caret = Len(area'.value)
        BY <1>6, <1>11, <2>11 DEF Plain
      <3>8. burst' \in Deleting => area'.caret > 0
        BY <1>6, <1>11, <2>11 DEF Plain
      <3>9. QED
        BY <2>9, <3>1, <3>2, <3>3, <3>4, <3>5, <3>6, <3>7, <3>8 DEF Plain
    <2>17. QED
      BY <2>13, <2>14, <2>16 DEF ImeInv
  <1>12. CASE Syllable
    <2>1. Active(ime) /\ ime.composing
      BY <1>12 DEF Active, Syllable, Open
    <2>2. KeydownTasks("ime", ime) = <<>>
      BY <2>1 DEF KeydownTasks
    <2>3. ~p
      BY <1>4, <1>9, <2>2
    <2>4. tasks' = <<ClearTask>>
      <3>1. tasks' = <<>> \o <<>> \o <<ClearTask>>
        BY <1>3, <1>6, <2>2
      <3>2. <<>> \o <<>> = <<>> /\ <<>> \o <<ClearTask>> = <<ClearTask>>
        BY ClearOnly, ConcatEmptySeq
      <3>3. QED
        BY <3>1, <3>2
    <2>5. tasks' \in Seq(TaskKinds) /\ tasks' # <<>> /\ ToSet(tasks') = {ClearTask} /\ (\A what : Waits(tasks', what) <=> what = "clear")
      BY <2>4, ClearOnly
    <2>6. Tail(tasks') = <<>> /\ Head(tasks') = ClearTask /\ ClearTask.do = "clear"
      BY <2>4 DEF ClearTask
    <2>7. ~Pending(tasks')
      BY <2>6 DEF Pending
    <2>8. burst \in {<<"ime", "update">>, <<"ime", "end">>, <<"ime", "end", "start", "update">>, <<"ime", "end", "other">>}
      BY <1>2, <1>12 DEF Syllable, FreshIme, Ending
    <2>9. /\ burst' \in {<<"update">>} \cup Ending
          /\ burst' \in {<<"update">>, <<"end", "start", "update">>} \/ burst \in {<<"ime", "end">>, <<"ime", "end", "other">>}
      <3>1. CASE burst = <<"ime", "update">>
        BY <1>1, <3>1 DEF Dispatched
      <3>2. CASE burst = <<"ime", "end">>
        BY <1>1, <3>2 DEF Dispatched, Ending
      <3>3. CASE burst = <<"ime", "end", "start", "update">>
        BY <1>1, <3>3 DEF Dispatched, Ending
      <3>4. CASE burst = <<"ime", "end", "other">>
        BY <1>1, <3>4 DEF Dispatched, Ending
      <3>5. QED
        BY <2>8, <3>1, <3>2, <3>3, <3>4
    <2>10. burst' \notin FreshIme \cup {<<"modifier">>}
      BY <2>9, LateRests, EndingRests
    <2>11. ImeTyped'
      BY <1>1, <1>2, <1>6, <1>7, <1>10, <2>5 DEF ImeTyped, Dispatched
    <2>12. ImeQueue'
      <3>1. ime'.pending <=> Pending(tasks')
        BY <1>10, <2>3, <2>7
      <3>2. ~Waits(Tail(tasks'), "diff")
        BY <2>6, NoTasks
      <3>3. ~ime'.sending
        BY <1>4, <1>10
      <3>4. ~Waits(tasks', "end") /\ ~Waits(tasks', "diff") /\ \A t \in ToSet(tasks') : t.do = "clear"
        BY <2>5, <2>6
      <3>5. QED
        BY <2>10, <3>1, <3>2, <3>3, <3>4 DEF ImeQueue
    <2>13. ime.end = area.caret \/ burst' \in {<<"update">>, <<"end", "start", "update">>}
      <3>1. SUFFICES ASSUME burst \in {<<"ime", "end">>, <<"ime", "end", "other">>} PROVE ime.end = area.caret
        BY <2>9
      <3>2. burst \notin {<<"update">>, <<"ime", "update">>, <<"ime", "end", "start", "update">>, <<"end", "start", "update">>} /\ burst # <<>>
        BY <3>1
      <3>3. QED
        BY <1>12, <3>2 DEF Syllable
    <2>14. Syllable'
      BY <1>4, <1>6, <1>7, <1>10, <1>12, <2>9, <2>13 DEF Syllable, Open
    <2>15. QED
      BY <2>11, <2>12, <2>14 DEF ImeInv
  <1>13. QED
    BY <1>4, <1>11, <1>12 DEF ImeInv, Ended, Following

LEMMA ModifierKeydown ==
  ASSUME ImeInv, OnKeydown("modifier")
  PROVE  ImeInv'
  <1>1. ImeTyped /\ ImeQueue /\ Dispatched("modifier")
    BY DEF ImeInv, OnKeydown
  <1>2. burst = <<"modifier">> /\ burst' = <<>>
    BY <1>1, Dispatching DEF ImeTyped
  <1>3. tasks = <<>>
    BY <1>1, <1>2 DEF ImeQueue
  <1>4. ~ime.sending /\ ~ime.pending /\ ~Pending(tasks) /\ (\A what : ~Waits(tasks, what)) /\ ToSet(tasks) = {}
    BY <1>1, <1>3, ImeIdle
  <1>5. Syllable
    BY <1>2, <1>4 DEF ImeInv, Plain, Ended, Following, Inserting, Deleting
  <1>6. Active(ime)
    BY <1>5 DEF Active, Syllable, Open
  <1>7. KeydownTasks("modifier", ime) = <<>> /\ ~Finalizes("modifier", ime)
    BY <1>6 DEF KeydownTasks, Finalizes
  <1>8. /\ ime' = [ime EXCEPT !.pending = @ \/ KeydownTasks("modifier", ime) # <<>>]
        /\ tasks' = <<>> \o <<>> \o <<ClearTask>>
        /\ sent' = sent \o (<<>> \o <<>>) /\ committed' = committed \o <<>> \o <<>> /\ area' = area /\ strokes' = strokes
    BY <1>3, <1>7 DEF OnKeydown, Emit, Dispatched, ClearTask
  <1>9. sent' = sent /\ committed' = committed /\ tasks' = <<ClearTask>>
    <2>1. sent \in Seq(Int) /\ committed \in Seq(Int) /\ <<>> \o <<>> = <<>>
      BY <1>1 DEF ImeTyped, ImeText
    <2>2. sent \o <<>> = sent /\ committed \o <<>> = committed
      BY <2>1, ConcatEmptySeq
    <2>3. <<>> \o <<ClearTask>> = <<ClearTask>>
      BY ClearOnly, ConcatEmptySeq
    <2>4. QED
      BY <1>8, <2>1, <2>2, <2>3
  <1>10. ime \in ControllerOf(ime.already)
    BY <1>1 DEF ImeTyped
  <1>11. /\ ime' \in ControllerOf(ime'.already)
         /\ ime'.sending = ime.sending /\ ime'.composing = ime.composing /\ ime'.start = ime.start /\ ime'.end = ime.end
         /\ ime'.suffix = ime.suffix /\ ime'.already = ime.already /\ ~ime'.pending
    BY <1>4, <1>7, <1>8, <1>10 DEF ControllerOf
  <1>12. tasks' \in Seq(TaskKinds) /\ ToSet(tasks') = {ClearTask} /\ (\A what : Waits(tasks', what) <=> what = "clear")
    BY <1>9, ClearOnly
  <1>13. Tail(tasks') = <<>> /\ Head(tasks') = ClearTask /\ ClearTask.do = "clear"
    BY <1>9 DEF ClearTask
  <1>14. ~Pending(tasks')
    BY <1>13 DEF Pending
  <1>15. burst' \in Rests /\ burst' \notin FreshIme \cup {<<"modifier">>} /\ burst' \notin Ending
    BY <1>2, LateRests
  <1>16. ImeTyped'
    BY <1>1, <1>8, <1>9, <1>11, <1>12, <1>15 DEF ImeTyped
  <1>17. ImeQueue'
    BY <1>4, <1>11, <1>12, <1>13, <1>14, <1>15, NoTasks DEF ImeQueue
  <1>18. ime.end = area.caret
    BY <1>2, <1>5 DEF Syllable
  <1>19. Syllable'
    BY <1>2, <1>4, <1>5, <1>8, <1>9, <1>11, <1>18 DEF Syllable, Open
  <1>20. QED
    BY <1>16, <1>17, <1>19 DEF ImeInv

LEMMA Sending ==
  ASSUME NEW s \in ImeText, NEW x \in ImeText, NEW y \in ImeText
  PROVE  /\ s \o (x \o y) = (s \o x) \o y /\ s \o x \in ImeText /\ x \o y \in ImeText /\ (s \o x) \o y \in ImeText
         /\ s \o <<>> = s /\ <<>> \o s = s
  <1>1. s \in Seq(Int) /\ x \in Seq(Int) /\ y \in Seq(Int)
    BY DEF ImeText
  <1>2. s \o (x \o y) = (s \o x) \o y
    BY <1>1, ConcatAssociative
  <1>3. s \o x \in Seq(Int) /\ x \o y \in Seq(Int)
    BY <1>1, ConcatProperties
  <1>4. (s \o x) \o y \in Seq(Int)
    BY <1>1, <1>3, ConcatProperties
  <1>5. s \o <<>> = s /\ <<>> \o s = s
    BY <1>1, ConcatEmptySeq
  <1>6. QED
    BY <1>2, <1>3, <1>4, <1>5 DEF ImeText

\* Any other key: a commit still to come is sent at once, and then the key.
LEMMA OtherKeydown ==
  ASSUME ImeInv, OnKeydown("other")
  PROVE  ImeInv'
  <1>1. ImeTyped /\ ImeQueue /\ Dispatched("other")
    BY DEF ImeInv, OnKeydown
  <1>2. burst = <<"other">> /\ burst' = <<>>
    BY <1>1, Dispatching DEF ImeTyped
  <1>3. ~Waits(tasks, "diff") /\ ~Waits(tasks, "end")
    BY <1>1, <1>2 DEF ImeQueue
  <1>4. ~Pending(tasks)
    <2>1. tasks \in Seq(TaskKinds)
      BY <1>1 DEF ImeTyped
    <2>2. tasks # <<>> => Head(tasks) \in ToSet(tasks)
      BY <2>1, TaskTail
    <2>3. QED
      BY <1>3, <2>2 DEF Pending, Waits
  <1>5. ~ime.pending
    BY <1>1, <1>4 DEF ImeQueue
  <1>6. KeydownTasks("other", ime) = <<>>
    BY DEF KeydownTasks
  <1>7. Finalizes("other", ime) <=> Active(ime)
    BY DEF Finalizes
  <1>8. tasks' = tasks \o <<ClearTask>>
    <2>1. tasks' = tasks \o <<>> \o <<ClearTask>>
      BY <1>6 DEF OnKeydown, ClearTask
    <2>2. tasks \o <<>> = tasks
      BY <1>1, ConcatEmptySeq DEF ImeTyped
    <2>3. QED
      BY <2>1, <2>2
  <1>9. /\ tasks' \in Seq(TaskKinds) /\ ~Waits(Tail(tasks'), "diff") /\ ~Pending(tasks')
        /\ \A what : Waits(tasks', what) <=> (Waits(tasks, what) \/ what = "clear")
    <2>1. <<ClearTask>> \in Seq(TaskKinds) /\ <<ClearTask>> # <<>> /\ \A what : Waits(<<ClearTask>>, what) <=> what = "clear"
      BY ClearOnly
    <2>2. ~Waits(<<ClearTask>>, "diff")
      BY <2>1
    <2>3. /\ tasks' \in Seq(TaskKinds) /\ ~Waits(Tail(tasks'), "diff") /\ (Pending(tasks') <=> ime.pending)
          /\ \A what : Waits(tasks', what) <=> (Waits(tasks, what) \/ Waits(<<ClearTask>>, what))
      BY <1>1, <1>8, <2>1, <2>2, Queued
    <2>4. QED
      BY <1>5, <2>1, <2>3
  <1>10. burst' \in Rests /\ burst' \notin FreshIme \cup {<<"modifier">>} /\ burst' \notin Ending /\ burst' \notin Inserting \cup Deleting
         /\ burst' \notin {<<"insert">>, <<"delete">>}
    BY <1>2, LateRests, NotEdits
  <1>11. ime \in ControllerOf(ime.already)
    BY <1>1 DEF ImeTyped
  <1>12. /\ ime' \in ControllerOf(ime'.already)
         /\ ~ime'.sending /\ ~ime'.composing /\ ~ime'.pending
    <2>1. CASE Active(ime)
      <3>1. ime' = [ime EXCEPT !.composing = FALSE, !.sending = FALSE]
        BY <1>7, <2>1 DEF OnKeydown, FinalizeNow
      <3>2. QED
        BY <1>5, <1>11, <3>1 DEF ControllerOf
    <2>2. CASE ~Active(ime)
      <3>1. ime' = [ime EXCEPT !.pending = @ \/ KeydownTasks("other", ime) # <<>>]
        BY <1>7, <2>2 DEF OnKeydown
      <3>2. QED
        BY <1>5, <1>6, <1>11, <2>2, <3>1 DEF Active, ControllerOf
    <2>3. QED
      BY <2>1, <2>2
  <1>13. PICK x : x = IF Active(ime) THEN Substring(area.value, ime.start, Larger(ime.start, ime.end)) ELSE <<>>
    OBVIOUS
  <1>14. PICK y : y = IF area.from # NoStart THEN Composed ELSE <<>>
    OBVIOUS
  <1>15. sent' = sent \o (x \o <<Key>>) /\ committed' = committed \o y \o <<Key>>
    BY <1>7, <1>13, <1>14 DEF OnKeydown, Emit
  <1>16. area' = IF area.from # NoStart THEN [area EXCEPT !.from = NoStart] ELSE area
    BY DEF OnKeydown
  <1>17. area' \in [value : ImeText, caret : Nat, from : Int] /\ area'.caret <= Len(area'.value) /\ area'.from = NoStart
    <2>1. area \in [value : ImeText, caret : Nat, from : Int] /\ area.caret <= Len(area.value) /\ NoStart \in Int
      BY <1>1 DEF ImeTyped, NoStart
    <2>2. QED
      BY <1>16, <2>1
  <1>18. sent \in ImeText /\ <<Key>> \in ImeText /\ <<>> \in ImeText /\ area.value \in ImeText /\ area.caret \in Nat /\ area.caret <= Len(area.value)
         /\ ime.start \in Nat
    <2>1. <<Key>> \in ImeText /\ <<>> \in ImeText
      BY DEF ImeText, Key
    <2>2. QED
      BY <1>1, <2>1, ImeFields
  <1>19. x \in ImeText /\ committed \o y = sent \o x
    <2>1. CASE Plain
      <3>1. ~Active(ime) /\ area.from = NoStart
        BY <2>1 DEF Plain, Shut, Active
      <3>2. x = <<>> /\ y = <<>> /\ committed = sent
        BY <1>4, <1>13, <1>14, <2>1, <3>1 DEF Plain
      <3>3. QED
        BY <1>18, <3>2
    <2>2. ASSUME ime.start <= area.caret, ime.end = area.caret, Active(ime)
          PROVE  x = Substring(area.value, ime.start, area.caret) /\ x \in ImeText
      <3>1. Larger(ime.start, ime.end) = area.caret
        BY <1>18, <2>2 DEF Larger
      <3>2. Substring(area.value, ime.start, area.caret) \in ImeText
        BY <1>18, <2>2, CutTyped
      <3>3. QED
        BY <1>13, <2>2, <3>1, <3>2
    <2>3. CASE Syllable
      <3>1. ime.start <= area.caret /\ ime.end = area.caret /\ Active(ime) /\ area.from = ime.start /\ committed = sent
        BY <1>2, <2>3 DEF Syllable, Open, Active
      <3>2. area.from # NoStart
        BY <1>18, <3>1 DEF NoStart
      <3>3. y = Substring(area.value, ime.start, area.caret)
        BY <1>14, <3>1, <3>2 DEF Composed
      <3>4. QED
        BY <2>2, <3>1, <3>3
    <2>4. CASE Ended
      <3>1. /\ ime.start <= area.caret /\ ime.end = area.caret /\ Active(ime) /\ area.from = NoStart
            /\ committed = sent \o Substring(area.value, ime.start, area.caret)
        BY <1>2, <2>4 DEF Ended, Shut, Active
      <3>2. y = <<>> /\ x \in ImeText /\ committed = sent \o x
        BY <1>14, <2>2, <3>1
      <3>3. (sent \o x) \o <<>> = sent \o x
        BY <1>18, <3>2, Sending
      <3>4. QED
        BY <3>2, <3>3
    <2>5. CASE Following
      BY <1>2, <2>5 DEF Following
    <2>6. QED
      BY <2>1, <2>3, <2>4, <2>5 DEF ImeInv
  <1>20. committed' = sent' /\ sent' \in ImeText
    <2>1. PICK k \in ImeText : k = <<Key>>
      BY <1>18
    <2>2. sent \in ImeText /\ x \in ImeText
      BY <1>18, <1>19
    <2>3. sent \in Seq(Int) /\ x \in Seq(Int) /\ k \in Seq(Int)
      BY <2>1, <2>2 DEF ImeText
    <2>3a. sent \o (x \o k) = (sent \o x) \o k
      BY <2>3, ConcatAssociative
    <2>3b. PICK z \in Seq(Int) : z = sent \o x
      BY <2>3, ConcatProperties
    <2>3c. z \o k \in Seq(Int)
      BY <2>3, <2>3b, ConcatProperties
    <2>3d. (sent \o x) \o k \in ImeText
      BY <2>3b, <2>3c DEF ImeText
    <2>4. sent' = sent \o (x \o k) /\ committed' = (committed \o y) \o k
      BY <1>15, <2>1
    <2>5. QED
      BY <1>19, <2>3a, <2>3d, <2>4
  <1>21. ImeTyped'
    <2>1. strokes' \in Nat
      BY <1>1 DEF ImeTyped, Dispatched
    <2>2. QED
      BY <1>9, <1>10, <1>12, <1>17, <1>20, <2>1 DEF ImeTyped
  <1>22. ImeQueue'
    BY <1>3, <1>9, <1>10, <1>12 DEF ImeQueue
  <1>23. Plain'
    BY <1>2, <1>9, <1>10, <1>12, <1>17, <1>20 DEF Plain, Shut
  <1>24. QED
    BY <1>21, <1>22, <1>23 DEF ImeInv

LEMMA ImeStart ==
  ASSUME ImeInv, OnStart
  PROVE  ImeInv'
  <1>1. ImeTyped /\ ImeQueue /\ Dispatched("start")
    BY DEF ImeInv, OnStart
  <1>2. burst = <<"start", "update">> /\ burst' = <<"update">>
    BY <1>1, Dispatching DEF ImeTyped
  <1>3. /\ area.value \in ImeText /\ area.caret \in Nat /\ area.from \in Int /\ Len(area.value) \in Nat /\ area.caret <= Len(area.value)
    BY <1>1, ImeFields
  <1>4. PICK x \in ImeText : x = Substring(area.value, area.caret, Len(area.value))
    <2>1. PICK n \in Nat : n = Len(area.value) /\ area.caret <= n /\ n <= Len(area.value)
      BY <1>3
    <2>2. Substring(area.value, area.caret, n) \in ImeText
      BY <1>3, <2>1, CutTyped
    <2>3. QED
      BY <2>1, <2>2
  <1>5. ime' = [ime EXCEPT !.composing = TRUE, !.start = area.caret, !.end = area.caret, !.suffix = x, !.already = <<>>]
    BY <1>4 DEF OnStart, CompositionStart
  <1>6. ime \in ControllerOf(ime.already)
    BY <1>1 DEF ImeTyped
  <1>7. /\ ime' \in ControllerOf(ime'.already)
        /\ ime'.composing /\ ime'.start = area.caret /\ ime'.end = area.caret /\ ime'.suffix = x /\ ime'.already = <<>>
        /\ ime'.sending = ime.sending /\ ime'.pending = ime.pending
    BY <1>3, <1>5, <1>6 DEF ControllerOf
  <1>8. /\ area' \in [value : ImeText, caret : Nat, from : Int] /\ area'.value = area.value /\ area'.caret = area.caret /\ area'.from = area.caret
    <2>1. area \in [value : ImeText, caret : Nat, from : Int]
      BY <1>1 DEF ImeTyped
    <2>2. QED
      BY <1>3, <2>1 DEF OnStart
  <1>9. tasks' = tasks /\ sent' = sent /\ committed' = committed /\ strokes' = strokes
    BY <1>1 DEF OnStart, Dispatched
  <1>10. burst' \in Rests /\ burst' \notin FreshIme \cup {<<"modifier">>} /\ burst' \notin Ending
    BY <1>2, LateRests
  <1>11. ImeTyped'
    BY <1>1, <1>3, <1>7, <1>8, <1>9, <1>10 DEF ImeTyped
  <1>12. ~Waits(tasks, "end")
    BY <1>1, <1>2 DEF ImeQueue
  <1>13. ImeQueue'
    BY <1>1, <1>2, <1>7, <1>9, <1>10, <1>12 DEF ImeQueue
  <1>14. Open'
    BY <1>3, <1>4, <1>7, <1>8 DEF Open
  <1>15. CASE Plain
    <2>1. committed = sent
      <3>1. CASE Pending(tasks)
        <4>1. Head(tasks).old = area.value
          BY <1>2, <1>15, <3>1 DEF Plain
        <4>2. DiffText(Head(tasks)) = <<>>
          BY <1>3, <4>1 DEF DiffText
        <4>3. committed = sent \o <<>> /\ sent \in Seq(Int)
          BY <1>1, <1>15, <3>1, <4>2 DEF Plain, ImeTyped, ImeText
        <4>4. QED
          BY <4>3, ConcatEmptySeq
      <3>2. QED
        BY <1>15, <3>1 DEF Plain
    <2>2. Syllable'
      BY <1>2, <1>7, <1>8, <1>9, <1>14, <1>15, <2>1 DEF Syllable, Plain
    <2>3. QED
      BY <1>11, <1>13, <2>2 DEF ImeInv
  <1>16. CASE Ended
    <2>1. Following'
      BY <1>2, <1>7, <1>8, <1>9, <1>14, <1>16 DEF Following, Ended
    <2>2. QED
      BY <1>11, <1>13, <2>1 DEF ImeInv
  <1>17. CASE Syllable
    BY <1>2, <1>17 DEF Syllable, Ending
  <1>18. CASE Following
    BY <1>2, <1>18 DEF Following
  <1>19. QED
    BY <1>15, <1>16, <1>17, <1>18 DEF ImeInv

LEMMA ImeUpdate ==
  ASSUME ImeInv, OnUpdate
  PROVE  ImeInv'
  <1>1. ImeTyped /\ ImeQueue /\ Dispatched("update")
    BY DEF ImeInv, OnUpdate
  <1>2. burst = <<"update">> /\ burst' = <<>>
    BY <1>1, Dispatching DEF ImeTyped
  <1>3. Syllable \/ Following
    BY <1>2 DEF ImeInv, Plain, Ended, Inserting, Deleting
  <1>4. Open
    BY <1>3 DEF Syllable, Following
  <1>5. /\ area.value \in ImeText /\ area.caret \in Nat /\ Len(area.value) \in Nat /\ area.caret <= Len(area.value)
        /\ ime.start \in Nat /\ area.from = ime.start /\ ime.start <= area.caret /\ ime.composing
    BY <1>1, <1>4, ImeFields DEF Open
  <1>6. PICK n \in 1..2 : area' = Replaced(area, ime.start, Letters(n))
    BY <1>5 DEF OnUpdate
  <1>7. strokes \in Nat /\ n \in Nat
    BY <1>1 DEF ImeTyped
  <1>8. PICK text \in ImeText : text = Letters(n) /\ Len(text) = n
    BY <1>7, LettersAre
  <1>9. PICK s \in Nat : s = ime.start
    BY <1>5
  <1>10. /\ area' \in [value : ImeText, caret : Nat, from : Int] /\ area'.caret <= Len(area'.value) /\ area'.from = area.from
         /\ area'.caret = s + Len(text)
         /\ Substring(area'.value, area'.caret, Len(area'.value)) = Substring(area.value, area.caret, Len(area.value))
         /\ \A k \in 0..s : Substring(area'.value, k, s) = Substring(area.value, k, s)
    <2>1. s <= area.caret /\ area' = Replaced(area, s, text)
      BY <1>5, <1>6, <1>8, <1>9
    <2>2. QED
      BY <1>1, <2>1, Edited
  <1>11. ime' = ime /\ sent' = sent /\ committed' = committed /\ strokes' = strokes
    BY <1>1 DEF OnUpdate, Dispatched
  <1>12. PICK e : e = [do |-> "end"]
    OBVIOUS
  <1>13. e \in TaskKinds /\ e.do = "end"
    BY <1>12 DEF TaskKinds
  <1>14. <<e>> \in Seq(TaskKinds) /\ <<e>> # <<>> /\ ToSet(<<e>>) = {e} /\ \A what : Waits(<<e>>, what) <=> (e.do = what)
    <2>1. e \in TaskKinds
      BY <1>13
    <2>2. <<e>> \in Seq(TaskKinds) /\ <<e>> # <<>> /\ ToSet(<<e>>) = {e}
      BY <2>1, TasksOf
    <2>3. QED
      BY <2>2 DEF Waits
  <1>15. tasks' = tasks \o <<e>>
    <2>1. tasks' = Append(tasks, e)
      BY <1>12 DEF OnUpdate
    <2>2. tasks \in Seq(TaskKinds)
      BY <1>1 DEF ImeTyped
    <2>3. QED
      BY <1>13, <2>1, <2>2, AppendIsConcat
  <1>16. /\ tasks' \in Seq(TaskKinds) /\ ToSet(tasks') = ToSet(tasks) \cup {e} /\ ~Waits(Tail(tasks'), "diff") /\ (Pending(tasks') <=> ime.pending)
         /\ \A what : Waits(tasks', what) <=> (Waits(tasks, what) \/ what = "end")
    <2>1. ~Waits(<<e>>, "diff")
      BY <1>13, <1>14
    <2>2. /\ tasks' \in Seq(TaskKinds) /\ ToSet(tasks') = ToSet(tasks) \cup ToSet(<<e>>) /\ ~Waits(Tail(tasks'), "diff") /\ (Pending(tasks') <=> ime.pending)
          /\ \A what : Waits(tasks', what) <=> (Waits(tasks, what) \/ Waits(<<e>>, what))
      BY <1>1, <1>14, <1>15, <2>1, Queued
    <2>3. QED
      BY <1>13, <1>14, <2>2
  <1>17. burst' \in Rests /\ burst' \notin FreshIme \cup {<<"modifier">>} /\ burst' \notin Ending
    BY <1>2, LateRests
  <1>18. ImeTyped'
    BY <1>1, <1>10, <1>11, <1>16, <1>17 DEF ImeTyped
  <1>19. ImeQueue'
    BY <1>1, <1>2, <1>5, <1>11, <1>16, <1>17 DEF ImeQueue
  <1>20. Open'
    BY <1>4, <1>8, <1>9, <1>10, <1>11 DEF Open
  <1>21. CASE Syllable
    <2>1. Syllable'
      BY <1>2, <1>11, <1>16, <1>20, <1>21 DEF Syllable
    <2>2. QED
      BY <1>18, <1>19, <2>1 DEF ImeInv
  <1>22. CASE Following
    <2>1. ASSUME NEW t \in ToSet(tasks'), t.do = "read"
          PROVE  t.start <= ime'.start /\ committed' = sent' \o Substring(area'.value, t.start, ime'.start)
      <3>1. t \in ToSet(tasks) /\ t \in TaskKinds
        <4>1. ToSet(tasks') \subseteq TaskKinds
          <5>1. tasks' # <<>>
            BY <1>16, <2>1, NoTasks
          <5>2. QED
            BY <1>16, <5>1, TaskTail
        <4>2. QED
          BY <1>13, <1>16, <2>1, <4>1
      <3>2. t.start <= ime.start /\ committed = sent \o Substring(area.value, t.start, ime.start)
        BY <1>22, <2>1, <3>1 DEF Following
      <3>3. t.start \in Nat
        BY <2>1, <3>1 DEF TaskKinds
      <3>4. Substring(area'.value, t.start, s) = Substring(area.value, t.start, s)
        <4>1. t.start \in 0..s
          BY <1>9, <3>2, <3>3
        <4>2. QED
          BY <1>10, <4>1
      <3>5. QED
        BY <1>9, <1>11, <3>2, <3>4
    <2>2. Following'
      BY <1>2, <1>11, <1>16, <1>20, <1>22, <2>1 DEF Following
    <2>3. QED
      BY <1>18, <1>19, <2>2 DEF ImeInv
  <1>23. QED
    BY <1>3, <1>21, <1>22

LEMMA Shortened ==
  ASSUME NEW x \in ImeText, NEW drop \in {0, 1}, drop = 1 => Len(x) > 1
  PROVE  LET z == Substring(x, 0, Len(x) - drop) IN z \in ImeText /\ Len(z) = Len(x) - drop
  <1>1. PICK n \in Int : n = Len(x) - drop
    BY DEF ImeText
  <1>2. n \in Nat /\ 0 <= n /\ n <= Len(x) /\ 0 \in Nat /\ n - 0 = n
    BY <1>1 DEF ImeText
  <1>3. Substring(x, 0, n) \in ImeText /\ Len(Substring(x, 0, n)) = n - 0
    BY <1>2, CutTyped
  <1>4. QED
    BY <1>1, <1>2, <1>3

LEMMA ImeEnd ==
  ASSUME ImeInv, OnEnd
  PROVE  ImeInv'
  <1>1. ImeTyped /\ ImeQueue /\ Dispatched("end")
    BY DEF ImeInv, OnEnd
  <1>2. \/ burst = <<"end">> /\ burst' = <<>>
        \/ burst = <<"end", "start", "update">> /\ burst' = <<"start", "update">>
        \/ burst = <<"end", "other">> /\ burst' = <<"other">>
    BY <1>1, Dispatching DEF ImeTyped
  <1>3. burst \in Ending
    BY <1>2 DEF Ending
  <1>4. \A t \in ToSet(tasks) : t.do = "clear"
    BY <1>1, <1>3 DEF ImeQueue
  <1>5. Syllable
    BY <1>2, <1>3 DEF ImeInv, Plain, Ended, Following, Inserting, Deleting
  <1>6. /\ area.value \in ImeText /\ area.caret \in Nat /\ Len(area.value) \in Nat /\ area.caret <= Len(area.value)
        /\ ime.start \in Nat /\ ime.suffix \in ImeText /\ committed \in ImeText /\ sent \in ImeText
    BY <1>1, ImeFields
  <1>7. /\ area.from = ime.start /\ ime.start <= area.caret /\ ime.composing /\ ime.already = <<>> /\ ~ime.sending /\ committed = sent
        /\ ime.suffix = Substring(area.value, area.caret, Len(area.value))
    BY <1>5 DEF Syllable, Open
  <1>8. PICK s \in Nat : s = ime.start
    BY <1>6
  <1>9. PICK x \in ImeText : x = Composed /\ Len(x) = area.caret - s
    <2>1. Substring(area.value, s, area.caret) \in ImeText /\ Len(Substring(area.value, s, area.caret)) = area.caret - s
      <3>1. s <= area.caret /\ area.caret <= Len(area.value)
        BY <1>6, <1>7, <1>8
      <3>2. QED
        BY <1>6, <3>1, CutTyped
    <2>2. QED
      BY <1>7, <1>8, <2>1 DEF Composed
  <1>10. PICK drop \in {0, 1} :
           /\ drop = 1 => Len(x) > 1 /\ Last(burst) = "update"
           /\ area' = [Replaced(area, s, Substring(x, 0, Len(x) - drop)) EXCEPT !.from = NoStart]
           /\ committed' = committed \o Substring(x, 0, Len(x) - drop)
    <2>1. PICK drop \in IF Len(x) > 1 /\ Tail(burst) # <<>> /\ Last(burst) = "update" THEN {0, 1} ELSE {0} :
           /\ area' = [Replaced(area, s, Substring(x, 0, Len(x) - drop)) EXCEPT !.from = NoStart]
           /\ committed' = committed \o Substring(x, 0, Len(x) - drop)
      BY <1>7, <1>8, <1>9 DEF OnEnd
    <2>2. drop \in {0, 1} /\ (drop = 1 => Len(x) > 1 /\ Last(burst) = "update")
      BY <2>1
    <2>3. QED
      BY <2>1, <2>2
  <1>11. PICK final \in ImeText : final = Substring(x, 0, Len(x) - drop) /\ Len(final) = Len(x) - drop
    BY <1>10, Shortened
  <1>12. PICK b : b = Replaced(area, s, final)
    OBVIOUS
  <1>13. /\ b \in [value : ImeText, caret : Nat, from : Int] /\ b.caret <= Len(b.value)
         /\ b.caret = s + Len(final)
         /\ Substring(b.value, s, b.caret) = final
         /\ Substring(b.value, b.caret, Len(b.value)) = Substring(area.value, area.caret, Len(area.value))
    <2>1. s <= area.caret
      BY <1>7, <1>8
    <2>2. QED
      BY <1>1, <1>12, <2>1, Edited
  <1>14. /\ area' \in [value : ImeText, caret : Nat, from : Int] /\ area'.value = b.value /\ area'.caret = b.caret /\ area'.from = NoStart
    <2>1. area' = [b EXCEPT !.from = NoStart] /\ NoStart \in Int
      BY <1>10, <1>11, <1>12 DEF NoStart
    <2>2. QED
      BY <1>13, <2>1
  <1>15. committed' = sent \o final /\ committed' \in ImeText
    <2>1. committed' = sent \o final
      BY <1>7, <1>10, <1>11
    <2>2. sent \o final \in Seq(Int)
      BY <1>6, ConcatProperties DEF ImeText
    <2>3. QED
      BY <2>1, <2>2 DEF ImeText
  <1>16. /\ ime' \in ControllerOf(ime'.already)
         /\ ime'.sending /\ ~ime'.composing /\ ime'.start = s /\ ime'.end = ime.end
         /\ ime'.suffix = ime.suffix /\ ime'.already = <<>> /\ ime'.pending = ime.pending
    <2>1. ime \in ControllerOf(ime.already)
      BY <1>1 DEF ImeTyped
    <2>2. ime' = [ime EXCEPT !.composing = FALSE, !.sending = TRUE]
      BY DEF OnEnd, FinalizeDeferred
    <2>3. QED
      BY <1>7, <1>8, <2>1, <2>2 DEF ControllerOf
  <1>17. PICK t : t = ReadTask(ime)
    OBVIOUS
  <1>18. t \in TaskKinds /\ t.do = "read" /\ t.start = s /\ t.suffix = ime.suffix
    BY <1>6, <1>8, <1>17 DEF ReadTask, TaskKinds
  <1>19. ClearTask \in TaskKinds /\ ClearTask.do = "clear"
    BY ClearOnly DEF ClearTask
  <1>20. PICK us \in Seq(TaskKinds) : us = <<t, ClearTask>> /\ us # <<>> /\ ToSet(us) = {t, ClearTask}
    <2>1. t \in TaskKinds /\ ClearTask \in TaskKinds
      BY <1>18, <1>19
    <2>2. <<t, ClearTask>> \in Seq(TaskKinds) /\ <<t, ClearTask>> # <<>> /\ ToSet(<<t, ClearTask>>) = {t, ClearTask}
      BY <2>1, TasksOf
    <2>3. QED
      BY <2>2
  <1>21. tasks' = tasks \o us
    BY <1>17, <1>20 DEF OnEnd, ClearTask
  <1>22. /\ tasks' \in Seq(TaskKinds) /\ ToSet(tasks') = ToSet(tasks) \cup {t, ClearTask} /\ ~Waits(Tail(tasks'), "diff") /\ (Pending(tasks') <=> ime.pending)
    <2>1. ~Waits(us, "diff")
      BY <1>18, <1>19, <1>20 DEF Waits
    <2>2. QED
      BY <1>1, <1>20, <1>21, <2>1, Queued
  <1>23. ~Waits(tasks', "end") /\ ~Waits(tasks', "diff") /\ Waits(tasks', "read")
    BY <1>4, <1>18, <1>19, <1>22 DEF Waits
  <1>24. burst' \in {<<>>, <<"start", "update">>, <<"other">>}
    BY <1>2
  <1>25. burst' \in Rests /\ burst' \notin FreshIme \cup {<<"modifier">>} /\ burst' \notin Ending
    BY <1>24, LateRests
  <1>26. sent' = sent /\ strokes' = strokes
    BY <1>1 DEF OnEnd, Dispatched
  <1>27. ImeTyped'
    BY <1>1, <1>13, <1>14, <1>15, <1>16, <1>22, <1>25, <1>26 DEF ImeTyped
  <1>28. ImeQueue'
    BY <1>16, <1>22, <1>23, <1>25 DEF ImeQueue
  <1>29. burst' = <<"other">> => ime'.end = area'.caret
    <2>1. SUFFICES ASSUME burst' = <<"other">> PROVE ime.end = b.caret
      BY <1>14, <1>16
    <2>2. burst = <<"end", "other">>
      BY <1>2, <2>1
    <2>3. Last(burst) = "other"
      BY <2>2 DEF Last
    <2>4. drop = 0
      BY <1>10, <2>3
    <2>5. b.caret = area.caret
      BY <1>6, <1>9, <1>11, <1>13, <2>4
    <2>6. ime.end = area.caret
      BY <1>5, <2>2 DEF Syllable
    <2>7. QED
      BY <2>5, <2>6
  <1>30. ASSUME NEW k \in ToSet(tasks'), k.do = "read"
         PROVE  k.start = ime'.start /\ k.suffix = Substring(area'.value, area'.caret, Len(area'.value))
    <2>1. k = t
      BY <1>4, <1>19, <1>22, <1>30
    <2>2. QED
      BY <1>7, <1>13, <1>14, <1>16, <1>18, <2>1
  <1>31. ime'.start <= area'.caret /\ committed' = sent' \o Substring(area'.value, ime'.start, area'.caret)
    <2>1. Len(final) \in Nat
      BY DEF ImeText
    <2>2. ime'.start = s /\ area'.caret = s + Len(final) /\ area'.caret = b.caret /\ area'.value = b.value /\ sent' = sent
      BY <1>13, <1>14, <1>16, <1>26
    <2>3. s <= s + Len(final)
      BY <2>1
    <2>4. Substring(area'.value, ime'.start, area'.caret) = final
      BY <1>13, <2>2
    <2>5. QED
      BY <1>15, <2>2, <2>3, <2>4
  <1>32. Ended'
    BY <1>14, <1>16, <1>24, <1>29, <1>30, <1>31 DEF Ended, Shut
  <1>33. QED
    BY <1>27, <1>28, <1>32 DEF ImeInv

\* The text after the caret is nothing at the end of it.
LEMMA AtTheEnd ==
  ASSUME ImeTyped, Plain, burst \in Inserting \cup Deleting, Pending(tasks)
  PROVE  /\ area.caret = Len(area.value) /\ Head(tasks).old = area.value /\ committed = sent /\ sent \in ImeText
         /\ Substring(area.value, area.caret, Len(area.value)) = <<>>
  <1>1. burst # <<>>
    BY DEF Inserting, Deleting
  <1>2. area.caret = Len(area.value) /\ Head(tasks).old = area.value
    BY <1>1 DEF Plain
  <1>3. area.value \in ImeText /\ Len(area.value) \in Nat /\ sent \in ImeText
    BY ImeFields
  <1>4. DiffText(Head(tasks)) = <<>>
    BY <1>2, <1>3 DEF DiffText
  <1>5. committed = sent
    <2>1. committed = sent \o <<>> /\ sent \in Seq(Int)
      BY <1>3, <1>4 DEF Plain, ImeText
    <2>2. QED
      BY <2>1, ConcatEmptySeq
  <1>6. Substring(area.value, area.caret, Len(area.value)) = <<>>
    <2>1. PICK n : n = area.caret
      OBVIOUS
    <2>2. n \in 0..Len(area.value) /\ n = Len(area.value) /\ area.value \in Seq(Int)
      BY <1>2, <1>3, <2>1 DEF ImeText
    <2>3. QED
      BY <2>1, <2>2, CutNothing
  <1>7. QED
    BY <1>2, <1>3, <1>5, <1>6

\* What a plain edit does, once the text has changed by it.
LEMMA EditsAreLeft ==
  ASSUME NEW b \in {<<"insert">>, <<"delete">>}
  PROVE  b # <<>>
  OBVIOUS

LEMMA PlainEdits ==
  ASSUME ImeInv, Plain, burst \in {<<"insert">>, <<"delete">>}, burst' = <<>>, UNCHANGED <<ime, tasks, sent, strokes>>,
         area' \in [value : ImeText, caret : Nat, from : Int], area'.caret <= Len(area'.value), area'.from = area.from,
         NEW text \in ImeText, DiffText(Head(tasks))' = text, committed' = sent \o text
  PROVE  ImeInv'
  <1>1. ImeTyped /\ ImeQueue
    BY DEF ImeInv
  <1>2. Pending(tasks)
    BY DEF Plain
  <1>3. committed' \in ImeText
    <2>1. sent \in Seq(Int) /\ text \in Seq(Int)
      BY <1>1 DEF ImeTyped, ImeText
    <2>2. sent \o text \in Seq(Int)
      BY <2>1, ConcatProperties
    <2>3. QED
      BY <2>2 DEF ImeText
  <1>4. /\ burst' \in Rests /\ burst' \notin FreshIme \cup {<<"modifier">>} /\ burst' \notin Ending
        /\ burst' \notin Inserting \cup Deleting /\ burst' \notin {<<"insert">>, <<"delete">>}
    BY LateRests, NotEdits
  <1>5. ImeTyped'
    BY <1>1, <1>3, <1>4 DEF ImeTyped
  <1>6. ~Waits(tasks, "end")
    <2>1. burst # <<>>
      BY EditsAreLeft
    <2>2. QED
      BY <1>1, <2>1 DEF ImeQueue
  <1>7. ImeQueue'
    BY <1>1, <1>4, <1>6 DEF ImeQueue
  <1>8. Plain'
    <2>1. Shut' /\ ~ime'.sending
      BY DEF Plain, Shut
    <2>2. DiffText(Head(tasks))' \in ImeText /\ committed' = sent' \o DiffText(Head(tasks))'
      OBVIOUS
    <2>3. Pending(tasks')
      BY <1>2
    <2>4. QED
      BY <1>4, <2>1, <2>2, <2>3 DEF Plain
  <1>9. QED
    BY <1>5, <1>7, <1>8 DEF ImeInv

LEMMA ImeInsert ==
  ASSUME ImeInv, PlainInsert
  PROVE  ImeInv'
  <1>1. ImeTyped /\ ImeQueue /\ Dispatched("insert")
    BY DEF ImeInv, PlainInsert
  <1>2. burst = <<"insert">> /\ burst' = <<>>
    BY <1>1, Dispatching DEF ImeTyped
  <1>3. Plain
    BY <1>2 DEF ImeInv, Syllable, Ended, Following, Ending
  <1>4. Pending(tasks) /\ burst \in Inserting \cup Deleting
    BY <1>2, <1>3 DEF Plain, Inserting
  <1>5. /\ area.caret = Len(area.value) /\ Head(tasks).old = area.value /\ committed = sent /\ sent \in ImeText
        /\ Substring(area.value, area.caret, Len(area.value)) = <<>>
    BY <1>1, <1>3, <1>4, AtTheEnd
  <1>6. PICK v \in ImeText : v = area.value /\ v \in Seq(Int)
    BY <1>1, ImeFields DEF ImeText
  <1>7. strokes \in Nat
    BY <1>1 DEF ImeTyped
  <1>8. PICK text \in ImeText : text = Letters(1) /\ Len(text) = 1 /\ text \in Seq(Int)
    BY <1>7, LettersAre DEF ImeText
  <1>9. PICK n \in Nat : n = area.caret /\ n = Len(v)
    BY <1>1, <1>5, <1>6, ImeFields
  <1>10. area' = Replaced(area, n, text) /\ committed' = sent \o text /\ UNCHANGED <<ime, tasks, sent, strokes>>
    BY <1>1, <1>5, <1>8, <1>9 DEF PlainInsert, Dispatched
  <1>11. area' \in [value : ImeText, caret : Nat, from : Int] /\ area'.caret <= Len(area'.value) /\ area'.from = area.from
    <2>1. n <= area.caret
      BY <1>9
    <2>2. QED
      BY <1>1, <1>10, <2>1, Edited
  <1>12. area'.value = v \o text
    <2>1. area'.value = Substring(v, 0, n) \o text \o Substring(v, n, Len(v))
      <3>1. area \in [value : ImeText, caret : Nat, from : Int]
        BY <1>1 DEF ImeTyped
      <3>2. QED
        BY <1>6, <1>9, <1>10, <3>1 DEF Replaced
    <2>2. Substring(v, 0, n) = v
      BY <1>6, <1>9, CutAll
    <2>3. Substring(v, n, Len(v)) = <<>>
      BY <1>5, <1>6, <1>9
    <2>4. PICK w \in Seq(Int) : w = v \o text
      BY <1>6, <1>8, ConcatProperties
    <2>5. w \o <<>> = w
      BY ConcatEmptySeq
    <2>6. QED
      BY <2>1, <2>2, <2>3, <2>4, <2>5
  <1>13. WithoutFirst(area'.value, v) = text
    BY <1>6, <1>8, <1>12, WithoutStart
  <1>14. Len(area'.value) > Len(v)
    <2>1. Len(v \o text) = Len(v) + Len(text)
      BY <1>6, <1>8, ConcatProperties
    <2>2. Len(area'.value) = n + 1 /\ Len(v) = n
      BY <1>8, <1>9, <1>12, <2>1
    <2>3. QED
      BY <2>2
  <1>15. DiffText(Head(tasks))' = text
    <2>1. PICK h : h = Head(tasks) /\ h.old = v
      BY <1>5, <1>6
    <2>2. Head(tasks') = h
      BY <1>10, <2>1
    <2>3. QED
      BY <1>13, <1>14, <2>1, <2>2 DEF DiffText
  <1>16. QED
    BY <1>2, <1>3, <1>10, <1>11, <1>15, PlainEdits

LEMMA ImeDelete ==
  ASSUME ImeInv, PlainDelete
  PROVE  ImeInv'
  <1>1. ImeTyped /\ ImeQueue /\ Dispatched("delete")
    BY DEF ImeInv, PlainDelete
  <1>2. burst = <<"delete">> /\ burst' = <<>>
    BY <1>1, Dispatching DEF ImeTyped
  <1>3. Plain
    BY <1>2 DEF ImeInv, Syllable, Ended, Following, Ending
  <1>4. Pending(tasks) /\ burst \in Inserting \cup Deleting
    BY <1>2, <1>3 DEF Plain, Deleting
  <1>5. area.caret > 0
    BY <1>2, <1>3 DEF Plain, Deleting
  <1>6. /\ area.caret = Len(area.value) /\ Head(tasks).old = area.value /\ committed = sent /\ sent \in ImeText
    BY <1>1, <1>3, <1>4, AtTheEnd
  <1>7. area.value \in ImeText /\ area.caret \in Nat
    BY <1>1, ImeFields
  <1>8. PICK n \in Nat : n = area.caret - 1 /\ n <= area.caret /\ n < Len(area.value)
    <2>1. PICK n : n = area.caret - 1
      OBVIOUS
    <2>2. n \in Nat /\ n <= area.caret /\ n < area.caret
      BY <1>5, <1>7, <2>1
    <2>3. QED
      BY <1>6, <2>1, <2>2
  <1>9. PICK none \in ImeText : none = <<>> /\ Len(none) = 0
    <2>1. <<>> \in Seq(Int) /\ Len(<<>>) = 0
      OBVIOUS
    <2>2. QED
      BY <2>1 DEF ImeText
  <1>10. area' = Replaced(area, n, none) /\ UNCHANGED <<ime, tasks, sent, strokes>>
    BY <1>1, <1>5, <1>7, <1>8, <1>9 DEF PlainDelete, Dispatched
  <1>11. /\ area' \in [value : ImeText, caret : Nat, from : Int] /\ area'.caret <= Len(area'.value) /\ area'.from = area.from
         /\ area'.caret = n + Len(none) /\ Len(area'.value) = area'.caret + (Len(area.value) - area.caret)
    BY <1>1, <1>8, <1>10, Edited
  <1>12. Len(area'.value) < Len(area.value) /\ Len(area'.value) \in Nat
    BY <1>6, <1>7, <1>8, <1>9, <1>11
  <1>13. DiffText(Head(tasks))' = <<DEL>>
    <2>1. PICK h : h = Head(tasks) /\ h.old = area.value
      BY <1>6
    <2>2. Head(tasks') = h
      BY <1>10, <2>1
    <2>3. Len(h.old) \in Nat
      BY <1>7, <2>1 DEF ImeText
    <2>4. QED
      BY <1>12, <2>1, <2>2, <2>3 DEF DiffText
  <1>14. committed' = sent \o <<DEL>> /\ <<DEL>> \in ImeText
    <2>1. committed' = Append(committed, DEL) /\ DEL \in Int /\ sent \in Seq(Int)
      BY <1>5, <1>6, <1>7 DEF PlainDelete, DEL, ImeText
    <2>2. Append(sent, DEL) = sent \o <<DEL>>
      BY <2>1, AppendIsConcat
    <2>3. QED
      BY <1>6, <2>1, <2>2 DEF ImeText
  <1>15. QED
    BY <1>2, <1>3, <1>10, <1>11, <1>13, <1>14, PlainEdits

LEMMA ImePress ==
  ASSUME ImeInv, Keystroke
  PROVE  ImeInv'
  <1>1. ImeTyped /\ ImeQueue
    BY DEF ImeInv
  <1>2. /\ burst = <<>> /\ tasks = <<>> /\ strokes' = strokes + 1 /\ burst' \in Bursts /\ (Last(burst') \in {"insert", "delete"} => area.caret = Len(area.value))
        /\ area' = area /\ ime' = ime /\ tasks' = tasks /\ sent' = sent /\ committed' = committed
    BY DEF Keystroke
  <1>3. ~ime.sending /\ ~ime.pending /\ ~Pending(tasks) /\ (\A what : ~Waits(tasks, what)) /\ ToSet(tasks) = {}
    BY <1>1, <1>2, ImeIdle
  <1>4. burst' \in Rests /\ burst' \notin Ending
    BY <1>2 DEF Bursts, Rests, FreshIme, Ending
  <1>5. ImeTyped'
    BY <1>1, <1>2, <1>4 DEF ImeTyped
  <1>6. ImeQueue'
    BY <1>2, <1>3, <1>4 DEF ImeQueue
  <1>7. CASE Plain
    <2>1. area.from = NoStart /\ ~ime.composing /\ committed = sent
      BY <1>3, <1>7 DEF Plain, Shut
    <2>2. burst' \in {<<"ime", "start", "update">>, <<"ime", "insert">>, <<"other">>} \cup (IF area.caret > 0 THEN {<<"ime", "delete">>} ELSE {})
      BY <1>2, <2>1 DEF Bursts
    <2>3. /\ burst' \in {<<"ime", "start", "update">>, <<"other">>} \cup Inserting \cup Deleting
          /\ burst' \in Inserting \cup Deleting => burst' \in {<<"ime", "insert">>, <<"ime", "delete">>}
          /\ burst' \in Deleting => area.caret > 0
          /\ burst' \notin {<<"insert">>, <<"delete">>}
      BY <2>2 DEF Inserting, Deleting
    <2>4. burst' \in Inserting \cup Deleting => area.caret = Len(area.value)
      <3>1. CASE burst' = <<"ime", "insert">>
        BY <1>2, <3>1 DEF Last
      <3>2. CASE burst' = <<"ime", "delete">>
        BY <1>2, <3>2 DEF Last
      <3>3. QED
        BY <2>3, <3>1, <3>2
    <2>5. Plain'
      BY <1>2, <1>3, <2>1, <2>3, <2>4 DEF Plain, Shut
    <2>6. QED
      BY <1>5, <1>6, <2>5 DEF ImeInv
  <1>8. CASE Syllable
    <2>1. Open /\ committed = sent /\ ime.start \in Nat
      BY <1>1, <1>8, ImeFields DEF Syllable
    <2>2. area.from # NoStart
      BY <2>1 DEF Open, NoStart
    <2>3. burst' \in {<<"ime", "update">>, <<"ime", "end">>, <<"ime", "end", "start", "update">>, <<"ime", "end", "other">>, <<"modifier">>, <<"other">>}
      BY <1>2, <2>2 DEF Bursts
    <2>4. ime.end = area.caret
      BY <1>2, <1>3, <1>8 DEF Syllable
    <2>5. Syllable'
      BY <1>2, <1>3, <2>1, <2>3, <2>4 DEF Syllable, Open
    <2>6. QED
      BY <1>5, <1>6, <2>5 DEF ImeInv
  <1>9. QED
    BY <1>3, <1>7, <1>8 DEF ImeInv, Ended, Following

LEMMA ImeSteps ==
  ASSUME ImeInv, [ImeNext]_imeVars
  PROVE  ImeInv'
  <1>1. CASE UNCHANGED imeVars
    <2>1. /\ area' = area /\ ime' = ime /\ tasks' = tasks /\ burst' = burst /\ sent' = sent /\ committed' = committed /\ strokes' = strokes
      BY <1>1 DEF imeVars
    <2>2. ImeTyped'
      BY <2>1 DEF ImeInv, ImeTyped
    <2>3. ImeQueue'
      BY <2>1 DEF ImeInv, ImeQueue
    <2>4. Plain => Plain'
      <3>1. SUFFICES ASSUME Plain PROVE Plain'
        OBVIOUS
      <3>2. PICK d : d = DiffText(Head(tasks))
        OBVIOUS
      <3>3. DiffText(Head(tasks))' = d
        BY <2>1, <3>2 DEF DiffText
      <3>4. Plain'
        BY <2>1, <3>1, <3>2, <3>3 DEF Plain, Shut
      <3>5. QED
        BY <3>4
    <2>5. Syllable => Syllable'
      BY <2>1 DEF Syllable, Open
    <2>6. Ended => Ended'
      BY <2>1 DEF Ended, Shut
    <2>7. Following => Following'
      BY <2>1 DEF Following, Open
    <2>8. QED
      BY <2>2, <2>3, <2>4, <2>5, <2>6, <2>7 DEF ImeInv
  <1>2. CASE Keystroke
    BY <1>2, ImePress
  <1>3. CASE RunTask
    BY <1>3, TaskRuns
  <1>4. CASE OnKeydown("ime")
    BY <1>4, ImeKeydown
  <1>5. CASE OnKeydown("modifier")
    BY <1>5, ModifierKeydown
  <1>6. CASE OnKeydown("other")
    BY <1>6, OtherKeydown
  <1>7. CASE OnStart
    BY <1>7, ImeStart
  <1>8. CASE OnUpdate
    BY <1>8, ImeUpdate
  <1>9. CASE OnEnd
    BY <1>9, ImeEnd
  <1>10. CASE PlainInsert
    BY <1>10, ImeInsert
  <1>11. CASE PlainDelete
    BY <1>11, ImeDelete
  <1>12. QED
    BY <1>1, <1>2, <1>3, <1>4, <1>5, <1>6, <1>7, <1>8, <1>9, <1>10, <1>11 DEF ImeNext

\* What was sent starts what was committed.
LEMMA SentFirst ==
  ASSUME ImeInv
  PROVE  CommitsInOrder
  <1>1. ImeTyped /\ ImeQueue
    BY DEF ImeInv
  <1>2. PICK x \in ImeText : committed = sent \o x
    <2>1. sent \in ImeText /\ sent \in Seq(Int) /\ <<>> \in ImeText
      BY <1>1 DEF ImeTyped, ImeText
    <2>2. sent \o <<>> = sent
      BY <2>1, ConcatEmptySeq
    <2>3. CASE Plain
      BY <2>1, <2>2, <2>3 DEF Plain
    <2>4. CASE Syllable
      BY <2>1, <2>2, <2>4 DEF Syllable
    <2>5. CASE Ended
      <3>1. area.value \in ImeText /\ area.caret \in Nat /\ area.caret <= Len(area.value) /\ ime.start \in Nat /\ ime.start <= area.caret
        BY <1>1, <2>5, ImeFields DEF Ended
      <3>2. Substring(area.value, ime.start, area.caret) \in ImeText
        BY <3>1, CutTyped
      <3>3. QED
        BY <2>5, <3>2 DEF Ended
    <2>6. CASE Following
      <3>1. PICK t \in ToSet(tasks) : t.do = "read"
        BY <1>1, <2>6 DEF Following, ImeQueue, Waits
      <3>2. tasks # <<>>
        BY <3>1, NoTasks
      <3>3. t \in TaskKinds
        BY <1>1, <3>1, <3>2, TaskTail DEF ImeTyped
      <3>4. t.start \in Nat
        BY <3>1, <3>3 DEF TaskKinds
      <3>5. t.start <= ime.start /\ committed = sent \o Substring(area.value, t.start, ime.start)
        BY <2>6, <3>1 DEF Following
      <3>6. area.value \in ImeText /\ ime.start \in Nat /\ ime.start <= area.caret /\ area.caret \in Nat /\ area.caret <= Len(area.value)
        BY <1>1, <2>6, ImeFields DEF Following, Open
      <3>7. ime.start <= Len(area.value)
        BY <3>6 DEF ImeText
      <3>8. Substring(area.value, t.start, ime.start) \in ImeText
        BY <3>4, <3>5, <3>6, <3>7, CutTyped
      <3>9. QED
        BY <3>5, <3>8
    <2>7. QED
      BY <2>3, <2>4, <2>5, <2>6 DEF ImeInv
  <1>3. IsPrefix(sent, committed)
    <2>1. sent \in Seq(Int) /\ x \in Seq(Int)
      BY <1>1 DEF ImeTyped, ImeText
    <2>2. committed \in Seq(Int) /\ Len(committed) = Len(sent) + Len(x) /\ Piece(committed, 0, sent)
      BY <1>2, <2>1, TextsJoined
    <2>3. Len(sent) <= Len(committed) /\ \A k \in 1..Len(sent) : sent[k] = committed[k]
      <3>1. Len(sent) \in Nat /\ Len(x) \in Nat
        BY <2>1
      <3>2. ASSUME NEW k \in 1..Len(sent) PROVE sent[k] = committed[k]
        <4>1. 0 + k = k
          OBVIOUS
        <4>2. committed[0 + k] = sent[k]
          BY <2>2 DEF Piece
        <4>3. QED
          BY <4>1, <4>2
      <3>3. QED
        BY <2>2, <3>1, <3>2
    <2>4. PICK n \in Nat : n = Len(sent) /\ n <= Len(committed)
      BY <2>1, <2>3
    <2>5. ASSUME NEW w \in Seq(Int), n <= Len(w) PROVE Substring(w, 0, n) = SubSeq(w, 1, n)
      <3>1. Lesser(0, Len(w)) = 0 /\ Lesser(n, Len(w)) = n /\ Lesser(0, n) = 0 /\ Larger(0, n) = n
        BY <2>5 DEF Lesser, Larger
      <3>2. QED
        BY <3>1 DEF Substring
    <2>6. n = 0 + Len(sent)
      BY <2>4
    <2>7. Substring(committed, 0, n) = sent
      <3>1. committed \in Seq(Int) /\ n <= Len(committed) /\ Piece(committed, 0, sent)
        BY <2>2, <2>4
      <3>2. QED
        BY <2>1, <2>6, <3>1, PieceIs
    <2>8. Substring(sent, 0, n) = sent
      BY <2>1, <2>4, CutAll
    <2>9. SubSeq(committed, 1, n) = sent /\ SubSeq(sent, 1, n) = sent
      <3>1. Substring(committed, 0, n) = SubSeq(committed, 1, n)
        BY <2>2, <2>4, <2>5
      <3>2. Substring(sent, 0, n) = SubSeq(sent, 1, n)
        BY <2>1, <2>4, <2>5
      <3>3. QED
        BY <2>7, <2>8, <3>1, <3>2
    <2>10. QED
      BY <2>4, <2>9 DEF IsPrefix
  <1>4. ASSUME burst = <<>>, tasks = <<>> PROVE sent = committed
    <2>1. ~ime.sending /\ ~Pending(tasks)
      BY <1>1, <1>4, ImeIdle
    <2>2. QED
      BY <2>1 DEF ImeInv, Plain, Syllable, Ended, Following
  <1>5. QED
    BY <1>3, <1>4 DEF CommitsInOrder

\* CompositionController of composition.ts and clearTextareaWhenIdle of terminal.ts, for every text that
\* stands in the textarea and any number of keystrokes: what was sent is always a beginning of what was
\* committed and typed, so no letter goes out twice, early or out of order, and when nothing is left to
\* run it is all of it, so none is lost.
THEOREM CommitsInOrderHolds == ImeSpec => []CommitsInOrder
  <1>1. ImeInit => ImeInv
    BY ImeStarts
  <1>2. ImeInv /\ [ImeNext]_imeVars => ImeInv'
    BY ImeSteps
  <1>3. ImeInv => CommitsInOrder
    BY SentFirst
  <1>4. QED
    BY <1>1, <1>2, <1>3, PTL DEF ImeSpec
=============================================================================
