------------------------- MODULE ProjectBoardProofs -------------------------
(***************************************************************************)
(* NothingForgotten and NewestDragKept of ProjectBoard for any number of   *)
(* changes, drags and turns to another Project.                            *)
(***************************************************************************)
EXTENDS ProjectBoard, TLAPS

-----------------------------------------------------------------------------
(* The inductive invariant *)

\* Something that will put the Board right again is on its way.
Refreshing == told # committed \/ requested \/ held \/ fetch.state # "none"

\* What the channel, the requests and the server keep: an answer that is old
\* will be asked for again.
WireInv ==
  /\ told \subseteq committed
  /\ ~here => fetch.state = "none"
  /\ here /\ inFlight => requested \/ fetch.state # "none"
  /\ fetch.state # "none" => (fetch.initial <=> ~loaded) /\ fetch.origin <= seq
  /\ fetch.state = "answered" =>
       fetch.items = committed \/ told # committed \/ requested \/ held
  /\ patch.state = "done" => patch.card \subseteq committed
  /\ patch.state = "sent" => patch.change \in Foreign \ committed
  /\ \A d \in Drop : drop[d].state \in {"none", "sent"} => d \notin committed

\* A drag began on a loaded Board, or the page has turned away since.
OwnInv == \A d \in Pending : drop[d].generation = generation => loaded

\* The open page, unless an answer has met a drag.
Certain == here /\ ~suspect

\* Whoever waits is waited for, and a loaded Board has its own drags only.
ViewInv ==
  Certain =>
    /\ held => inFlight \/ Pending # {}
    /\ ~loaded => error \/ requested \/ fetch.state # "none"
    /\ loaded => \A d \in Pending : drop[d].generation = generation

\* With nothing on its way the Board is what the server has, and so is the
\* snapshot of a drag that is alone and owes nothing.
BoardInv ==
  Certain /\ loaded /\ ~Refreshing /\ ~error /\ patch.state # "sent" =>
    /\ Pending = {} => board = committed
    /\ \A d \in Drop : Pending = {d} /\ ~debt => d = seq /\ drop[d].snapshot = committed

\* A fetch of the newest drag's time is older than the drag, or finds no Board.
NewestInv ==
  seq \in Pending /\ created # seq =>
    /\ requested => origin < seq \/ (~loaded /\ fetch.state = "none")
    /\ fetch.state # "none" => fetch.origin < seq \/ fetch.initial

IInv == TypeOK /\ WireInv /\ OwnInv /\ ViewInv /\ BoardInv /\ NewestInv

USE BoundAssumption
-----------------------------------------------------------------------------
(* The drags *)

LEMMA InitInv == Init => IInv
<1> SUFFICES ASSUME Init PROVE IInv
  OBVIOUS
<1>0. /\ here = TRUE /\ generation = 1 /\ loaded = FALSE /\ board = {} /\ error = FALSE
      /\ requested = TRUE /\ inFlight = FALSE /\ held = FALSE
      /\ seq = 0 /\ origin = 0 /\ debt = FALSE /\ faults = 0 /\ suspect = FALSE /\ created = 0
      /\ committed = {} /\ told = {} /\ attached = FALSE /\ underway = TRUE /\ excused = FALSE
  BY DEF Init, Channel!Init
<1>1. Pending = {}
  BY DEF Pending, Init
<1>2. TypeOK
  <2>1. fetch \in [state : {"none", "sent", "answered"}, items : SUBSET Change, seq : 0 .. MaxDrops,
                   origin : 0 .. MaxDrops, initial : BOOLEAN]
        /\ fetch.state = "none"
    BY DEF NoFetch, Init
  <2>2. patch \in [state : {"none", "sent", "done"}, change : Foreign \cup {0}, card : SUBSET Card]
    BY DEF NoPatch, Init
  <2>3. drop \in [Drop -> [state : {"none", "sent", "done", "settled"}, snapshot : SUBSET Change,
                           generation : 0 .. MaxVisits]]
    BY DEF Init
  <2>4. \A d \in Drop : drop[d].state = "none" <=> d > seq
    BY DEF Drop, Init
  <2>5. /\ committed \subseteq Change /\ told \subseteq Change
        /\ attached \in BOOLEAN /\ underway \in BOOLEAN /\ excused \in BOOLEAN
    BY <1>0
  <2>6. /\ here \in BOOLEAN /\ generation \in 1 .. MaxVisits
        /\ loaded \in BOOLEAN /\ error \in BOOLEAN
        /\ board \subseteq Change /\ (~loaded => board = {})
        /\ requested \in BOOLEAN /\ inFlight \in BOOLEAN /\ held \in BOOLEAN
    <3>1. 1 \in 1 .. MaxVisits
      OBVIOUS
    <3>2. here \in BOOLEAN /\ loaded \in BOOLEAN /\ error \in BOOLEAN
          /\ requested \in BOOLEAN /\ inFlight \in BOOLEAN /\ held \in BOOLEAN
      BY <1>0
    <3>3. board \subseteq Change /\ (~loaded => board = {})
      BY <1>0
    <3> QED BY <1>0, <3>1, <3>2, <3>3
  <2>7. /\ seq \in 0 .. MaxDrops /\ origin \in 0 .. seq /\ debt \in BOOLEAN
        /\ faults \in 0 .. MaxFaults /\ suspect \in BOOLEAN /\ created \in 0 .. seq
    <3>1. 0 \in 0 .. MaxDrops /\ 0 \in 0 .. MaxFaults /\ 0 \in 0 .. 0
      OBVIOUS
    <3>2. debt \in BOOLEAN /\ suspect \in BOOLEAN
      BY <1>0
    <3> QED BY <1>0, <3>1, <3>2
  <2> QED BY <2>1, <2>2, <2>3, <2>4, <2>5, <2>6, <2>7 DEF TypeOK
<1>3. WireInv
  BY <1>0 DEF WireInv, NoFetch, NoPatch, Init
<1>4. ViewInv /\ BoardInv /\ NewestInv /\ OwnInv
  BY <1>0, <1>1 DEF OwnInv, ViewInv, BoardInv, NewestInv, NoFetch, Init
<1> QED BY <1>2, <1>3, <1>4 DEF IInv

-----------------------------------------------------------------------------
(* The channel *)

\* A change of the server that nobody was told of yet.
LEMMA CommitTold ==
  ASSUME WireInv, NEW c, Channel!Commit(c)
  PROVE  told' # committed' /\ told' \subseteq committed'
BY DEF WireInv, Channel!Commit

LEMMA CommitForeignInv ==
  ASSUME IInv, NEW c \in Foreign, CommitForeign(c)
  PROVE  IInv'
<1> USE DEF IInv, CommitForeign, view, refresh, drags, history
<1>1. told' # committed' /\ told' \subseteq committed'
  BY CommitTold
<1>2. committed' = committed \cup {c} /\ attached' = attached /\ underway' = TRUE
      /\ excused' = excused
  BY DEF Channel!Commit
<1>3. TypeOK'
  BY <1>1, <1>2 DEF TypeOK, Change, Pending, Channel!Commit
<1>4. WireInv'
  BY <1>1, <1>2 DEF WireInv, Drop
<1>5. ViewInv' /\ BoardInv' /\ NewestInv' /\ OwnInv'
  BY <1>1, <1>2 DEF OwnInv, ViewInv, BoardInv, NewestInv, Certain, Refreshing, Pending
<1> QED BY <1>3, <1>4, <1>5

LEMMA ChannelStepInv ==
  ASSUME IInv, ChannelStep
  PROVE  IInv'
<1> USE DEF IInv, ChannelStep, view, refresh, drags, history
<1>1. committed' = committed /\ told' = told /\ attached' \in BOOLEAN /\ underway' \in BOOLEAN
      /\ excused' \in BOOLEAN
  BY DEF Channel!Excuse, Channel!Reopen, Channel!Toggle, TypeOK
<1>2. TypeOK'
  BY <1>1 DEF TypeOK
<1>3. WireInv'
  BY <1>1 DEF WireInv
<1>4. ViewInv' /\ BoardInv' /\ NewestInv' /\ OwnInv'
  BY <1>1 DEF OwnInv, ViewInv, BoardInv, NewestInv, Certain, Refreshing, Pending
<1> QED BY <1>2, <1>3, <1>4

LEMMA HintInv ==
  ASSUME IInv, Hint
  PROVE  IInv'
<1> USE DEF IInv, Hint, view, refresh, drags, history
<1>1. committed' = committed /\ told' = committed /\ attached' = attached /\ underway' \in BOOLEAN
      /\ excused' = FALSE
  BY DEF Channel!Signal
<1>2. /\ fetch' = fetch /\ inFlight' = inFlight
      /\ requested' \in BOOLEAN /\ held' \in BOOLEAN
      /\ here => (requested' \/ held') /\ (requested => requested') /\ (held => held')
      /\ ~here => requested' = requested /\ held' = held
      /\ requested' = requested \/ Pending = {}
      /\ held' => held \/ inFlight \/ Pending # {}
  BY DEF Invalidate, TypeOK
<1>3. Pending' = Pending
  BY DEF Pending
<1>4. TypeOK'
  <2>1. /\ committed' \subseteq Change /\ told' \subseteq Change
        /\ attached' \in BOOLEAN /\ underway' \in BOOLEAN /\ excused' \in BOOLEAN
    BY <1>1 DEF TypeOK
  <2>2. requested' \in BOOLEAN /\ held' \in BOOLEAN
    BY <1>2
  <2> QED BY <1>2, <2>1, <2>2 DEF TypeOK
<1>5. WireInv'
  BY <1>1, <1>2 DEF WireInv
<1>6. ViewInv' /\ BoardInv' /\ NewestInv' /\ OwnInv'
  BY <1>1, <1>2, <1>3 DEF OwnInv, ViewInv, BoardInv, NewestInv, Certain, Refreshing
<1> QED BY <1>4, <1>5, <1>6

-----------------------------------------------------------------------------
(* The fetch *)

LEMMA StartFetchInv ==
  ASSUME IInv, StartFetch
  PROVE  IInv'
<1> USE DEF IInv, StartFetch, channel, drags, history
<1>0. seq \in 0 .. MaxDrops /\ origin \in 0 .. MaxDrops /\ origin <= seq /\ loaded \in BOOLEAN
  BY DEF TypeOK
<1>1. /\ fetch'.state = "sent" /\ fetch'.origin = origin /\ (fetch'.initial <=> ~loaded)
      /\ fetch' \in [state : {"none", "sent", "answered"}, items : SUBSET Change, seq : 0 .. MaxDrops,
                     origin : 0 .. MaxDrops, initial : BOOLEAN]
  <2>1. fetch' = [state |-> "sent", items |-> {}, seq |-> seq, origin |-> origin,
                  initial |-> ~loaded]
    OBVIOUS
  <2>2. (~loaded) \in BOOLEAN
    OBVIOUS
  <2>3. /\ fetch'.state = "sent" /\ fetch'.origin = origin /\ fetch'.initial = ~loaded
    BY <2>1
  <2>4. fetch' \in [state : {"none", "sent", "answered"}, items : SUBSET Change, seq : 0 .. MaxDrops,
                     origin : 0 .. MaxDrops, initial : BOOLEAN]
    BY <1>0, <2>1, <2>2
  <2> QED BY <2>3, <2>4
<1>2. Pending' = Pending
  BY DEF Pending
<1>3. TypeOK'
  BY <1>1 DEF TypeOK
<1>4. WireInv'
  BY <1>0, <1>1 DEF WireInv
<1>5. ViewInv' /\ BoardInv'
  BY <1>1, <1>2 DEF ViewInv, BoardInv, Certain, Refreshing
<1>6. NewestInv' /\ OwnInv'
  BY <1>1, <1>2 DEF NewestInv, OwnInv
<1> QED BY <1>3, <1>4, <1>5, <1>6

LEMMA AnswerFetchInv ==
  ASSUME IInv, AnswerFetch
  PROVE  IInv'
<1> USE DEF IInv, AnswerFetch, channel, view, drags, history
<1>1. /\ fetch'.state = "answered" /\ fetch'.items = committed /\ fetch'.origin = fetch.origin
      /\ fetch'.initial = fetch.initial
      /\ fetch' \in [state : {"none", "sent", "answered"}, items : SUBSET Change, seq : 0 .. MaxDrops,
                     origin : 0 .. MaxDrops, initial : BOOLEAN]
  BY DEF TypeOK
<1>2. Pending' = Pending
  BY DEF Pending
<1>3. TypeOK'
  BY <1>1 DEF TypeOK
<1>4. WireInv'
  BY <1>1 DEF WireInv
<1>5. ViewInv' /\ BoardInv'
  BY <1>1, <1>2 DEF ViewInv, BoardInv, Certain, Refreshing
<1>6. NewestInv' /\ OwnInv'
  BY <1>1, <1>2 DEF NewestInv, OwnInv
<1> QED BY <1>3, <1>4, <1>5, <1>6

\* What every end of a fetch leaves.
LEMMA FetchEndsStep ==
  ASSUME TypeOK, WireInv, FetchEnds, fetch.state # "none"
  PROVE  /\ fetch' = NoFetch /\ fetch'.state = "none" /\ inFlight' = FALSE /\ here' = TRUE
         /\ fetch' \in [state : {"none", "sent", "answered"}, items : SUBSET Change,
                        seq : 0 .. MaxDrops, origin : 0 .. MaxDrops, initial : BOOLEAN]
         /\ requested' \in BOOLEAN /\ held' \in BOOLEAN /\ Pending' = Pending
         /\ (requested => requested') /\ (held /\ ~held' => requested')
         /\ requested' => requested \/ Pending = {}
         /\ held' => Pending # {}
         /\ UNCHANGED <<channel, here, generation, seq, drop, origin, patch, created>>
<1>1. here = TRUE
  BY DEF WireInv, TypeOK
<1>2. NoFetch \in [state : {"none", "sent", "answered"}, items : SUBSET Change,
                   seq : 0 .. MaxDrops, origin : 0 .. MaxDrops, initial : BOOLEAN]
      /\ NoFetch.state = "none"
  BY DEF NoFetch
<1>3. Pending' = Pending
  BY DEF FetchEnds, Pending
<1>4. /\ requested' \in BOOLEAN /\ held' \in BOOLEAN
      /\ (requested => requested') /\ (held /\ ~held' => requested')
      /\ requested' => requested \/ Pending = {}
      /\ held' => Pending # {}
  BY DEF FetchEnds, Flush, TypeOK
<1> QED BY <1>1, <1>2, <1>3, <1>4 DEF FetchEnds

LEMMA SettleFetchInv ==
  ASSUME IInv, SettleFetch
  PROVE  IInv'
<1> USE DEF IInv, channel
<1>1. /\ fetch' = NoFetch /\ fetch'.state = "none" /\ inFlight' = FALSE /\ here' = TRUE
      /\ fetch' \in [state : {"none", "sent", "answered"}, items : SUBSET Change,
                     seq : 0 .. MaxDrops, origin : 0 .. MaxDrops, initial : BOOLEAN]
      /\ requested' \in BOOLEAN /\ held' \in BOOLEAN /\ Pending' = Pending
      /\ (requested => requested') /\ (held /\ ~held' => requested')
      /\ requested' => requested \/ Pending = {}
      /\ held' => Pending # {}
      /\ UNCHANGED <<channel, here, generation, seq, drop, origin, patch, created>>
  BY FetchEndsStep DEF SettleFetch
<1>2. /\ fetch.state = "answered" /\ fetch.items \subseteq Change
      /\ \/ Usable /\ board' = fetch.items /\ loaded' = TRUE /\ debt' = FALSE
         \/ ~Usable /\ UNCHANGED <<board, loaded, debt>>
      /\ suspect' \in BOOLEAN /\ (~suspect' <=> Usable /\ Pending = {})
      /\ error' = error /\ faults' = faults
  BY DEF SettleFetch, TypeOK
<1>3. TypeOK'
  <2>1. /\ board' \subseteq Change /\ loaded' \in BOOLEAN /\ debt' \in BOOLEAN
        /\ (~loaded' => board' = {})
    <3>1. loaded \in BOOLEAN /\ debt \in BOOLEAN /\ board \subseteq Change /\ (~loaded => board = {})
      BY DEF TypeOK
    <3>2. CASE Usable /\ board' = fetch.items /\ loaded' = TRUE /\ debt' = FALSE
      BY <1>2, <3>2
    <3>3. CASE UNCHANGED <<board, loaded, debt>>
      BY <3>1, <3>3
    <3> QED BY <1>2, <3>2, <3>3
  <2> QED BY <1>1, <1>2, <2>1 DEF TypeOK
<1>4. WireInv'
  BY <1>1, <1>2 DEF WireInv
<1>5. ViewInv' /\ NewestInv' /\ OwnInv'
  BY <1>1, <1>2 DEF OwnInv, ViewInv, NewestInv, Certain
<1>6. BoardInv'
  <2> SUFFICES ASSUME here', ~suspect', ~(Refreshing'), ~error'
               PROVE  Pending' = {} /\ board' = committed'
    BY DEF BoardInv, Certain
  <2>1. Usable /\ Pending = {} /\ board' = fetch.items
    BY <1>2
  <2>2. told = committed /\ ~requested /\ ~held
    BY <1>1 DEF Refreshing
  <2>3. fetch.items = committed
    BY <1>2, <2>2 DEF WireInv
  <2> QED BY <1>1, <2>1, <2>3
<1> QED BY <1>3, <1>4, <1>5, <1>6

LEMMA FailFetchInv ==
  ASSUME IInv, FailFetch
  PROVE  IInv'
<1> USE DEF IInv, channel
<1>1. /\ fetch' = NoFetch /\ fetch'.state = "none" /\ inFlight' = FALSE /\ here' = TRUE
      /\ fetch' \in [state : {"none", "sent", "answered"}, items : SUBSET Change,
                     seq : 0 .. MaxDrops, origin : 0 .. MaxDrops, initial : BOOLEAN]
      /\ requested' \in BOOLEAN /\ held' \in BOOLEAN /\ Pending' = Pending
      /\ (requested => requested') /\ (held /\ ~held' => requested')
      /\ requested' => requested \/ Pending = {}
      /\ held' => Pending # {}
      /\ UNCHANGED <<channel, here, generation, seq, drop, origin, patch, created>>
  BY FetchEndsStep DEF FailFetch
<1>2. /\ fetch.state = "sent" /\ UNCHANGED <<board, loaded, debt>>
      /\ error' \in BOOLEAN /\ suspect' \in BOOLEAN /\ (error' \/ suspect')
      /\ (suspect => suspect')
  BY DEF FailFetch, TypeOK
<1>3. TypeOK'
  <2>1. faults' \in 0 .. MaxFaults
    BY DEF FailFetch, Fault, TypeOK
  <2>2. error' \in BOOLEAN /\ suspect' \in BOOLEAN
    BY DEF FailFetch, TypeOK
  <2>3. here' \in BOOLEAN /\ inFlight' \in BOOLEAN /\ requested' \in BOOLEAN /\ held' \in BOOLEAN
    BY <1>1
  <2> QED BY <1>1, <1>2, <2>1, <2>2, <2>3 DEF TypeOK
<1>4. WireInv'
  BY <1>1, <1>2 DEF WireInv
<1>5. ViewInv' /\ NewestInv' /\ BoardInv' /\ OwnInv'
  BY <1>1, <1>2 DEF OwnInv, ViewInv, NewestInv, BoardInv, Certain
<1> QED BY <1>3, <1>4, <1>5

LEMMA CreateHereInv ==
  ASSUME IInv, NEW c \in Foreign, CreateHere(c)
  PROVE  IInv'
<1> USE DEF IInv, CreateHere, view
<1>1. told' # committed' /\ told' \subseteq committed'
  BY CommitTold
<1>2. /\ committed' = committed \cup {c} /\ attached' = attached /\ underway' = TRUE
      /\ excused' = excused
  BY DEF Channel!Commit
<1>3. Pending' = Pending
  BY DEF Pending
<1>4. TypeOK'
  <2>1. origin' \in 0 .. seq' /\ created' \in 0 .. seq'
    BY DEF TypeOK
  <2>2. committed' \subseteq Change /\ told' \subseteq Change
    BY <1>1, <1>2 DEF TypeOK, Change
  <2> QED BY <1>2, <2>1, <2>2 DEF TypeOK
<1>5. WireInv'
  BY <1>1, <1>2 DEF WireInv, Drop
<1>6. ViewInv' /\ BoardInv' /\ NewestInv' /\ OwnInv'
  BY <1>1, <1>3 DEF OwnInv, ViewInv, BoardInv, NewestInv, Certain, Refreshing
<1> QED BY <1>4, <1>5, <1>6

-----------------------------------------------------------------------------
(* A drag *)

Drags == [Drop -> [state : {"none", "sent", "done", "settled"}, snapshot : SUBSET Change,
                   generation : 0 .. MaxVisits]]

LEMMA DragInv ==
  ASSUME IInv, Drag
  PROVE  IInv'
<1> DEFINE d == seq + 1
<1> USE DEF IInv, channel
<1>0. d \in Drop /\ d \in 1 .. MaxDrops /\ seq \in Nat /\ seq' = d
  BY DEF Drag, TypeOK, Drop
<1>1. /\ drop' \in Drags /\ drop'[d].state = "sent" /\ drop'[d].snapshot = board
      /\ drop'[d].generation = generation
      /\ \A e \in Drop \ {d} : drop'[e] = drop[e]
  <2>1. drop' = [drop EXCEPT ![d] = [state |-> "sent", snapshot |-> board,
                                     generation |-> generation]]
    BY DEF Drag
  <2>2. drop \in Drags /\ board \subseteq Change /\ generation \in 0 .. MaxVisits
    BY DEF TypeOK, Drags
  <2> QED BY <1>0, <2>1, <2>2 DEF Drags
<1>2. Pending' = Pending \cup {d} /\ d \notin Pending
  BY <1>0, <1>1 DEF Pending, TypeOK
<1>3. /\ here /\ loaded /\ board' = board \cup {d}
      /\ UNCHANGED <<channel, here, generation, loaded, error, refresh, origin,
                     debt, patch, faults, history>>
  BY DEF Drag
<1> HIDE DEF d
<1>4. TypeOK'
  <2>1. \A e \in Drop : drop'[e].state = "none" <=> e > seq'
    BY <1>0, <1>1 DEF TypeOK, Drop, d
  <2>2. board' \subseteq Change
    BY <1>0, <1>3 DEF TypeOK, Change
  <2>3. seq' \in 0 .. MaxDrops /\ origin' \in 0 .. seq' /\ created' \in 0 .. seq'
    BY <1>0, <1>3 DEF TypeOK, history, d
  <2> QED BY <1>1, <1>3, <2>1, <2>2, <2>3 DEF TypeOK, Drags, refresh, history
<1>5. WireInv'
  <2>1. d \notin committed
    BY <1>0 DEF WireInv, TypeOK, d
  <2>2. \A e \in Drop : drop'[e].state \in {"none", "sent"} => e \notin committed'
    BY <1>1, <1>3, <2>1 DEF WireInv
  <2>3. fetch'.state # "none" => fetch'.origin <= seq'
    <3>1. fetch.origin \in Nat
      BY DEF TypeOK
    <3> QED BY <1>0, <1>3, <3>1 DEF WireInv, refresh, d
  <2> QED BY <1>3, <2>2, <2>3 DEF WireInv, refresh, history
<1>6. ViewInv'
  <2>1. ASSUME Certain', NEW e \in Pending' PROVE drop'[e].generation = generation'
    <3>1. Certain
      BY <1>3, <2>1 DEF Certain, history
    <3>2. CASE e = d
      BY <1>1, <1>3, <3>2
    <3>3. CASE e # d
      BY <1>1, <1>2, <1>3, <2>1, <3>1, <3>3 DEF ViewInv, Pending
    <3> QED BY <3>2, <3>3
  <2> QED BY <1>2, <1>3, <2>1 DEF ViewInv, Certain, refresh, history
<1>7. BoardInv'
  <2> SUFFICES ASSUME Certain', loaded', ~(Refreshing'), ~error', patch'.state # "sent",
                      NEW e \in Drop, Pending' = {e}, ~debt'
               PROVE  e = seq' /\ drop'[e].snapshot = committed'
    BY <1>2 DEF BoardInv
  <2>1. e = d /\ Pending = {}
    BY <1>2
  <2>2. board = committed
    BY <1>3, <2>1 DEF BoardInv, Certain, Refreshing, refresh, history
  <2> QED BY <1>0, <1>1, <1>3, <2>1, <2>2
<1>8. NewestInv'
  <2>1. origin' < seq'
    BY <1>0, <1>3 DEF TypeOK, d
  <2>2. fetch'.state # "none" => fetch'.origin < seq'
    <3>1. fetch.origin \in Nat
      BY DEF TypeOK
    <3> QED BY <1>0, <1>3, <3>1 DEF WireInv, refresh, d
  <2> QED BY <2>1, <2>2 DEF NewestInv
<1>9. OwnInv'
  BY <1>3 DEF OwnInv
<1> QED BY <1>4, <1>5, <1>6, <1>7, <1>8, <1>9

LEMMA CommitDropInv ==
  ASSUME IInv, NEW d \in Drop, CommitDrop(d)
  PROVE  IInv'
<1> USE DEF IInv, CommitDrop, view, refresh, history
<1>1. told' # committed' /\ told' \subseteq committed'
  BY CommitTold
<1>2. /\ committed' = committed \cup {d} /\ attached' = attached /\ underway' = TRUE
      /\ excused' = excused
  BY DEF Channel!Commit
<1>3. /\ drop' \in Drags /\ drop'[d].state = "done" /\ drop'[d].generation = drop[d].generation
      /\ \A e \in Drop \ {d} : drop'[e] = drop[e]
  BY DEF TypeOK, Drags
<1>4. Pending' = Pending
  BY <1>3 DEF Pending
<1>5. TypeOK'
  <2>1. \A e \in Drop : drop'[e].state = "none" <=> e > seq'
    BY <1>3 DEF TypeOK
  <2>2. committed' \subseteq Change /\ told' \subseteq Change
    BY <1>1, <1>2 DEF TypeOK, Change
  <2> QED BY <1>2, <1>3, <2>1, <2>2 DEF TypeOK, Drags
<1>6. WireInv'
  <2>1. d \notin Foreign /\ (patch.state = "sent" => patch.change # d)
    <3>1. d \notin Foreign
      BY DEF Drop
    <3>2. patch.state = "sent" => patch.change \in Foreign \cup {0}
      BY DEF TypeOK
    <3>3. d # 0
      BY DEF Drop
    <3> QED BY <3>1, <3>2, <3>3
  <2>2. \A e \in Drop : drop'[e].state \in {"none", "sent"} => e \notin committed'
    BY <1>2, <1>3 DEF WireInv
  <2> QED BY <1>1, <1>2, <2>1, <2>2 DEF WireInv
<1>7. ViewInv' /\ BoardInv' /\ NewestInv' /\ OwnInv'
  <2>1. \A e \in Drop : drop'[e].generation = drop[e].generation
    BY <1>3
  <2>2. Pending \subseteq Drop
    BY DEF Pending
  <2> QED BY <1>1, <1>4, <2>1, <2>2 DEF OwnInv, ViewInv, BoardInv, NewestInv, Certain, Refreshing
<1> QED BY <1>5, <1>6, <1>7

-----------------------------------------------------------------------------
(* The end of a drag *)

LEMMA SettledStep ==
  ASSUME IInv, NEW d \in Drop, drop[d].state \in {"sent", "done"},
         drop' = [drop EXCEPT ![d] = Settled]
  PROVE  /\ drop' \in Drags /\ drop'[d].state = "settled" /\ d \in Pending
         /\ Pending' = Pending \ {d} /\ Pending \subseteq Drop
         /\ \A e \in Drop \ {d} : drop'[e] = drop[e]
         /\ \A e \in Drop : drop'[e].state = "none" <=> e > seq
         /\ d <= seq
<1>1. Settled \in [state : {"none", "sent", "done", "settled"}, snapshot : SUBSET Change,
                   generation : 0 .. MaxVisits]
      /\ Settled.state = "settled"
  BY DEF Settled
<1>2. /\ drop' \in Drags /\ drop'[d].state = "settled"
      /\ \A e \in Drop \ {d} : drop'[e] = drop[e]
  BY <1>1 DEF IInv, TypeOK, Drags
<1>3. d \in Pending /\ Pending' = Pending \ {d} /\ Pending \subseteq Drop
  BY <1>2 DEF Pending
<1>4. \A e \in Drop : drop'[e].state = "none" <=> e > seq
  BY <1>2 DEF IInv, TypeOK
<1>5. d <= seq
  BY DEF IInv, TypeOK, Drop
<1> QED BY <1>2, <1>3, <1>4, <1>5

LEMMA AbandonedInv ==
  ASSUME IInv, NEW d \in Drop, drop[d].state \in {"sent", "done"},
         drop' = [drop EXCEPT ![d] = Settled], Abandoned(d), faults' \in 0 .. MaxFaults,
         UNCHANGED <<channel, here, generation, loaded, error, fetch, inFlight, seq, patch, created>>
  PROVE  IInv'
<1> USE DEF IInv, Abandoned, channel
<1>1. /\ drop' \in Drags /\ drop'[d].state = "settled" /\ d \in Pending
      /\ Pending' = Pending \ {d} /\ Pending \subseteq Drop
      /\ \A e \in Drop \ {d} : drop'[e] = drop[e]
      /\ \A e \in Drop : drop'[e].state = "none" <=> e > seq
  BY SettledStep
<1>2. suspect' \in BOOLEAN /\ (~suspect' => ~suspect /\ ~held)
  BY DEF TypeOK
<1>3. TypeOK'
  BY <1>1, <1>2 DEF TypeOK, Drags
<1>4. WireInv'
  <2>1. \A e \in Drop : drop'[e].state \in {"none", "sent"} => e \notin committed
    BY <1>1 DEF WireInv
  <2> QED BY <2>1 DEF WireInv
<1>5. Certain' => Certain /\ ~loaded /\ ~held
  BY <1>1, <1>2 DEF ViewInv, Certain
<1>6. ViewInv' /\ BoardInv'
  BY <1>5 DEF ViewInv, BoardInv
<1>7. NewestInv' /\ OwnInv'
  BY <1>1 DEF NewestInv, OwnInv
<1> QED BY <1>3, <1>4, <1>6, <1>7

LEMMA DropSucceedsInv ==
  ASSUME IInv, NEW d \in Drop, DropSucceeds(d)
  PROVE  IInv'
<1> USE DEF IInv, channel
<1>1. /\ drop[d].state \in {"sent", "done"} /\ drop' = [drop EXCEPT ![d] = Settled]
      /\ UNCHANGED <<channel, here, generation, loaded, error, fetch, inFlight,
                     seq, patch, faults, created>>
  BY DEF DropSucceeds
<1>2. CASE Abandoned(d)
  BY <1>1, <1>2, AbandonedInv DEF TypeOK
<1>3. CASE ~Abandoned(d)
  <2>1. /\ drop' \in Drags /\ drop'[d].state = "settled" /\ d \in Pending
        /\ Pending' = Pending \ {d} /\ Pending \subseteq Drop
        /\ \A e \in Drop \ {d} : drop'[e] = drop[e]
        /\ \A e \in Drop : drop'[e].state = "none" <=> e > seq
        /\ d <= seq
    BY <1>1, SettledStep
  <2>2. /\ origin' = d /\ Flush(inFlight \/ Pending # {d}, TRUE)
        /\ UNCHANGED <<board, debt, suspect>>
    BY <1>3 DEF DropSucceeds
  <2>3. /\ requested' = TRUE /\ held' \in BOOLEAN
        /\ (held' => inFlight \/ Pending # {d})
    BY <2>2 DEF Flush, TypeOK
  <2>4. TypeOK'
    <3>1. origin' \in 0 .. seq'
      BY <1>1, <2>1, <2>2 DEF Drop
    <3> QED BY <1>1, <2>1, <2>2, <2>3, <3>1 DEF TypeOK, Drags
  <2>5. WireInv'
    <3>1. \A e \in Drop : drop'[e].state \in {"none", "sent"} => e \notin committed
      BY <2>1 DEF WireInv
    <3> QED BY <1>1, <2>3, <3>1 DEF WireInv
  <2>6. ViewInv'
    <3>1. \A e \in Pending' : e \in Pending /\ drop'[e] = drop[e]
      BY <2>1
    <3>2. held' => inFlight' \/ Pending' # {}
      BY <1>1, <2>1, <2>3
    <3> QED BY <1>1, <2>2, <2>3, <3>1, <3>2 DEF ViewInv, Certain
  <2>7. BoardInv'
    BY <2>3 DEF BoardInv, Refreshing
  <2>8. NewestInv'
    <3> SUFFICES ASSUME seq' \in Pending', created' # seq' PROVE NewestInv'
      BY DEF NewestInv
    <3>1. d < seq /\ seq \in Pending
      BY <1>1, <2>1 DEF Drop, TypeOK
    <3> QED BY <1>1, <2>2, <3>1 DEF NewestInv
  <2>9. OwnInv'
    BY <1>1, <2>1 DEF OwnInv
  <2> QED BY <2>4, <2>5, <2>6, <2>7, <2>8, <2>9
<1> QED BY <1>2, <1>3

LEMMA DropFailsInv ==
  ASSUME IInv, NEW d \in Drop, DropFails(d)
  PROVE  IInv'
<1> USE DEF IInv, channel
<1>1. /\ drop[d].state \in {"sent", "done"} /\ drop' = [drop EXCEPT ![d] = Settled]
      /\ UNCHANGED <<channel, here, generation, loaded, error, fetch, inFlight,
                     seq, patch, created>>
      /\ faults' \in 0 .. MaxFaults
  BY DEF DropFails, Fault, TypeOK
<1>2. CASE Abandoned(d)
  BY <1>1, <1>2, AbandonedInv
<1>3. CASE ~Abandoned(d)
  <2> DEFINE owes == Pending = {d} /\ DebtAfter(d)
  <2>1. /\ drop' \in Drags /\ drop'[d].state = "settled" /\ d \in Pending
        /\ Pending' = Pending \ {d} /\ Pending \subseteq Drop
        /\ \A e \in Drop \ {d} : drop'[e] = drop[e]
        /\ \A e \in Drop : drop'[e].state = "none" <=> e > seq
        /\ d <= seq
    BY <1>1, SettledStep
  <2>2. /\ debt' = DebtAfter(d)
        /\ board' = IF d = seq THEN drop[d].snapshot ELSE board
        /\ origin' = IF owes THEN seq ELSE origin
        /\ Flush(inFlight \/ Pending # {d}, owes)
        /\ suspect' = suspect /\ drop[d].generation = generation
    BY <1>3 DEF DropFails
  <2>3. /\ debt' \in BOOLEAN /\ (debt' <=> debt \/ Pending # {d})
        /\ requested' \in BOOLEAN /\ held' \in BOOLEAN
        /\ (requested => requested') /\ (owes => requested') /\ (held /\ ~held' => requested')
        /\ requested' => requested \/ Pending = {d}
        /\ (held' => inFlight \/ Pending # {d})
    BY <2>2 DEF DebtAfter, Flush, TypeOK
  <2>4. TypeOK'
    <3>1. board' \subseteq Change
      BY <2>1, <2>2 DEF TypeOK
    <3>3. ~loaded => board' = {}
      BY <2>1, <2>2 DEF OwnInv, TypeOK
    <3>2. origin' \in 0 .. seq
      BY <2>2 DEF TypeOK
    <3> QED BY <1>1, <2>1, <2>2, <2>3, <3>1, <3>2, <3>3 DEF TypeOK, Drags
  <2>5. WireInv'
    <3>1. \A e \in Drop : drop'[e].state \in {"none", "sent"} => e \notin committed
      BY <2>1 DEF WireInv
    <3> QED BY <1>1, <2>3, <3>1 DEF WireInv
  <2>6. ViewInv'
    <3>1. \A e \in Pending' : e \in Pending /\ drop'[e] = drop[e]
      BY <2>1
    <3>2. held' => inFlight' \/ Pending' # {}
      BY <1>1, <2>1, <2>3
    <3> QED BY <1>1, <2>2, <2>3, <3>1, <3>2 DEF ViewInv, Certain
  <2>7. BoardInv'
    <3> SUFFICES ASSUME Certain', loaded', ~(Refreshing'), ~error', patch'.state # "sent"
                 PROVE  /\ Pending' = {} => board' = committed'
                        /\ \A e \in Drop : Pending' = {e} => debt'
      BY DEF BoardInv
    <3>1. Certain /\ loaded /\ ~Refreshing /\ ~error /\ patch.state # "sent" /\ ~owes
      BY <1>1, <2>2, <2>3 DEF Certain, Refreshing
    <3>2. ASSUME Pending' = {} PROVE board' = committed'
      <4>1. Pending = {d} /\ ~debt
        BY <2>1, <2>3, <3>1, <3>2 DEF DebtAfter
      <4>2. d = seq /\ drop[d].snapshot = committed
        BY <3>1, <4>1 DEF BoardInv
      <4> QED BY <1>1, <2>2, <4>2
    <3>3. ASSUME NEW e \in Drop, Pending' = {e} PROVE debt'
      BY <2>1, <2>3, <3>3
    <3> QED BY <3>2, <3>3
  <2>8. NewestInv'
    <3> SUFFICES ASSUME seq' \in Pending', created' # seq' PROVE NewestInv'
      BY DEF NewestInv
    <3>1. seq \in Pending /\ Pending # {d} /\ origin' = origin /\ (requested' => requested)
      BY <1>1, <2>1, <2>2, <2>3
    <3> QED BY <1>1, <3>1 DEF NewestInv
  <2>9. OwnInv'
    BY <1>1, <2>1 DEF OwnInv
  <2> QED BY <2>4, <2>5, <2>6, <2>7, <2>8, <2>9
<1> QED BY <1>2, <1>3

-----------------------------------------------------------------------------
(* The inspector and the turn to another Project *)

Patches == [state : {"none", "sent", "done"}, change : Foreign \cup {0}, card : SUBSET Card]

LEMMA BeginPatchInv ==
  ASSUME IInv, NEW c \in Foreign, BeginPatch(c)
  PROVE  IInv'
<1> USE DEF IInv, BeginPatch, channel, refresh, drags, history
<1>1. patch' \in Patches /\ patch'.state = "sent" /\ patch'.change = c
  BY DEF Patches, NoPatch
<1>2. Pending' = Pending
  BY DEF Pending
<1>3. TypeOK'
  <2>1. /\ UNCHANGED <<channel, here, generation, loaded, board, refresh, drags, faults, history>>
        /\ error' = FALSE
    OBVIOUS
  <2> HIDE DEF BeginPatch
  <2>2. patch' \in Patches
    BY <1>1
  <2>3. TypeOK
    OBVIOUS
  <2> HIDE DEF IInv
  <2>4. /\ committed' \subseteq Change /\ told' \subseteq Change
        /\ attached' \in BOOLEAN /\ underway' \in BOOLEAN /\ excused' \in BOOLEAN
        /\ here' \in BOOLEAN /\ generation' \in 1 .. MaxVisits
        /\ loaded' \in BOOLEAN /\ error' \in BOOLEAN
        /\ board' \subseteq Change /\ (~loaded' => board' = {})
    BY <2>1, <2>3 DEF TypeOK
  <2>5. /\ requested' \in BOOLEAN /\ inFlight' \in BOOLEAN /\ held' \in BOOLEAN
        /\ fetch' \in [state : {"none", "sent", "answered"}, items : SUBSET Change,
                       seq : 0 .. MaxDrops, origin : 0 .. MaxDrops, initial : BOOLEAN]
        /\ (here' /\ fetch'.state # "none") => inFlight'
        /\ faults' \in 0 .. MaxFaults /\ suspect' \in BOOLEAN /\ created' \in 0 .. seq'
    BY <2>1, <2>3 DEF TypeOK
  <2>6. /\ seq' \in 0 .. MaxDrops /\ origin' \in 0 .. seq' /\ debt' \in BOOLEAN
        /\ drop' \in Drags /\ \A d \in Drop : drop'[d].state = "none" <=> d > seq'
    BY <2>1, <2>3 DEF TypeOK, Drags
  <2> QED BY <2>2, <2>4, <2>5, <2>6 DEF TypeOK, Drags, Patches
<1>4. WireInv'
  BY <1>1 DEF WireInv
<1>5. ViewInv' /\ BoardInv' /\ NewestInv' /\ OwnInv'
  BY <1>1, <1>2 DEF OwnInv, ViewInv, BoardInv, NewestInv, Certain
<1> QED BY <1>3, <1>4, <1>5

LEMMA CommitPatchInv ==
  ASSUME IInv, CommitPatch
  PROVE  IInv'
<1> USE DEF IInv, CommitPatch, view, refresh, drags, history
<1>1. told' # committed' /\ told' \subseteq committed'
  BY CommitTold
<1>2. /\ committed' = committed \cup {patch.change} /\ attached' = attached /\ underway' = TRUE
      /\ excused' = excused /\ patch.change \in Change
  BY DEF Channel!Commit, WireInv, Change
<1>3. patch' \in Patches /\ patch'.state = "done" /\ patch'.card \subseteq committed'
  BY DEF Patches, TypeOK
<1>4. patch.change \notin Drop
  <2>1. patch.change \in Foreign \cup {0}
    BY DEF TypeOK
  <2> QED BY <2>1 DEF Drop
<1>5. Pending' = Pending
  BY DEF Pending
<1>6. TypeOK'
  <2>1. committed' \subseteq Change /\ told' \subseteq Change
    BY <1>1, <1>2 DEF TypeOK
  <2> QED BY <1>2, <1>3, <2>1 DEF TypeOK, Patches
<1>7. WireInv'
  BY <1>1, <1>2, <1>3, <1>4 DEF WireInv
<1>8. ViewInv' /\ BoardInv' /\ NewestInv' /\ OwnInv'
  BY <1>1, <1>5 DEF OwnInv, ViewInv, BoardInv, NewestInv, Certain, Refreshing
<1> QED BY <1>6, <1>7, <1>8

LEMMA PatchSucceedsInv ==
  ASSUME IInv, PatchSucceeds
  PROVE  IInv'
<1> USE DEF IInv, PatchSucceeds, channel, refresh, drags
<1>1. patch' \in Patches /\ patch'.state = "none"
  BY DEF Patches, NoPatch
<1>2. patch.state = "done" /\ patch.card \subseteq committed /\ patch.card \subseteq Card
  BY DEF WireInv, TypeOK
<1>3. Pending' = Pending
  BY DEF Pending
<1>4. /\ suspect' \in BOOLEAN /\ (suspect => suspect')
      /\ ~loaded => board' = board
      /\ loaded => board' = (board \ Card) \cup patch.card /\ (~suspect' => board \subseteq board')
  BY DEF TypeOK
<1>5. TypeOK'
  <2>1. board' \subseteq Change /\ (~loaded' => board' = {})
    BY <1>2, <1>4 DEF TypeOK, Change
  <2> QED BY <1>1, <1>4, <2>1 DEF TypeOK, Patches
<1>6. WireInv' /\ OwnInv' /\ NewestInv'
  BY <1>1, <1>3 DEF WireInv, OwnInv, NewestInv
<1>7. ViewInv'
  BY <1>3, <1>4 DEF ViewInv, Certain
<1>8. BoardInv'
  <2> SUFFICES ASSUME Certain', loaded', ~(Refreshing'), ~error', Pending' = {}
               PROVE  board' = committed'
    BY <1>2, <1>3, <1>4 DEF BoardInv, Certain, Refreshing
  <2>1. board = committed
    BY <1>2, <1>3, <1>4 DEF BoardInv, Certain, Refreshing
  <2> QED BY <1>2, <1>4, <2>1 DEF Certain
<1> QED BY <1>5, <1>6, <1>7, <1>8

LEMMA PatchFailsInv ==
  ASSUME IInv, PatchFails
  PROVE  IInv'
<1> USE DEF IInv, PatchFails, channel, refresh, drags, history
<1>1. patch' \in Patches /\ patch'.state = "none" /\ error' = TRUE
  BY DEF Patches, NoPatch
<1>2. faults' \in 0 .. MaxFaults
  BY DEF Fault, TypeOK
<1>3. Pending' = Pending
  BY DEF Pending
<1>4. TypeOK'
  BY <1>1, <1>2 DEF TypeOK, Patches
<1>5. WireInv' /\ ViewInv' /\ BoardInv' /\ NewestInv' /\ OwnInv'
  BY <1>1, <1>3 DEF WireInv, OwnInv, ViewInv, BoardInv, NewestInv, Certain
<1> QED BY <1>4, <1>5

LEMMA TurnInv ==
  ASSUME IInv, Turn
  PROVE  IInv'
<1> USE DEF IInv, Turn, channel
<1>1. /\ drop' \in Drags
      /\ \A d \in Drop : drop'[d].state = drop[d].state
      /\ \A d \in Pending : drop'[d].generation = 0
  <2>1. \A d \in Drop : [Settled EXCEPT !.state = drop[d].state]
                        = [state |-> drop[d].state, snapshot |-> {}, generation |-> 0]
    BY DEF Settled
  <2>2. drop \in Drags
    BY DEF TypeOK, Drags
  <2>3. ASSUME NEW d \in Drop
        PROVE  drop'[d] = IF d \in Pending
                          THEN [state |-> drop[d].state, snapshot |-> {}, generation |-> 0]
                          ELSE drop[d]
    BY <2>1, <2>3
  <2>4. DOMAIN drop' = Drop /\ drop' = [d \in Drop |-> drop'[d]]
    OBVIOUS
  <2>5. 0 \in 0 .. MaxVisits
    OBVIOUS
  <2>6. drop' \in Drags
    <3>1. ASSUME NEW d \in Drop
          PROVE  drop'[d] \in [state : {"none", "sent", "done", "settled"}, snapshot : SUBSET Change,
                               generation : 0 .. MaxVisits]
      <4>1. drop[d] \in [state : {"none", "sent", "done", "settled"}, snapshot : SUBSET Change,
                         generation : 0 .. MaxVisits]
        BY <2>2 DEF Drags
      <4>2. CASE d \in Pending
        BY <2>3, <2>5, <4>1, <4>2
      <4>3. CASE d \notin Pending
        BY <2>3, <4>1, <4>3
      <4> QED BY <4>2, <4>3
    <3> QED BY <2>4, <3>1 DEF Drags
  <2>7. Pending \subseteq Drop
    BY DEF Pending
  <2> QED BY <2>3, <2>6, <2>7
<1>2. Pending' = Pending
  BY <1>1 DEF Pending
<1>3. fetch'.state = "none"
      /\ fetch' \in [state : {"none", "sent", "answered"}, items : SUBSET Change,
                     seq : 0 .. MaxDrops, origin : 0 .. MaxDrops, initial : BOOLEAN]
  BY DEF NoFetch
<1>4. generation' \in 1 .. MaxVisits /\ generation' # 0
  BY DEF TypeOK
<1>5. TypeOK'
  <2>1. \A d \in Drop : drop'[d].state = "none" <=> d > seq'
    BY <1>1 DEF TypeOK
  <2>2. created' \in 0 .. seq'
    BY DEF TypeOK
  <2>3. here' \in BOOLEAN /\ loaded' \in BOOLEAN /\ error' \in BOOLEAN /\ debt' \in BOOLEAN
        /\ held' \in BOOLEAN /\ requested' \in BOOLEAN /\ inFlight' \in BOOLEAN
        /\ suspect' \in BOOLEAN
    BY DEF TypeOK
  <2> QED BY <1>1, <1>3, <1>4, <2>1, <2>2, <2>3 DEF TypeOK, Drags
<1>6. WireInv'
  BY <1>1, <1>3 DEF WireInv
<1>7. OwnInv' /\ NewestInv'
  BY <1>1, <1>2, <1>3, <1>4 DEF OwnInv, NewestInv
<1>8. ViewInv' /\ BoardInv'
  BY <1>3 DEF ViewInv, BoardInv, Certain
<1> QED BY <1>5, <1>6, <1>7, <1>8

-----------------------------------------------------------------------------

LEMMA StutterInv ==
  ASSUME IInv, UNCHANGED vars
  PROVE  IInv'
<1> USE DEF vars, channel, view, refresh, drags, history
<1>1. TypeOK'
  BY DEF IInv, TypeOK
<1>2. Pending' = Pending
  BY DEF Pending
<1>3. WireInv' /\ OwnInv' /\ ViewInv' /\ BoardInv' /\ NewestInv'
  BY <1>2 DEF IInv, WireInv, OwnInv, ViewInv, BoardInv, NewestInv, Certain, Refreshing
<1> QED BY <1>1, <1>3 DEF IInv

LEMMA NextInv == IInv /\ [Next]_vars => IInv'
<1> SUFFICES ASSUME IInv, [Next]_vars PROVE IInv'
  OBVIOUS
<1>1. ASSUME NEW c \in Foreign, CommitForeign(c) \/ CreateHere(c) \/ BeginPatch(c) PROVE IInv'
  BY <1>1, CommitForeignInv, CreateHereInv, BeginPatchInv
<1>2. CASE CommitPatch \/ PatchSucceeds \/ PatchFails
  BY <1>2, CommitPatchInv, PatchSucceedsInv, PatchFailsInv
<1>3. CASE ChannelStep \/ Hint
  BY <1>3, ChannelStepInv, HintInv
<1>4. CASE StartFetch \/ AnswerFetch \/ SettleFetch \/ FailFetch
  BY <1>4, StartFetchInv, AnswerFetchInv, SettleFetchInv, FailFetchInv
<1>5. CASE Drag
  BY <1>5, DragInv
<1>6. ASSUME NEW d \in Drop, CommitDrop(d) \/ Settle(d) PROVE IInv'
  BY <1>6, CommitDropInv, DropSucceedsInv, DropFailsInv DEF Settle
<1>7. CASE Turn
  BY <1>7, TurnInv
<1>8. CASE UNCHANGED vars
  BY <1>8, StutterInv
<1> QED BY <1>1, <1>2, <1>3, <1>4, <1>5, <1>6, <1>7, <1>8 DEF Next

LEMMA Invariance == Spec => []IInv
<1>1. Init => IInv
  BY InitInv
<1>2. IInv /\ [Next]_vars => IInv'
  BY NextInv
<1> QED BY <1>1, <1>2, PTL DEF Spec

-----------------------------------------------------------------------------
(* The theorems *)

\* The Board of an open page, whose stream is attached, forgets no change: it
\* is what the server has, or a signal, a fetch, a drag or a PATCH is still to
\* settle, or an answer has met a drag (the fetch effect and
\* flushWorkItemsRealtimeInvalidation of ProjectDetailPage.tsx).
THEOREM NothingForgottenSafe == Spec => []NothingForgotten
<1>1. IInv => NothingForgotten
  <2> SUFFICES ASSUME IInv, Watching, ~Coming, ~suspect PROVE board = committed
    BY DEF NothingForgotten, IInv
  <2> USE DEF IInv
  <2>1. Certain /\ ~error
    BY DEF Certain, Watching
  <2>2. told = committed /\ ~requested /\ fetch.state = "none" /\ Pending = {} /\ patch = NoPatch
    BY DEF Coming
  <2>3. ~held /\ loaded
    BY <2>1, <2>2 DEF ViewInv, WireInv, Certain
  <2> QED BY <2>1, <2>2, <2>3 DEF BoardInv, Refreshing, NoPatch
<1> QED BY <1>1, Invariance, PTL

\* No answer of a fetch takes the newest pending drag off the Board, unless
\* the user has created an item since (workItemDropSequenceRef and
\* workItemDropRevalidationOriginRef of ProjectDetailPage.tsx).
THEOREM NewestDragSafe == Spec => NewestDragKept
<1> DEFINE Kept == (seq \in Pending /\ seq \in board /\ seq \notin board')
      => \/ generation' # generation
         \/ drop'[seq].state = "settled"
         \/ created = seq
         \/ seq \in Card /\ patch.state = "done" /\ patch' = NoPatch
<1>1. IInv /\ [Next]_vars => Kept
  <2> SUFFICES ASSUME IInv, [Next]_vars, seq \in Pending, seq \in board, seq \notin board',
                      created # seq, generation' = generation
               PROVE  \/ drop'[seq].state = "settled"
                      \/ seq \in Card /\ patch.state = "done" /\ patch' = NoPatch
    OBVIOUS
  <2>1. CASE SettleFetch
    <3>1. Usable /\ fetch.state = "answered"
      BY <2>1 DEF SettleFetch
    <3>2. loaded
      BY DEF IInv, TypeOK
    <3>3. ~fetch.initial /\ fetch.origin < seq
      BY <3>1, <3>2 DEF IInv, WireInv, NewestInv
    <3>4. seq <= fetch.origin
      BY <3>1, <3>3 DEF Usable
    <3>5. seq \in Nat /\ fetch.origin \in Nat
      BY DEF IInv, TypeOK
    <3> QED BY <3>3, <3>4, <3>5
  <2>2. CASE PatchSucceeds
    BY <2>2 DEF PatchSucceeds
  <2>3. ASSUME NEW d \in Drop, DropFails(d) PROVE drop'[seq].state = "settled"
    <3>1. drop' = [drop EXCEPT ![d] = Settled] /\ drop[d].state \in {"sent", "done"}
      BY <2>3 DEF DropFails
    <3>2. d = seq
      BY <2>3 DEF DropFails, Abandoned
    <3>3. drop'[d].state = "settled"
      BY <3>1, SettledStep
    <3> QED BY <3>2, <3>3
  <2>4. board' = board \/ SettleFetch \/ PatchSucceeds \/ (\E d \in Drop : DropFails(d))
        \/ seq \in board'
    <3>1. ASSUME NEW c \in Foreign, CommitForeign(c) \/ CreateHere(c) \/ BeginPatch(c)
          PROVE  board' = board
      BY <3>1 DEF CommitForeign, CreateHere, BeginPatch, view
    <3>2. CASE CommitPatch \/ PatchFails \/ ChannelStep \/ Hint \/ StartFetch \/ AnswerFetch
               \/ FailFetch
      BY <3>2 DEF CommitPatch, PatchFails, ChannelStep, Hint, StartFetch, AnswerFetch, FailFetch, view
    <3>3. CASE Drag
      BY <3>3 DEF Drag
    <3>4. ASSUME NEW d \in Drop, CommitDrop(d) \/ DropSucceeds(d) PROVE board' = board
      BY <3>4 DEF CommitDrop, DropSucceeds, Abandoned, view
    <3>5. CASE Turn
      <4>1. generation \in Nat
        BY DEF IInv, TypeOK
      <4> QED BY <3>5, <4>1 DEF Turn
    <3>6. CASE UNCHANGED vars
      BY <3>6 DEF vars, view
    <3> QED BY <3>1, <3>2, <3>3, <3>4, <3>5, <3>6 DEF Next, Settle
  <2> QED BY <2>1, <2>2, <2>3, <2>4
<1> QED BY <1>1, Invariance, PTL DEF Spec, NewestDragKept
=============================================================================
