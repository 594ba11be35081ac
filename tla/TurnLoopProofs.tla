--------------------------- MODULE TurnLoopProofs ---------------------------
(***************************************************************************)
(* Proofs about the turn loop, for every number of conversations, workers  *)
(* and messages.                                                           *)
(*                                                                         *)
(* A handler of the loop computes a picture S of the eight variables a     *)
(* drain touches, drains it, and becomes the result.  The invariant is     *)
(* therefore stated over such a picture (Sound), shown to be kept by the   *)
(* steps from picture to picture -- Closed, Started, Refused, Drained --   *)
(* and lifted to the variables through Now.                                *)
(***************************************************************************)
EXTENDS TurnLoop, SequenceTheorems, FiniteSetTheorems, TLAPS

Typed(S) ==
  S \in [queue : [Scopes -> Seq(Msgs)], ahead : SUBSET (Scopes \X Scopes),
         inFlight : SUBSET Scopes, turns : [Workers -> Turn \cup {NoTurn}],
         status : [Workers -> {"unmade", "starting", "up", "dead"}],
         steer : SUBSET Scopes, activity : SUBSET Scopes, told : SUBSET Msgs]

BusyIn(S) == {w \in Workers : S.turns[w] # NoTurn}

\* OneTurnPerScope of a picture.
Exclusive(S) ==
  /\ \A w \in BusyIn(S) : S.turns[w].scope \in S.inFlight
  /\ \A s \in S.inFlight : \E w \in BusyIn(S) : S.turns[w].scope = s
  /\ \A v, w \in BusyIn(S) : S.turns[v].scope = S.turns[w].scope => v = w

\* What makes it inductive: a drain may overwrite the turn of a worker it has
\* just made, so a worker not made yet must have none.
UnmadeIsIdle(S) == \A w \in Workers : S.status[w] = "unmade" => S.turns[w] = NoTurn

Sound(S) == Typed(S) /\ Exclusive(S) /\ UnmadeIsIdle(S)

LEMMA MsgsOfType ==
  ASSUME NEW q \in Seq(Msgs)
  PROVE  MsgsOf(q) \subseteq Msgs
BY ElementOfSeq DEF MsgsOf

LEMMA BatchRest ==
  ASSUME NEW q \in Seq(Msgs)
  PROVE  Batch(q) \in Seq(Msgs) /\ Rest(q) \in Seq(Msgs)
<1>1. Batch(q) \in Seq(Msgs) /\ Len(Batch(q)) \in 0..Len(q)
  BY BatchAssumption, SubSeqProperties DEF Batch
<1>2. Rest(q) \in Seq(Msgs)
  BY <1>1, SubSeqProperties DEF Rest
<1> QED BY <1>1, <1>2

\* What waits gives a batch that is not empty.
LEMMA BatchOfWaiting ==
  ASSUME NEW q \in Seq(Msgs), q # <<>>
  PROVE  Batch(q) \in Seq(Msgs) \ {<<>>}
<1>1. Len(q) \in Nat \ {0}
  BY EmptySeq, LenProperties
<1> DEFINE k == IF Len(q) < MaxBatch THEN Len(q) ELSE MaxBatch
<1>2. k \in 1..Len(q)
  BY <1>1, BatchAssumption
<1> HIDE DEF k
<1>3. \A i \in 1..k : q[i] \in Msgs
  BY <1>1, <1>2, LenProperties, ElementOfSeq
<1>4. SubSeq(q, 1, k) \in Seq(Msgs) /\ Len(SubSeq(q, 1, k)) = k
  BY <1>1, <1>2, <1>3, SubSeqProperties
<1>5. SubSeq(q, 1, k) # <<>>
  <2>1. Len(<<>>) = 0 /\ k # 0
    BY <1>2
  <2> QED BY <1>4, <2>1
<1> QED BY <1>4, <1>5 DEF Batch, k

LEMMA NewTurnType ==
  ASSUME NEW s \in Scopes, NEW b \in Seq(Msgs) \ {<<>>}, NEW f \in BOOLEAN
  PROVE  NewTurn(s, b, f) \in Turn /\ NewTurn(s, b, f).scope = s
BY DEF NewTurn, Turn, Phases

LEMMA RefusedSound ==
  ASSUME NEW S, Sound(S)
  PROVE  Sound(Refused(S))
<1>1. UNION {MsgsOf(S.queue[s]) : s \in Scopes \ BanterScopes} \subseteq Msgs
  BY MsgsOfType DEF Sound, Typed
<1>2. Typed(Refused(S))
  <2>1. S.told \cup UNION {MsgsOf(S.queue[s]) : s \in Scopes \ BanterScopes} \in SUBSET Msgs
    BY <1>1 DEF Sound, Typed
  <2>2. [s \in Scopes |-> <<>>] \in [Scopes -> Seq(Msgs)]
    OBVIOUS
  <2> QED BY <2>1, <2>2 DEF Sound, Typed, Refused
<1>3. Exclusive(Refused(S)) /\ UnmadeIsIdle(Refused(S))
  BY DEF Sound, Typed, Exclusive, UnmadeIsIdle, BusyIn, Refused
<1> QED BY <1>2, <1>3 DEF Sound

\* A drain's claims are scopes that wait, each matched with a worker of its
\* own that is idle or not made yet.
LEMMA ClaimsShape ==
  ASSUME NEW S, NEW c \in Claims(S)
  PROVE  /\ DOMAIN c \subseteq Waiting(S)
         /\ \A s \in DOMAIN c : c[s] \in Idle(S) \cup Unmade(S)
         /\ \A s, u \in DOMAIN c : c[s] = c[u] => s = u
<1>1. PICK D \in SUBSET Waiting(S) : c \in Injection(D, Idle(S) \cup Unmade(S))
  BY DEF Claims
<1> QED BY <1>1 DEF Injection, IsInjective

LEMMA StartedSound ==
  ASSUME NEW S, Sound(S), NEW c \in Claims(S)
  PROVE  Sound(Started(S, c))
<1> DEFINE who(w) == CHOOSE s \in DOMAIN c : c[s] = w
           taken == {c[s] : s \in DOMAIN c}
           T == Started(S, c)
<1>1. /\ DOMAIN c \subseteq Scopes /\ DOMAIN c \cap S.inFlight = {}
      /\ \A s \in DOMAIN c : S.queue[s] # <<>>
      /\ taken \subseteq Workers
      /\ \A w \in taken : S.turns[w] = NoTurn
  BY ClaimsShape DEF Waiting, Idle, Unmade, Live, Sound, Typed, UnmadeIsIdle
<1>2. \A w \in taken : who(w) \in DOMAIN c /\ c[who(w)] = w
  OBVIOUS
<1>3. \A s \in DOMAIN c : c[s] \in taken /\ who(c[s]) = s
  BY <1>2, ClaimsShape
<1>4. \A w \in taken : NewTurn(who(w), Batch(S.queue[who(w)]), who(w) \in S.steer) \in Turn
                       /\ NewTurn(who(w), Batch(S.queue[who(w)]), who(w) \in S.steer).scope = who(w)
  <2> SUFFICES ASSUME NEW w \in taken
               PROVE  /\ NewTurn(who(w), Batch(S.queue[who(w)]), who(w) \in S.steer) \in Turn
                      /\ NewTurn(who(w), Batch(S.queue[who(w)]), who(w) \in S.steer).scope = who(w)
    OBVIOUS
  <2>1. who(w) \in Scopes BY <1>1, <1>2
  <2>2. S.queue[who(w)] \in Seq(Msgs) /\ S.queue[who(w)] # <<>> BY <1>1, <1>2, <2>1 DEF Sound, Typed
  <2>3. Batch(S.queue[who(w)]) \in Seq(Msgs) \ {<<>>} BY <2>2, BatchOfWaiting
  <2>4. (who(w) \in S.steer) \in BOOLEAN OBVIOUS
  <2> HIDE DEF who
  <2> QED BY <2>1, <2>3, <2>4, NewTurnType
<1> HIDE DEF who
<1>5. /\ T.inFlight = S.inFlight \cup DOMAIN c
      /\ \A w \in taken : T.turns[w] \in Turn /\ T.turns[w].scope = who(w)
      /\ \A w \in Workers \ taken : T.turns[w] = S.turns[w]
      /\ T.turns \in [Workers -> Turn \cup {NoTurn}]
  BY <1>1, <1>4 DEF Started, who, Sound, Typed
<1>6. Typed(T)
  <2>1. [s \in Scopes |-> IF s \in DOMAIN c THEN Rest(S.queue[s]) ELSE S.queue[s]]
           \in [Scopes -> Seq(Msgs)]
    BY BatchRest DEF Sound, Typed
  <2>2. T.turns \in [Workers -> Turn \cup {NoTurn}] BY <1>5
  <2> QED BY <1>1, <2>1, <2>2 DEF Started, KeysLeft, Sound, Typed
<1>7. UnmadeIsIdle(T)
  BY <1>5 DEF UnmadeIsIdle, Started, Sound, Typed
<1>8. Exclusive(T)
  <2>1. BusyIn(T) = BusyIn(S) \cup taken /\ BusyIn(S) \cap taken = {}
    BY <1>1, <1>5, NoTurnAssumption DEF BusyIn
  <2>2. \A w \in BusyIn(S) : T.turns[w].scope = S.turns[w].scope
    BY <1>5, <2>1 DEF BusyIn
  <2>3. \A w \in BusyIn(T) : T.turns[w].scope \in T.inFlight
    BY <1>2, <1>5, <2>1, <2>2 DEF Sound, Exclusive
  <2>4. \A s \in T.inFlight : \E w \in BusyIn(T) : T.turns[w].scope = s
    BY <1>3, <1>5, <2>1, <2>2 DEF Sound, Exclusive
  <2>5. \A v, w \in BusyIn(T) : T.turns[v].scope = T.turns[w].scope => v = w
    BY <1>1, <1>2, <1>5, <2>1, <2>2 DEF Sound, Exclusive
  <2> QED BY <2>3, <2>4, <2>5 DEF Exclusive
<1> QED BY <1>6, <1>7, <1>8 DEF Sound

LEMMA DrainedSound ==
  ASSUME NEW S, Sound(S), NEW D \in Drained(S)
  PROVE  Sound(D)
BY RefusedSound, StartedSound DEF Drained

\* A turn that ends frees its worker and its scope, and no other.
LEMMA ClosedSound ==
  ASSUME NEW S, Sound(S), NEW w \in Workers, S.turns[w] # NoTurn, NEW r \in BOOLEAN
  PROVE  Sound(Closed(w, S, r))
<1> DEFINE C == Closed(w, S, r)
           s == S.turns[w].scope
<1>1. s \in Scopes /\ s \in S.inFlight
  BY DEF Sound, Typed, Exclusive, BusyIn, Turn
<1>2. Typed(C)
  BY <1>1 DEF Sound, Typed, Closed
<1>3. /\ C.turns = [S.turns EXCEPT ![w] = NoTurn] /\ C.inFlight = S.inFlight \ {s}
      /\ \A v \in Workers : C.status[v] = "unmade" <=> S.status[v] = "unmade"
  BY DEF Sound, Typed, Closed
<1>4. UnmadeIsIdle(C)
  BY <1>3 DEF Sound, Typed, UnmadeIsIdle
<1>5. Exclusive(C)
  <2>1. BusyIn(C) = BusyIn(S) \ {w} /\ \A v \in BusyIn(C) : C.turns[v] = S.turns[v]
    BY <1>3 DEF BusyIn, Sound, Typed
  <2> HIDE DEF C
  <2> QED BY <2>1, <1>3 DEF Sound, Exclusive, BusyIn
<1> QED BY <1>2, <1>4, <1>5 DEF Sound

-----------------------------------------------------------------------------
(* From pictures to the variables.                                         *)

Bookkeeping ==
  /\ restarts \in [Workers -> {0, 1}]
  /\ pending \subseteq Workers /\ reloading \subseteq Workers
  /\ refused \in BOOLEAN /\ refusalSaid \subseteq Scopes
  /\ gw \in {"up", "closed", "joining"} /\ stopping \in BOOLEAN
  /\ attempt \in [Msgs -> 0..(MaxAttempts - 1)]
  /\ sent \in 0..MaxMsgs /\ left \in [Disturbances -> Nat]
  /\ asked \in Seq(Scopes) /\ Len(asked) = sent
  /\ excused \subseteq Msgs /\ midTurn \subseteq Msgs
  /\ shown \in [Msgs -> Nat]

\* The inductive invariant.
Inv == Sound(Now) /\ Bookkeeping

LEMMA InvImpliesProperties ==
  Inv => TypeOK /\ OneTurnPerScope
BY DEF Inv, Bookkeeping, Sound, Typed, Exclusive, BusyIn, Now, TypeOK,
       OneTurnPerScope, Busy

LEMMA BecomeSound ==
  ASSUME NEW S, Sound(S), Become(S)
  PROVE  Sound(Now)'
<1>1. Now' = S
  BY DEF Become, Now, Sound, Typed
<1> QED BY <1>1 DEF Sound, Typed, Exclusive, UnmadeIsIdle, BusyIn

LEMMA TurnEndsSound ==
  ASSUME NEW S, Sound(S), NEW w \in Workers, S.turns[w] # NoTurn,
         NEW r \in BOOLEAN, TurnEnds(w, S, r), Bookkeeping
  PROVE  Sound(Now)' /\ pending' \subseteq Workers /\ reloading' \subseteq Workers
BY ClosedSound, DrainedSound, BecomeSound DEF TurnEnds, Bookkeeping

\* A step that only rewrites turns in place -- same scope, still a turn --
\* keeps the invariant of the picture.
LEMMA InPlaceSound ==
  ASSUME Sound(Now), turns' \in [Workers -> Turn \cup {NoTurn}],
         \A w \in Workers : /\ turns'[w] = NoTurn <=> turns[w] = NoTurn
                            /\ turns[w] # NoTurn => turns'[w].scope = turns[w].scope,
         queue' \in [Scopes -> Seq(Msgs)], ahead' \subseteq Scopes \X Scopes,
         inFlight' = inFlight, steer' \subseteq Scopes, activity' \subseteq Scopes,
         told' \subseteq Msgs,
         status' \in [Workers -> {"unmade", "starting", "up", "dead"}],
         \A w \in Workers : status'[w] = "unmade" => status[w] = "unmade"
  PROVE  Sound(Now)'
<1>1. Typed(Now)'
  BY DEF Sound, Typed, Now
<1>2. UnmadeIsIdle(Now)'
  BY DEF Sound, UnmadeIsIdle, Now
<1>3. Exclusive(Now)'
  <2>1. BusyIn(Now)' = BusyIn(Now)
    BY DEF BusyIn, Now
  <2> QED BY <2>1 DEF Sound, Exclusive, BusyIn, Now
<1> QED BY <1>1, <1>2, <1>3 DEF Sound

LEMMA InitInv == Init => Inv
<1> SUFFICES ASSUME Init PROVE Inv
  OBVIOUS
<1>1. PICK w \in Workers : status = [v \in Workers |-> IF v = w THEN "up" ELSE "unmade"]
  BY DEF Init
<1>2. Typed(Now)
  BY <1>1 DEF Init, Now, Typed
<1>3. Exclusive(Now) /\ UnmadeIsIdle(Now)
  BY DEF Init, Now, Exclusive, UnmadeIsIdle, BusyIn
<1>4. Bookkeeping
  <2>1. 0 \in 0..(MaxAttempts - 1) /\ 0 \in 0..MaxMsgs
    BY BatchAssumption, BoundAssumption
  <2>2. [m \in Msgs |-> 0] \in [Msgs -> 0..(MaxAttempts - 1)]
    BY <2>1
  <2>3. attempt \in [Msgs -> 0..(MaxAttempts - 1)] /\ sent \in 0..MaxMsgs
    BY <2>1, <2>2 DEF Init
  <2>4. left \in [Disturbances -> Nat]
    BY BoundAssumption DEF Init
  <2>5. asked \in Seq(Scopes) /\ Len(asked) = sent
    BY DEF Init
  <2> QED BY <2>3, <2>4, <2>5 DEF Init, Bookkeeping
<1> QED BY <1>2, <1>3, <1>4 DEF Inv, Sound

-----------------------------------------------------------------------------
(* Every action keeps the invariant.                                       *)

LEMMA SpendType ==
  ASSUME Bookkeeping, NEW k \in Disturbances, Spend(k)
  PROVE  left' \in [Disturbances -> Nat]
<1>1. left[k] \in Nat /\ left[k] > 0 /\ left' = [left EXCEPT ![k] = left[k] - 1]
  BY DEF Bookkeeping, Spend
<1>2. left[k] - 1 \in Nat
  BY <1>1
<1> QED BY <1>1, <1>2 DEF Bookkeeping

LEMMA DisturbancesAre ==
  /\ "fault" \in Disturbances /\ "cancel" \in Disturbances /\ "reload" \in Disturbances
  /\ "drop" \in Disturbances /\ "stop" \in Disturbances
BY DEF Disturbances

\* The picture before a step, field by field.
LEMMA NowTyped ==
  ASSUME Sound(Now)
  PROVE  /\ queue \in [Scopes -> Seq(Msgs)] /\ ahead \subseteq Scopes \X Scopes
         /\ inFlight \subseteq Scopes /\ turns \in [Workers -> Turn \cup {NoTurn}]
         /\ status \in [Workers -> {"unmade", "starting", "up", "dead"}]
         /\ steer \subseteq Scopes /\ activity \subseteq Scopes /\ told \subseteq Msgs
BY DEF Sound, Typed, Now

LEMMA KeySetType ==
  ASSUME Sound(Now), NEW s \in Scopes
  PROVE  KeySet(queue, s) \subseteq Scopes \X Scopes
BY NowTyped DEF KeySet, Keys

\* The picture a message arrives in.
Arrived(s) ==
  [Now EXCEPT !.queue = [queue EXCEPT ![s] = Append(@, sent + 1)],
              !.ahead = KeySet(queue, s),
              !.activity = IF s \in BanterScopes THEN activity ELSE activity \cup {s}]

LEMMA ArrivedSound ==
  ASSUME Inv, NEW s \in Scopes, Enqueue(s)
  PROVE  /\ Sound(Arrived(s)) /\ Arrived(s).turns = turns /\ Arrived(s).status = status
         /\ Arrived(s).queue = [queue EXCEPT ![s] = Append(@, sent + 1)]
         /\ Arrived(s).told = told
         /\ \E D \in Drained(Arrived(s)) : Become(D)
         /\ sent \in Nat /\ sent + 1 \in Msgs /\ sent' = sent + 1 /\ ~stopping
<1> DEFINE q == [queue EXCEPT ![s] = Append(@, sent + 1)]
           a == IF s \in BanterScopes THEN activity ELSE activity \cup {s}
           S == [Now EXCEPT !.queue = q, !.ahead = KeySet(queue, s), !.activity = a]
<1>1. sent \in Nat /\ sent + 1 \in Msgs /\ sent' = sent + 1 /\ ~stopping
  BY BoundAssumption DEF Inv, Bookkeeping, Enqueue, Msgs
<1>2. Append(queue[s], sent + 1) \in Seq(Msgs)
  BY <1>1, NowTyped DEF Inv
<1>3. q \in [Scopes -> Seq(Msgs)] /\ a \subseteq Scopes
  BY <1>2, NowTyped DEF Inv
<1>4. S = Arrived(s) /\ \E D \in Drained(Arrived(s)) : Become(D)
  BY DEF Arrived, Enqueue
<1>5. S.turns = turns /\ S.status = status /\ S.queue = q /\ S.told = told
  BY DEF Now
<1>6. Typed(S) /\ Exclusive(S) /\ UnmadeIsIdle(S)
  <2> HIDE DEF q, a
  <2>1. Typed(S)
    BY <1>3, NowTyped, KeySetType DEF Inv, Typed, Now
  <2>2. Exclusive(S) /\ UnmadeIsIdle(S)
    BY DEF Inv, Sound, Exclusive, UnmadeIsIdle, BusyIn, Now
  <2> QED BY <2>1, <2>2
<1> HIDE DEF S
<1> QED BY <1>1, <1>4, <1>5, <1>6 DEF Sound

LEMMA EnqueueInv == ASSUME Inv, NEW s \in Scopes, Enqueue(s) PROVE Inv'
<1>1. sent + 1 \in Msgs /\ sent' \in 0..MaxMsgs
  BY BoundAssumption DEF Inv, Bookkeeping, Enqueue, Msgs
<1>2. Sound(Now)'
  BY ArrivedSound, DrainedSound, BecomeSound
<1>3. excused' \subseteq Msgs /\ midTurn' \subseteq Msgs
  BY <1>1 DEF Enqueue, Inv, Bookkeeping
<1>4. asked' \in Seq(Scopes) /\ Len(asked') = sent'
  BY AppendProperties DEF Enqueue, Inv, Bookkeeping
<1> QED BY <1>1, <1>2, <1>3, <1>4 DEF Enqueue, Inv, Bookkeeping

\* A turn that ends leaves the rest of the state as the action says.
LEMMA TurnEndsNow ==
  ASSUME Inv, NEW w \in Workers, turns[w] # NoTurn, TurnEnds(w, Now, FALSE)
  PROVE  Sound(Now)' /\ pending' \subseteq Workers /\ reloading' \subseteq Workers
<1>1. Now.turns[w] # NoTurn
  BY DEF Now
<1> QED BY <1>1, TurnEndsSound DEF Inv

LEMMA SaidSound ==
  ASSUME Inv, NEW w \in Workers, turns[w] # NoTurn
  PROVE  /\ Sound(Said(Now, turns[w].batch))
         /\ Said(Now, turns[w].batch).turns[w] # NoTurn
<1>1. turns[w].batch \in Seq(Msgs)
  BY NowTyped DEF Inv, Turn
<1>2. MsgsOf(turns[w].batch) \subseteq Msgs
  BY <1>1, MsgsOfType
<1>3. Typed(Said(Now, turns[w].batch))
  BY <1>2, NowTyped DEF Inv, Typed, Said, Now
<1>4. Exclusive(Said(Now, turns[w].batch)) /\ UnmadeIsIdle(Said(Now, turns[w].batch))
  BY DEF Inv, Sound, Exclusive, UnmadeIsIdle, BusyIn, Said, Now
<1> QED BY <1>3, <1>4 DEF Sound, Said, Now

LEMMA TurnEndsSaid ==
  ASSUME Inv, NEW w \in Workers, turns[w] # NoTurn,
         TurnEnds(w, Said(Now, turns[w].batch), FALSE)
  PROVE  Sound(Now)' /\ pending' \subseteq Workers /\ reloading' \subseteq Workers
BY SaidSound, TurnEndsSound DEF Inv

\* A failed turn: its messages go back, or are explained, or are let go.
LEMMA TurnFailsSound ==
  ASSUME Inv, NEW w \in Workers, turns[w] # NoTurn, NEW r \in BOOLEAN, TurnFails(w, r)
  PROVE  /\ Sound(Now)' /\ pending' \subseteq Workers /\ reloading' \subseteq Workers
         /\ refused' \in BOOLEAN /\ refusalSaid' \subseteq Scopes
         /\ attempt' \in [Msgs -> 0..(MaxAttempts - 1)]
<1> DEFINE t == turns[w]
           silent == stopping \/ t.scope \in BanterScopes \/ t.cancelled
           q == [queue EXCEPT ![t.scope] = PutBack(t.batch, @)]
           S == [Now EXCEPT !.queue = q, !.ahead = KeySet(queue, t.scope),
                            !.steer = IF t.steer THEN steer \cup {t.scope} ELSE steer]
<1>1. t.scope \in Scopes /\ t.batch \in Seq(Msgs)
  BY NowTyped DEF Inv, Turn
<1>2. MsgsOf(t.batch) \subseteq Msgs
  BY <1>1, MsgsOfType
<1>3. refused' \in BOOLEAN
  BY DEF TurnFails
<1>4. CASE silent /\ TurnEnds(w, Now, FALSE) /\ UNCHANGED <<attempt, refusalSaid>>
  BY <1>3, <1>4, TurnEndsNow DEF Inv, Bookkeeping
<1>5. CASE /\ MayRetry(t, r) /\ TurnEnds(w, S, TRUE)
           /\ \E most \in {attempt[m] : m \in MsgsOf(t.batch)} :
                /\ \A m \in MsgsOf(t.batch) : attempt[m] <= most
                /\ attempt' = [m \in Msgs |-> IF m \in MsgsOf(t.batch)
                                              THEN most + 1 ELSE attempt[m]]
           /\ UNCHANGED refusalSaid
  <2>1. q \in [Scopes -> Seq(Msgs)]
    <3>1. PutBack(t.batch, queue[t.scope]) \in Seq(Msgs)
      BY <1>1, NowTyped, ConcatProperties DEF Inv, PutBack
    <3> QED BY <1>1, <3>1, NowTyped DEF Inv
  <2>2. Sound(S) /\ S.turns[w] # NoTurn
    <3> HIDE DEF q
    <3>1. Typed(S)
      BY <1>1, <2>1, NowTyped, KeySetType DEF Inv, Typed, Now
    <3>2. Exclusive(S) /\ UnmadeIsIdle(S)
      BY DEF Inv, Sound, Exclusive, UnmadeIsIdle, BusyIn, Now
    <3> QED BY <3>1, <3>2 DEF Sound, Now
  <2>3. TurnEnds(w, S, TRUE)
    BY <1>5
  <2>4. Sound(Now)' /\ pending' \subseteq Workers /\ reloading' \subseteq Workers
    <3> HIDE DEF S
    <3> QED BY <2>2, <2>3, TurnEndsSound DEF Inv
  <2>5. PICK m \in MsgsOf(t.batch) :
          attempt' = [n \in Msgs |-> IF n \in MsgsOf(t.batch)
                                     THEN attempt[m] + 1 ELSE attempt[n]]
    BY <1>5
  <2>6. attempt[m] + 1 \in 0..(MaxAttempts - 1)
    <3>1. attempt[m] \in 0..(MaxAttempts - 1) /\ attempt[m] + 1 < MaxAttempts
      BY <1>2, <1>5 DEF Inv, Bookkeeping, MayRetry
    <3> QED BY <3>1, BatchAssumption
  <2>7. attempt' \in [Msgs -> 0..(MaxAttempts - 1)]
    BY <2>5, <2>6 DEF Inv, Bookkeeping
  <2> QED BY <1>3, <1>5, <2>4, <2>7 DEF Inv, Bookkeeping
<1>6. CASE /\ TurnEnds(w, Said(Now, t.batch), FALSE)
           /\ refusalSaid' = IF r THEN refusalSaid \cup {t.scope} ELSE refusalSaid
           /\ UNCHANGED attempt
  BY <1>1, <1>3, <1>6, TurnEndsSaid DEF Inv, Bookkeeping
<1>7. CASE TurnEnds(w, Now, FALSE) /\ UNCHANGED <<attempt, refusalSaid>>
  BY <1>3, <1>7, TurnEndsNow DEF Inv, Bookkeeping
<1> QED BY <1>4, <1>5, <1>6, <1>7 DEF TurnFails

LEMMA TurnFields ==
  ASSUME Inv, NEW w \in Workers, turns[w] # NoTurn
  PROVE  turns[w] \in Turn
BY NowTyped DEF Inv

\* Turns rewritten in place, and nothing else of the picture but told.
LEMMA RewrittenSound ==
  ASSUME Sound(Now), turns' \in [Workers -> Turn \cup {NoTurn}],
         \A w \in Workers : /\ turns'[w] = NoTurn <=> turns[w] = NoTurn
                            /\ turns[w] # NoTurn => turns'[w].scope = turns[w].scope,
         UNCHANGED <<queue, ahead, inFlight, status, steer, activity>>,
         told' \subseteq Msgs
  PROVE  Sound(Now)'
BY NowTyped, InPlaceSound

\* One turn of the picture replaced by another of the same scope.
LEMMA OneRewritten ==
  ASSUME Inv, NEW w \in Workers, turns[w] # NoTurn, NEW t \in Turn,
         t.scope = turns[w].scope, turns' = [turns EXCEPT ![w] = t],
         UNCHANGED <<queue, ahead, inFlight, status, steer, activity>>,
         told' \subseteq Msgs
  PROVE  Sound(Now)'
<1>1. turns' \in [Workers -> Turn \cup {NoTurn}]
  BY NowTyped DEF Inv
<1>2. \A v \in Workers : /\ turns'[v] = NoTurn <=> turns[v] = NoTurn
                         /\ turns[v] # NoTurn => turns'[v].scope = turns[v].scope
  BY NowTyped, NoTurnAssumption DEF Inv
<1> QED BY <1>1, <1>2, RewrittenSound DEF Inv

LEMMA BeginInv == ASSUME Inv, NEW w \in Workers, Begin(w) PROVE Inv'
<1> DEFINE t == [turns[w] EXCEPT !.phase = "opening"]
<1>1. turns[w] \in Turn
  BY TurnFields DEF Begin
<1>2. t \in Turn /\ t.scope = turns[w].scope
  BY <1>1 DEF Turn, Phases
<1>3. Sound(Now)'
  BY <1>2, OneRewritten, NowTyped DEF Begin, Inv
<1> QED BY <1>3 DEF Begin, Unchanged1, Inv, Bookkeeping

LEMMA BeginNothingInv == ASSUME Inv, NEW w \in Workers, BeginNothing(w) PROVE Inv'
BY TurnEndsNow DEF BeginNothing, Unchanged1, Inv, Bookkeeping

LEMMA BeginFailsInv == ASSUME Inv, NEW w \in Workers, BeginFails(w) PROVE Inv'
<1>1. refused \in BOOLEAN
  BY DEF Inv, Bookkeeping
<1> QED BY <1>1, TurnFailsSound DEF BeginFails, Unchanged1, Inv, Bookkeeping

LEMMA OpenedInv == ASSUME Inv, NEW w \in Workers, Opened(w) PROVE Inv'
<1>1. CASE turns[w].cancelled /\ TurnEnds(w, Now, FALSE)
  BY <1>1, TurnEndsNow DEF Opened, Unchanged1, Inv, Bookkeeping
<1>2. CASE /\ turns' = [turns EXCEPT ![w].phase = "priming"]
           /\ UNCHANGED <<queue, ahead, inFlight, status, steer, activity, told, pending,
                          reloading>>
  <2> DEFINE t == [turns[w] EXCEPT !.phase = "priming"]
  <2>0. turns[w] \in Turn
    BY TurnFields DEF Opened
  <2>1. t \in Turn /\ t.scope = turns[w].scope
    BY <2>0 DEF Turn, Phases
  <2>2. Sound(Now)'
    BY <1>2, <2>1, OneRewritten, NowTyped DEF Opened, Inv
  <2> QED BY <1>2, <2>2 DEF Opened, Unchanged1, Inv, Bookkeeping
<1> QED BY <1>1, <1>2 DEF Opened

LEMMA OpenFailsInv == ASSUME Inv, NEW w \in Workers, OpenFails(w) PROVE Inv'
<1>1. refused \in BOOLEAN /\ TRUE \in BOOLEAN
  BY DEF Inv, Bookkeeping
<1>2. PICK r \in BOOLEAN : TurnFails(w, r)
  BY <1>1 DEF OpenFails
<1>3. left' \in [Disturbances -> Nat]
  BY SpendType, DisturbancesAre DEF OpenFails, Inv, Bookkeeping
<1> QED BY <1>2, <1>3, TurnFailsSound DEF OpenFails, Unchanged1, Inv, Bookkeeping

LEMMA PromptInv == ASSUME Inv, NEW w \in Workers, Prompt(w) PROVE Inv'
<1> DEFINE t == [turns[w] EXCEPT !.phase = "prompted", !.prompted = TRUE]
<1>0. turns[w] \in Turn
  BY TurnFields DEF Prompt
<1>1. t \in Turn /\ t.scope = turns[w].scope
  BY <1>0 DEF Turn, Phases
<1>2. turns' = [turns EXCEPT ![w] = t]
  BY NowTyped DEF Prompt, Inv
<1>3. Sound(Now)'
  BY <1>1, <1>2, OneRewritten, NowTyped DEF Prompt, Inv
<1>4. shown' \in [Msgs -> Nat]
  BY DEF Prompt, Inv, Bookkeeping
<1> QED BY <1>3, <1>4 DEF Prompt, Unchanged1, Inv, Bookkeeping

LEMMA AnswerInv == ASSUME Inv, NEW w \in Workers, Answer(w) PROVE Inv'
BY TurnEndsSaid DEF Answer, Unchanged1, Inv, Bookkeeping

LEMMA PromptFailsInv == ASSUME Inv, NEW w \in Workers, PromptFails(w) PROVE Inv'
<1>1. refused \in BOOLEAN
  BY DEF Inv, Bookkeeping
<1>2. left' \in [Disturbances -> Nat]
  BY SpendType, DisturbancesAre DEF PromptFails, Inv, Bookkeeping
<1> QED BY <1>1, <1>2, TurnFailsSound DEF PromptFails, Unchanged1, Inv, Bookkeeping

LEMMA StallInv == ASSUME Inv, NEW w \in Workers, Stall(w) PROVE Inv'
<1> DEFINE t == [turns[w] EXCEPT !.cancelled = TRUE, !.stopSent = TRUE]
<1>0. turns[w] \in Turn
  BY TurnFields DEF Stall
<1>1. t \in Turn /\ t.scope = turns[w].scope
  BY <1>0 DEF Turn
<1>2. turns' = [turns EXCEPT ![w] = t]
  BY NowTyped DEF Stall, Inv
<1>3. told' \subseteq Msgs
  <2>1. turns[w].batch \in Seq(Msgs)
    BY <1>0 DEF Turn
  <2> QED BY <2>1, MsgsOfType, NowTyped DEF Stall, Inv
<1>4. Sound(Now)'
  BY <1>1, <1>2, <1>3, OneRewritten DEF Stall
<1> QED BY <1>4 DEF Stall, Unchanged1, Inv, Bookkeeping

LEMMA CancelInv == ASSUME Inv, NEW s \in Scopes, Cancel(s) PROVE Inv'
<1>1. \A w \in Workers :
        turns[w] # NoTurn =>
          LET t == [turns[w] EXCEPT !.cancelled = TRUE,
                      !.stopSent = @ \/ turns[w].phase = "prompted"]
          IN t \in Turn /\ t.scope = turns[w].scope
  <2> SUFFICES ASSUME NEW w \in Workers, turns[w] # NoTurn
               PROVE  LET t == [turns[w] EXCEPT !.cancelled = TRUE,
                                  !.stopSent = @ \/ turns[w].phase = "prompted"]
                      IN t \in Turn /\ t.scope = turns[w].scope
    OBVIOUS
  <2>1. turns[w] \in Turn
    BY TurnFields
  <2>2. (turns[w].stopSent \/ turns[w].phase = "prompted") \in BOOLEAN
    OBVIOUS
  <2> QED BY <2>1, <2>2 DEF Turn
<1>2. PICK targets \in SUBSET {w \in Workers : turns[w] # NoTurn} :
        turns' = [w \in Workers |->
                    IF w \in targets
                    THEN [turns[w] EXCEPT !.cancelled = TRUE,
                            !.stopSent = @ \/ turns[w].phase = "prompted"]
                    ELSE turns[w]]
  BY DEF Cancel
<1>3. /\ turns' \in [Workers -> Turn \cup {NoTurn}]
      /\ \A w \in Workers : /\ turns'[w] = NoTurn <=> turns[w] = NoTurn
                            /\ turns[w] # NoTurn => turns'[w].scope = turns[w].scope
  BY <1>1, <1>2, NowTyped, NoTurnAssumption DEF Inv
<1>4. queue' \in [Scopes -> Seq(Msgs)]
  <2>1. PICK dropped : queue' = [q \in Scopes |-> IF q \in dropped THEN <<>> ELSE queue[q]]
    BY DEF Cancel
  <2> QED BY <2>1, NowTyped DEF Inv
<1>5. ahead' \subseteq Scopes \X Scopes /\ activity' \subseteq Scopes
  BY NowTyped DEF Cancel, KeysLeft, Inv
<1>6. Sound(Now)'
  BY <1>3, <1>4, <1>5, InPlaceSound, NowTyped DEF Cancel, Inv
<1>7. excused' \subseteq Msgs
  <2>1. \A q \in Scopes : MsgsOf(queue[q]) \subseteq Msgs
    BY MsgsOfType, NowTyped DEF Inv
  <2>2. \A w \in Workers : turns[w] # NoTurn => MsgsOf(turns[w].batch) \subseteq Msgs
    <3>1. \A w \in Workers : turns[w] # NoTurn => turns[w].batch \in Seq(Msgs)
      BY TurnFields DEF Turn
    <3> QED BY <3>1, MsgsOfType
  <2> DEFINE here == {w \in Workers : turns[w] # NoTurn /\ turns[w].scope = s}
             all == {w \in Workers : turns[w] # NoTurn}
             hit == IF here # {} THEN here ELSE all
             dropped == IF here # {} THEN activity \cap {s} ELSE activity
  <2>3. excused' = excused \cup (UNION {MsgsOf(queue[q]) : q \in dropped})
                           \cup (UNION {MsgsOf(turns[w].batch) : w \in hit})
    BY DEF Cancel
  <2>4. dropped \subseteq Scopes /\ hit \subseteq all
    BY NowTyped DEF Inv
  <2> SUFFICES ASSUME NEW m \in excused' PROVE m \in Msgs
    OBVIOUS
  <2>5. \/ m \in excused
        \/ m \in UNION {MsgsOf(queue[q]) : q \in dropped}
        \/ m \in UNION {MsgsOf(turns[w].batch) : w \in hit}
    BY <2>3
  <2>6. CASE m \in excused
    BY <2>6 DEF Inv, Bookkeeping
  <2>7. CASE m \in UNION {MsgsOf(queue[q]) : q \in dropped}
    <3>1. PICK q \in dropped : m \in MsgsOf(queue[q])
      BY <2>7
    <3> QED BY <3>1, <2>1, <2>4
  <2>8. CASE m \in UNION {MsgsOf(turns[w].batch) : w \in hit}
    <3>1. PICK w \in hit : m \in MsgsOf(turns[w].batch)
      BY <2>8
    <3> QED BY <3>1, <2>2, <2>4
  <2> QED BY <2>5, <2>6, <2>7, <2>8
<1>8. left' \in [Disturbances -> Nat]
  BY SpendType, DisturbancesAre DEF Cancel, Inv
<1> QED BY <1>6, <1>7, <1>8 DEF Cancel, Inv, Bookkeeping

\* A worker that has been made changes its life; its turn is where it was.
LEMMA LifeSound ==
  ASSUME Inv, NEW st \in [Workers -> {"unmade", "starting", "up", "dead"}],
         \A w \in Workers : st[w] = "unmade" => status[w] = "unmade",
         NEW ts \in [Workers -> Turn \cup {NoTurn}],
         \A w \in Workers : /\ ts[w] = NoTurn <=> turns[w] = NoTurn
                            /\ turns[w] # NoTurn => ts[w].scope = turns[w].scope
  PROVE  Sound([Now EXCEPT !.status = st, !.turns = ts])
<1> DEFINE S == [Now EXCEPT !.status = st, !.turns = ts]
<1>1. Typed(S)
  BY NowTyped DEF Inv, Typed, Now
<1>2. UnmadeIsIdle(S)
  BY DEF Inv, Sound, UnmadeIsIdle, Now
<1>3. Exclusive(S)
  <2>1. BusyIn(S) = BusyIn(Now)
    BY DEF BusyIn, Now
  <2> QED BY <2>1 DEF Inv, Sound, Exclusive, BusyIn, Now
<1> QED BY <1>1, <1>2, <1>3 DEF Sound

LEMMA OneLifeSound ==
  ASSUME Inv, NEW w \in Workers, status[w] # "unmade", NEW x \in {"starting", "up", "dead"}
  PROVE  Sound([Now EXCEPT !.status = [status EXCEPT ![w] = x]])
<1> DEFINE st == [status EXCEPT ![w] = x]
<1>1. /\ st \in [Workers -> {"unmade", "starting", "up", "dead"}]
      /\ \A v \in Workers : st[v] = "unmade" => status[v] = "unmade"
  BY NowTyped DEF Inv
<1> HIDE DEF st
<1>2. Typed([Now EXCEPT !.status = st])
  BY <1>1, NowTyped DEF Inv, Typed, Now
<1>3. UnmadeIsIdle([Now EXCEPT !.status = st]) /\ Exclusive([Now EXCEPT !.status = st])
  BY <1>1 DEF Inv, Sound, UnmadeIsIdle, Exclusive, BusyIn, Now
<1> QED BY <1>2, <1>3 DEF st, Sound

LEMMA NotedSound ==
  ASSUME NEW S, Sound(S)
  PROVE  Sound(NotedIfNothingLeft(S))
BY RefusedSound DEF NotedIfNothingLeft

LEMMA StartOkInv == ASSUME Inv, NEW w \in Workers, StartOk(w) PROVE Inv'
<1> DEFINE S == [Now EXCEPT !.status = [status EXCEPT ![w] = "up"]]
<1>1. Sound(S)
  BY OneLifeSound DEF StartOk
<1>2. Become(S) \/ \E D \in Drained(S) : Become(D)
  BY DEF StartOk
<1> HIDE DEF S
<1>3. Sound(Now)'
  BY <1>1, <1>2, DrainedSound, BecomeSound
<1> QED BY <1>3 DEF StartOk, Unchanged2, Inv, Bookkeeping

LEMMA StartFailsInv == ASSUME Inv, NEW w \in Workers, StartFails(w) PROVE Inv'
<1> DEFINE S == [Now EXCEPT !.status = [status EXCEPT ![w] = "dead"]]
<1>1. Sound(S)
  BY OneLifeSound DEF StartFails
<1>2. Become(S) \/ \E D \in Drained(NotedIfNothingLeft(S)) : Become(D)
  BY DEF StartFails
<1> HIDE DEF S
<1>3. Sound(Now)'
  BY <1>1, <1>2, NotedSound, DrainedSound, BecomeSound
<1>4. left' \in [Disturbances -> Nat]
  BY SpendType, DisturbancesAre DEF StartFails, Inv
<1> QED BY <1>3, <1>4 DEF StartFails, Unchanged2, Inv, Bookkeeping

LEMMA CrashInv == ASSUME Inv, NEW w \in Workers, Crash(w) PROVE Inv'
<1> DEFINE broken == IF turns[w] # NoTurn /\ turns[w].phase # "starting"
                     THEN [turns EXCEPT ![w].lost = TRUE] ELSE turns
           again == [status EXCEPT ![w] = "starting"]
           gone == [status EXCEPT ![w] = "dead"]
<1>1. /\ broken \in [Workers -> Turn \cup {NoTurn}]
      /\ \A v \in Workers : /\ broken[v] = NoTurn <=> turns[v] = NoTurn
                            /\ turns[v] # NoTurn => broken[v].scope = turns[v].scope
  <2>1. CASE turns[w] = NoTurn
    BY <2>1, NowTyped DEF Inv
  <2>2. CASE turns[w] # NoTurn
    <3>1. turns[w] \in Turn
      BY <2>2, TurnFields
    <3>2. /\ [turns[w] EXCEPT !.lost = TRUE] \in Turn
          /\ [turns[w] EXCEPT !.lost = TRUE].scope = turns[w].scope
      BY <3>1 DEF Turn
    <3> QED BY <3>2, NowTyped, NoTurnAssumption DEF Inv
  <2> QED BY <2>1, <2>2
<1>2. /\ again \in [Workers -> {"unmade", "starting", "up", "dead"}]
      /\ gone \in [Workers -> {"unmade", "starting", "up", "dead"}]
      /\ \A v \in Workers : /\ again[v] = "unmade" => status[v] = "unmade"
                            /\ gone[v] = "unmade" => status[v] = "unmade"
  BY NowTyped DEF Inv, Crash
<1>3. \/ Become([Now EXCEPT !.status = again, !.turns = broken])
      \/ Become(NotedIfNothingLeft([Now EXCEPT !.status = gone, !.turns = broken]))
  BY DEF Crash
<1> HIDE DEF broken, again, gone
<1>4. /\ Sound([Now EXCEPT !.status = again, !.turns = broken])
      /\ Sound([Now EXCEPT !.status = gone, !.turns = broken])
  BY <1>1, <1>2, LifeSound
<1>5. Sound(Now)'
  BY <1>3, <1>4, NotedSound, BecomeSound
<1>6. left' \in [Disturbances -> Nat]
  BY SpendType, DisturbancesAre DEF Crash, Inv
<1>7. restarts' \in [Workers -> {0, 1}]
  BY DEF Crash, Inv, Bookkeeping
<1> QED BY <1>5, <1>6, <1>7 DEF Crash, Unchanged2, Inv, Bookkeeping

LEMMA ReloadInv == ASSUME Inv, Reload PROVE Inv'
<1>1. /\ status' \in [Workers -> {"unmade", "starting", "up", "dead"}]
      /\ \A w \in Workers : status'[w] = "unmade" => status[w] = "unmade"
  BY NowTyped DEF Inv, Reload
<1>2. Sound(Now)'
  BY <1>1, NowTyped, InPlaceSound DEF Inv, Reload
<1>3. reloading' \subseteq Workers /\ pending' \subseteq Workers
  BY DEF Reload, Live, Idle
<1>4. left' \in [Disturbances -> Nat]
  BY SpendType, DisturbancesAre DEF Reload, Inv
<1> QED BY <1>2, <1>3, <1>4 DEF Reload, Unchanged2, Inv, Bookkeeping

LEMMA GatewayInv == ASSUME Inv, Drop \/ Redial \/ Rejoined PROVE Inv'
<1>1. UNCHANGED engine
  BY DEF Drop, Redial, Rejoined
<1>2. Sound(Now)'
  BY <1>1 DEF engine, Now, Inv, Sound, Typed, Exclusive, UnmadeIsIdle, BusyIn
<1>3. left' \in [Disturbances -> Nat]
  BY SpendType, DisturbancesAre DEF Drop, Redial, Rejoined, Inv, Bookkeeping
<1> QED BY <1>2, <1>3 DEF Drop, Redial, Rejoined, Inv, Bookkeeping

LEMMA StopInv == ASSUME Inv, Stop PROVE Inv'
<1>1. \A w \in Workers :
        turns[w] # NoTurn =>
          LET t == [turns[w] EXCEPT !.cancelled = TRUE, !.lost = TRUE]
          IN t \in Turn /\ t.scope = turns[w].scope
  <2>1. \A w \in Workers : turns[w] # NoTurn => turns[w] \in Turn
    BY TurnFields
  <2> QED BY <2>1 DEF Turn
<1>2. /\ turns' \in [Workers -> Turn \cup {NoTurn}]
      /\ \A w \in Workers : /\ turns'[w] = NoTurn <=> turns[w] = NoTurn
                            /\ turns[w] # NoTurn => turns'[w].scope = turns[w].scope
  BY <1>1, NoTurnAssumption DEF Stop
<1>3. queue' \in [Scopes -> Seq(Msgs)]
  <2>1. [s \in Scopes |-> <<>>] \in [Scopes -> Seq(Msgs)]
    OBVIOUS
  <2> QED BY <2>1 DEF Stop
<1>4. Sound(Now)'
  BY <1>2, <1>3, InPlaceSound, NowTyped DEF Stop, Inv
<1>5. left' \in [Disturbances -> Nat]
  BY SpendType, DisturbancesAre DEF Stop, Inv
<1> QED BY <1>4, <1>5 DEF Stop, Inv, Bookkeeping

LEMMA StutterInv == ASSUME Inv, UNCHANGED vars PROVE Inv'
<1>1. UNCHANGED engine
  BY DEF vars, engine
<1>2. Sound(Now)'
  BY <1>1 DEF engine, Now, Inv, Sound, Typed, Exclusive, UnmadeIsIdle, BusyIn
<1> QED BY <1>2 DEF vars, Inv, Bookkeeping

LEMMA NextInv == Inv /\ [Next]_vars => Inv'
<1> SUFFICES ASSUME Inv, [Next]_vars PROVE Inv'
  OBVIOUS
<1>1. CASE \E s \in Scopes : Enqueue(s) \/ Cancel(s)
  BY <1>1, EnqueueInv, CancelInv
<1>2. CASE \E w \in Workers : TurnStep(w)
  BY <1>2, BeginInv, BeginNothingInv, BeginFailsInv, OpenedInv, OpenFailsInv,
     PromptInv, AnswerInv, PromptFailsInv, StallInv DEF TurnStep
<1>3. CASE \E w \in Workers : WorkerStep(w)
  BY <1>3, StartOkInv, StartFailsInv, CrashInv DEF WorkerStep
<1>4. CASE Reload \/ Drop \/ Redial \/ Rejoined \/ Stop
  BY <1>4, ReloadInv, GatewayInv, StopInv
<1>5. CASE UNCHANGED vars
  BY <1>5, StutterInv
<1> QED BY <1>1, <1>2, <1>3, <1>4, <1>5 DEF Next

LEMMA SpecInv == Spec => []Inv
BY InitInv, NextInv, PTL DEF Spec

\* The turn loop keeps its types, and a message goes back to its queue fewer
\* than MAX_ATTEMPTS times (#turnFailed), for any number of conversations,
\* workers and messages.
THEOREM TypeCorrect == Spec => []TypeOK
BY SpecInv, InvImpliesProperties, PTL

\* No conversation ever has two prompts in flight, and #inFlight never
\* forgets or invents one, for any number of conversations and workers
\* (#drain, #runTurnOn).
THEOREM OnePromptPerConversation == Spec => []OneTurnPerScope
BY SpecInv, InvImpliesProperties, PTL

-----------------------------------------------------------------------------
(* Stopping: what keeps a turn in flight from prompting is that it has     *)
(* lost its process.                                                       *)

Deserted == stopping => \A w \in Workers : turns[w] # NoTurn => turns[w].lost

\* A stopped harness drains nothing: a turn that ends just ends.
LEMMA StoppedTurnEnds ==
  ASSUME stopping, NEW w \in Workers, NEW S, S.turns = turns, NEW r \in BOOLEAN,
         TurnEnds(w, S, r)
  PROVE  turns' = [turns EXCEPT ![w] = NoTurn]
<1>1. Become(Closed(w, S, r))
  BY DEF TurnEnds, Drained
<1>2. Closed(w, S, r).turns = [S.turns EXCEPT ![w] = NoTurn]
  BY DEF Closed
<1> QED BY <1>1, <1>2 DEF Become

LEMMA StoppedTurnFails ==
  ASSUME stopping, NEW w \in Workers, NEW r \in BOOLEAN, TurnFails(w, r)
  PROVE  turns' = [turns EXCEPT ![w] = NoTurn]
<1>1. Now.turns = turns
  BY DEF Now
<1>2. TurnEnds(w, Now, FALSE)
  BY DEF TurnFails
<1> QED BY <1>1, <1>2, StoppedTurnEnds

LEMMA DesertedStep == Inv /\ Deserted /\ [Next]_vars => Deserted'
<1> SUFFICES ASSUME Inv, Deserted, [Next]_vars, stopping'
             PROVE  \A v \in Workers : turns'[v] # NoTurn => turns'[v].lost
  BY DEF Deserted
<1>1. turns \in [Workers -> Turn \cup {NoTurn}]
  BY NowTyped DEF Inv
<1>2. CASE stopping
  <2>1. \A v \in Workers : turns[v] # NoTurn => turns[v].lost
    BY <1>2 DEF Deserted
  <2>2. CASE UNCHANGED turns
    BY <2>1, <2>2
  <2>3. CASE \E w \in Workers : turns' = [turns EXCEPT ![w] = NoTurn]
    BY <1>1, <2>1, <2>3
  <2>4. CASE \E w \in Workers : Prompt(w) \/ Stall(w)
    <3>1. PICK w \in Workers : Prompt(w) \/ Stall(w)
      BY <2>4
    <3>2. turns[w] \in Turn /\ \A v \in Workers \ {w} : turns'[v] = turns[v]
      BY <1>1, <3>1 DEF Prompt, Stall
    <3>3. turns'[w].lost = turns[w].lost
      BY <1>1, <3>1, <3>2 DEF Prompt, Stall, Turn
    <3> QED BY <2>1, <3>1, <3>2, <3>3 DEF Prompt, Stall
  <2>5. CASE \E s \in Scopes : Enqueue(s) \/ Cancel(s)
    BY <1>2, <2>5 DEF Enqueue, Cancel
  <2>6. CASE \E w \in Workers : TurnStep(w)
    <3>1. PICK w \in Workers : TurnStep(w)
      BY <2>6
    <3>2. Now.turns = turns /\ \A b : Said(Now, b).turns = turns
      BY DEF Now, Said
    <3>3. refused \in BOOLEAN
      BY DEF Inv, Bookkeeping
    <3>4. CASE BeginNothing(w)
      BY <1>2, <2>3, <3>2, <3>4, StoppedTurnEnds DEF BeginNothing
    <3>5. CASE BeginFails(w) \/ OpenFails(w) \/ PromptFails(w)
      <4>1. PICK r \in BOOLEAN : TurnFails(w, r)
        BY <3>3, <3>5 DEF BeginFails, OpenFails, PromptFails
      <4> QED BY <1>2, <2>3, <4>1, StoppedTurnFails
    <3>6. CASE Opened(w)
      <4>1. turns[w] # NoTurn /\ ~turns[w].lost
        BY <3>6 DEF Opened
      <4> QED BY <2>1, <4>1
    <3>7. CASE Answer(w)
      <4>1. turns[w] # NoTurn /\ ~turns[w].lost
        BY <3>7 DEF Answer
      <4> QED BY <2>1, <4>1
    <3>8. CASE Begin(w)
      BY <1>2, <3>8 DEF Begin
    <3>9. CASE Prompt(w) \/ Stall(w)
      BY <2>4, <3>9
    <3> QED BY <3>1, <3>4, <3>5, <3>6, <3>7, <3>8, <3>9 DEF TurnStep
  <2>7. CASE \E w \in Workers : WorkerStep(w)
    BY <1>2, <2>7 DEF WorkerStep, StartOk, StartFails, Crash
  <2>8. CASE Reload \/ Drop \/ Redial \/ Rejoined \/ Stop \/ UNCHANGED vars
    BY <1>2, <2>2, <2>8 DEF Reload, Drop, Redial, Rejoined, Stop, vars
  <2> QED BY <2>5, <2>6, <2>7, <2>8 DEF Next
<1>3. CASE ~stopping
  <2>1. Stop
    BY <1>3 DEF Next, TurnStep, WorkerStep, Enqueue, Cancel, Begin, BeginNothing,
       BeginFails, Opened, OpenFails, Prompt, Answer, PromptFails, Stall, StartOk,
       StartFails, Crash, Reload, Drop, Redial, Rejoined, vars, Unchanged1, Unchanged2
  <2>2. \A v \in Workers : turns'[v] = IF turns[v] = NoTurn THEN NoTurn
                             ELSE [turns[v] EXCEPT !.cancelled = TRUE, !.lost = TRUE]
    BY <2>1 DEF Stop
  <2>3. \A v \in Workers : turns[v] # NoTurn => turns[v] \in Turn
    BY <1>1
  <2> QED BY <2>2, <2>3 DEF Turn
<1> QED BY <1>2, <1>3

LEMMA DesertedInit == Init => Deserted
BY DEF Init, Deserted

\* A stopped agent puts nothing to its runtime any more, whatever turns were
\* in flight and whatever they were waiting for (stop, #prompt).
THEOREM NothingIsShownOnceStopped == Spec => NothingShownAfterStop
<1>1. Inv /\ Deserted /\ [Next]_vars => [stopping => shown' = shown]_vars
  <2> SUFFICES ASSUME Inv, Deserted, Next, stopping PROVE shown' = shown
    BY DEF vars
  <2>1. \A v \in Workers : turns[v] # NoTurn => turns[v].lost
    BY DEF Deserted
  <2>2. CASE \E w \in Workers : Prompt(w)
    BY <2>1, <2>2 DEF Prompt
  <2>3. CASE ~\E w \in Workers : Prompt(w)
    BY <2>3 DEF Next, TurnStep, WorkerStep, Enqueue, Cancel, Begin, BeginNothing,
       BeginFails, Opened, OpenFails, Answer, PromptFails, Stall, StartOk, StartFails,
       Crash, Reload, Drop, Redial, Rejoined, Stop, Unchanged2
  <2> QED BY <2>2, <2>3
<1> QED
  BY <1>1, InitInv, NextInv, DesertedInit, DesertedStep, PTL DEF Spec, NothingShownAfterStop

-----------------------------------------------------------------------------
(* Order: what a turn holds and what waits behind it, and that no message  *)
(* is in two conversations.                                                *)

Ordered(q) == \A i, j \in DOMAIN q : i < j => q[i] < q[j]
Before(b, q) == \A x \in MsgsOf(b), y \in MsgsOf(q) : x < y

\* What a conversation has of its own: waiting, or in its turn.
Has(S, s, m) ==
  \/ m \in MsgsOf(S.queue[s])
  \/ \E w \in BusyIn(S) : S.turns[w].scope = s /\ m \in MsgsOf(S.turns[w].batch)

\* ScopeOrder of a picture, line by line.
InLine(S) ==
  /\ \A s \in Scopes : Ordered(S.queue[s])
  /\ \A w \in BusyIn(S) : /\ Ordered(S.turns[w].batch)
                          /\ Before(S.turns[w].batch, S.queue[S.turns[w].scope])

\* What makes it inductive: the next message is behind everything there is,
\* and a conversation has only what was sent there.
Apart(S, a) == \A s \in Scopes, m \in Msgs : Has(S, s, m) => m <= Len(a) /\ a[m] = s

Orderly(S, a) == InLine(S) /\ Apart(S, a)

\* A batch and the rest are the queue, in its order.
LEMMA BatchRestOrder ==
  ASSUME NEW q \in Seq(Msgs)
  PROVE  /\ MsgsOf(q) = MsgsOf(Batch(q)) \cup MsgsOf(Rest(q))
         /\ Ordered(q) => Ordered(Batch(q)) /\ Ordered(Rest(q)) /\ Before(Batch(q), Rest(q))
<1> DEFINE k == IF Len(q) < MaxBatch THEN Len(q) ELSE MaxBatch
<1>1. Len(q) \in Nat /\ DOMAIN q = 1..Len(q) /\ k \in 0..Len(q)
  BY BatchAssumption, LenProperties
<1>2. /\ Len(Batch(q)) = k /\ DOMAIN Batch(q) = 1..k
      /\ \A i \in 1..k : Batch(q)[i] = q[i]
  <2>1. Batch(q) = SubSeq(q, 1, k)
    BY DEF Batch
  <2> HIDE DEF k
  <2>2. \A i \in 1..k : q[i] \in Msgs
    BY <1>1, ElementOfSeq
  <2>3. /\ SubSeq(q, 1, k) \in Seq(Msgs) /\ Len(SubSeq(q, 1, k)) = k
        /\ \A i \in 1..k : SubSeq(q, 1, k)[i] = q[i]
    BY <1>1, <2>2, SubSeqProperties
  <2> QED BY <2>1, <2>3, LenProperties
<1>3. /\ DOMAIN Rest(q) = 1..(Len(q) - k)
      /\ \A i \in 1..(Len(q) - k) : Rest(q)[i] = q[k + i]
  <2>1. Rest(q) = SubSeq(q, k + 1, Len(q))
    BY <1>2 DEF Rest
  <2> HIDE DEF k
  <2>2. \A i \in (k + 1)..Len(q) : q[i] \in Msgs
    BY <1>1, ElementOfSeq
  <2>3. /\ SubSeq(q, k + 1, Len(q)) \in Seq(Msgs)
        /\ Len(SubSeq(q, k + 1, Len(q))) = Len(q) - k
        /\ \A i \in 1..(Len(q) - k) : SubSeq(q, k + 1, Len(q))[i] = q[k + i]
    <3> DEFINE m == k + 1
               n == Len(q)
               u == SubSeq(q, m, n)
    <3>1. m \in Int /\ n \in Int /\ k \in Int /\ k <= n
      BY <1>1
    <3>2. /\ u \in Seq(Msgs)
          /\ Len(u) = IF m <= n THEN n - m + 1 ELSE 0
          /\ \A i \in 1 .. n - m + 1 : u[i] = q[m + i - 1]
      <4> HIDE DEF m, n
      <4> QED BY <2>2, <3>1, SubSeqProperties DEF m, n
    <3> HIDE DEF u
    <3>3. Len(u) = n - k /\ \A i \in 1..(n - k) : u[i] = q[k + i]
      BY <3>1, <3>2
    <3> QED BY <3>2, <3>3 DEF u
  <2> QED BY <1>1, <2>1, <2>3, LenProperties
<1> HIDE DEF k
<1>4. MsgsOf(q) = MsgsOf(Batch(q)) \cup MsgsOf(Rest(q))
  <2>1. ASSUME NEW i \in 1..Len(q)
        PROVE  q[i] \in MsgsOf(Batch(q)) \cup MsgsOf(Rest(q))
    <3>1. CASE i <= k
      BY <1>1, <1>2, <3>1 DEF MsgsOf
    <3>2. CASE i > k
      <4>1. i - k \in 1..(Len(q) - k) /\ k + (i - k) = i
        BY <1>1, <3>2
      <4> QED BY <1>3, <4>1 DEF MsgsOf
    <3> QED BY <1>1, <3>1, <3>2
  <2>2. \A i \in 1..k : Batch(q)[i] = q[i] /\ i \in 1..Len(q)
    BY <1>1, <1>2
  <2>3. \A i \in 1..(Len(q) - k) : Rest(q)[i] = q[k + i] /\ k + i \in 1..Len(q)
    BY <1>1, <1>3
  <2>4. MsgsOf(q) \subseteq MsgsOf(Batch(q)) \cup MsgsOf(Rest(q))
    BY <1>1, <2>1 DEF MsgsOf
  <2>5. MsgsOf(Batch(q)) \subseteq MsgsOf(q)
    BY <1>1, <1>2, <2>2 DEF MsgsOf
  <2>6. MsgsOf(Rest(q)) \subseteq MsgsOf(q)
    BY <1>1, <1>3, <2>3 DEF MsgsOf
  <2> QED BY <2>4, <2>5, <2>6
<1>5. ASSUME Ordered(q)
      PROVE  Ordered(Batch(q)) /\ Ordered(Rest(q)) /\ Before(Batch(q), Rest(q))
  <2>1. \A i, j \in 1..Len(q) : i < j => q[i] < q[j]
    BY <1>1, <1>5 DEF Ordered
  <2>2. Ordered(Batch(q))
    BY <1>1, <1>2, <2>1 DEF Ordered
  <2>3. \A i, j \in 1..(Len(q) - k) : i < j => Rest(q)[i] < Rest(q)[j]
    <3> TAKE i, j \in 1..(Len(q) - k)
    <3> HAVE i < j
    <3>1. k + i \in 1..Len(q) /\ k + j \in 1..Len(q) /\ k + i < k + j
      BY <1>1
    <3> QED BY <1>3, <2>1, <3>1
  <2>4. \A i \in 1..k, j \in 1..(Len(q) - k) : Batch(q)[i] < Rest(q)[j]
    <3> TAKE i \in 1..k, j \in 1..(Len(q) - k)
    <3>1. i \in 1..Len(q) /\ k + j \in 1..Len(q) /\ i < k + j
      BY <1>1
    <3> QED BY <1>2, <1>3, <2>1, <3>1
  <2> QED BY <1>2, <1>3, <2>2, <2>3, <2>4 DEF Ordered, Before, MsgsOf
<1> QED BY <1>4, <1>5

\* Two lines one behind the other.
LEMMA ConcatOrder ==
  ASSUME NEW b \in Seq(Msgs), NEW q \in Seq(Msgs)
  PROVE  /\ MsgsOf(b \o q) = MsgsOf(b) \cup MsgsOf(q)
         /\ Ordered(b) /\ Ordered(q) /\ Before(b, q) => Ordered(b \o q)
<1>1. /\ Len(b) \in Nat /\ Len(q) \in Nat /\ DOMAIN b = 1..Len(b) /\ DOMAIN q = 1..Len(q)
      /\ DOMAIN (b \o q) = 1..(Len(b) + Len(q))
  BY LenProperties, ConcatProperties
<1>2. /\ \A i \in 1..Len(b) : (b \o q)[i] = b[i]
      /\ \A i \in 1..Len(q) : (b \o q)[Len(b) + i] = q[i]
  <2>1. \A i \in 1..(Len(b) + Len(q)) :
          (b \o q)[i] = IF i <= Len(b) THEN b[i] ELSE q[i - Len(b)]
    BY ConcatProperties
  <2>2. \A i \in 1..Len(b) : i \in 1..(Len(b) + Len(q)) /\ i <= Len(b)
    BY <1>1
  <2>3. \A i \in 1..Len(q) : /\ Len(b) + i \in 1..(Len(b) + Len(q))
                             /\ ~(Len(b) + i <= Len(b)) /\ (Len(b) + i) - Len(b) = i
    BY <1>1
  <2> QED BY <2>1, <2>2, <2>3
<1>3. \A i \in 1..(Len(b) + Len(q)) :
        i \in 1..Len(b) \/ \E j \in 1..Len(q) : i = Len(b) + j
  <2> TAKE i \in 1..(Len(b) + Len(q))
  <2>1. i \in 1..Len(b) \/ (i - Len(b) \in 1..Len(q) /\ i = Len(b) + (i - Len(b)))
    BY <1>1
  <2> QED BY <2>1
<1>4. MsgsOf(b \o q) = MsgsOf(b) \cup MsgsOf(q)
  <2>1. \A i \in 1..Len(b) : i \in 1..(Len(b) + Len(q))
    BY <1>1
  <2>2. \A i \in 1..Len(q) : Len(b) + i \in 1..(Len(b) + Len(q))
    BY <1>1
  <2>3. MsgsOf(b \o q) \subseteq MsgsOf(b) \cup MsgsOf(q)
    <3>1. ASSUME NEW i \in 1..(Len(b) + Len(q))
          PROVE  (b \o q)[i] \in MsgsOf(b) \cup MsgsOf(q)
      <4>1. CASE i \in 1..Len(b)
        BY <1>1, <1>2, <4>1 DEF MsgsOf
      <4>2. CASE \E j \in 1..Len(q) : i = Len(b) + j
        <5>1. PICK j \in 1..Len(q) : i = Len(b) + j
          BY <4>2
        <5> QED BY <1>1, <1>2, <5>1 DEF MsgsOf
      <4> QED BY <1>3, <4>1, <4>2
    <3> QED BY <1>1, <3>1 DEF MsgsOf
  <2>4. MsgsOf(b) \subseteq MsgsOf(b \o q)
    BY <1>1, <1>2, <2>1 DEF MsgsOf
  <2>5. MsgsOf(q) \subseteq MsgsOf(b \o q)
    BY <1>1, <1>2, <2>2 DEF MsgsOf
  <2> QED BY <2>3, <2>4, <2>5
<1>5. ASSUME Ordered(b), Ordered(q), Before(b, q),
             NEW i \in 1..(Len(b) + Len(q)), NEW j \in 1..(Len(b) + Len(q)), i < j
      PROVE  (b \o q)[i] < (b \o q)[j]
  <2>1. CASE i \in 1..Len(b) /\ j \in 1..Len(b)
    BY <1>1, <1>2, <1>5, <2>1 DEF Ordered
  <2>2. CASE i \in 1..Len(b) /\ \E k \in 1..Len(q) : j = Len(b) + k
    <3>1. PICK k \in 1..Len(q) : j = Len(b) + k
      BY <2>2
    <3>2. b[i] \in MsgsOf(b) /\ q[k] \in MsgsOf(q)
      BY <1>1, <2>2 DEF MsgsOf
    <3> QED BY <1>2, <1>5, <2>2, <3>1, <3>2 DEF Before
  <2>3. CASE (\E k \in 1..Len(q) : i = Len(b) + k) /\ (\E k \in 1..Len(q) : j = Len(b) + k)
    <3>1. PICK k, l \in 1..Len(q) : i = Len(b) + k /\ j = Len(b) + l
      BY <2>3
    <3>2. k < l
      BY <1>1, <1>5, <3>1
    <3> QED BY <1>1, <1>2, <1>5, <3>1, <3>2 DEF Ordered
  <2>4. CASE (\E k \in 1..Len(q) : i = Len(b) + k) /\ j \in 1..Len(b)
    BY <1>1, <1>5, <2>4
  <2> QED BY <1>3, <2>1, <2>2, <2>3, <2>4
<1> QED BY <1>1, <1>4, <1>5 DEF Ordered

\* What a drain that starts turns does to a picture: the turns there were go
\* on, a new one is in a conversation that had none, and takes the head of
\* its queue.
Starts(S, T) ==
  /\ T.told = S.told
  /\ \A w \in BusyIn(S) : T.turns[w] = S.turns[w]
  /\ \A w \in BusyIn(T) \ BusyIn(S) :
       LET s == T.turns[w].scope
       IN /\ s \in Scopes \ S.inFlight
          /\ T.queue[s] = Rest(S.queue[s]) /\ T.turns[w].batch = Batch(S.queue[s])
          /\ ~T.turns[w].prompted /\ ~T.turns[w].cancelled
  /\ \A s \in Scopes : \/ T.queue[s] = S.queue[s]
                       \/ \E w \in BusyIn(T) \ BusyIn(S) : T.turns[w].scope = s

LEMMA StartedStarts ==
  ASSUME NEW S, Sound(S), NEW c \in Claims(S)
  PROVE  Starts(S, Started(S, c))
<1> DEFINE who(w) == CHOOSE s \in DOMAIN c : c[s] = w
           taken == {c[s] : s \in DOMAIN c}
           new(w) == NewTurn(who(w), Batch(S.queue[who(w)]), who(w) \in S.steer)
           T == Started(S, c)
<1>1. /\ DOMAIN c \subseteq Scopes /\ DOMAIN c \cap S.inFlight = {}
      /\ \A s \in DOMAIN c : S.queue[s] # <<>>
      /\ taken \subseteq Workers
      /\ \A w \in taken : S.turns[w] = NoTurn
  BY ClaimsShape DEF Waiting, Idle, Unmade, Live, Sound, Typed, UnmadeIsIdle
<1>2. \A w \in taken : who(w) \in DOMAIN c /\ c[who(w)] = w
  OBVIOUS
<1>3. \A s \in DOMAIN c : c[s] \in taken /\ who(c[s]) = s
  BY <1>2, ClaimsShape
<1>4. /\ T.told = S.told
      /\ \A w \in Workers : T.turns[w] = IF w \in taken THEN new(w) ELSE S.turns[w]
      /\ \A s \in Scopes : T.queue[s] = IF s \in DOMAIN c THEN Rest(S.queue[s])
                                                          ELSE S.queue[s]
  BY DEF Started, Sound, Typed
<1>5. \A w \in taken : /\ new(w).scope = who(w) /\ new(w).batch = Batch(S.queue[who(w)])
                       /\ new(w).prompted = FALSE /\ new(w).cancelled = FALSE
  BY DEF NewTurn
<1>6. \A w \in taken : new(w) # NoTurn
  <2> SUFFICES ASSUME NEW w \in taken PROVE new(w) \in Turn
    BY NoTurnAssumption
  <2>1. who(w) \in Scopes BY <1>1, <1>2
  <2>2. S.queue[who(w)] \in Seq(Msgs) /\ S.queue[who(w)] # <<>> BY <1>1, <1>2, <2>1 DEF Sound, Typed
  <2>3. Batch(S.queue[who(w)]) \in Seq(Msgs) \ {<<>>} BY <2>2, BatchOfWaiting
  <2>4. (who(w) \in S.steer) \in BOOLEAN OBVIOUS
  <2> HIDE DEF who
  <2> QED BY <2>1, <2>3, <2>4, NewTurnType
<1> HIDE DEF who, new, T
<1>7. BusyIn(T) \ BusyIn(S) = taken /\ BusyIn(S) \cap taken = {}
  BY <1>1, <1>4, <1>6 DEF BusyIn
<1>8. \A w \in BusyIn(S) : T.turns[w] = S.turns[w]
  BY <1>4, <1>7 DEF BusyIn
<1>9. ASSUME NEW w \in BusyIn(T) \ BusyIn(S)
      PROVE  LET s == T.turns[w].scope
             IN /\ s \in Scopes \ S.inFlight
                /\ T.queue[s] = Rest(S.queue[s]) /\ T.turns[w].batch = Batch(S.queue[s])
                /\ ~T.turns[w].prompted /\ ~T.turns[w].cancelled
  <2>1. w \in taken /\ w \in Workers /\ T.turns[w] = new(w)
    BY <1>1, <1>4, <1>7
  <2>2. T.turns[w].scope = who(w) /\ who(w) \in DOMAIN c /\ who(w) \in Scopes \ S.inFlight
    BY <1>1, <1>2, <1>5, <2>1
  <2> QED BY <1>4, <1>5, <2>1, <2>2
<1>10. ASSUME NEW s \in Scopes, T.queue[s] # S.queue[s]
       PROVE  \E w \in BusyIn(T) \ BusyIn(S) : T.turns[w].scope = s
  <2>1. s \in DOMAIN c
    BY <1>4, <1>10
  <2>2. c[s] \in taken /\ c[s] \in Workers /\ T.turns[c[s]].scope = s
    BY <1>1, <1>3, <1>4, <1>5, <2>1
  <2> QED BY <1>7, <2>2
<1> QED BY <1>4, <1>8, <1>9, <1>10 DEF Starts, T

\* A step that gives no conversation anything it had not leaves them apart.
LEMMA ApartShrinks ==
  ASSUME NEW S, NEW T, NEW a, Apart(S, a),
         \A s \in Scopes, m \in Msgs : Has(T, s, m) => Has(S, s, m)
  PROVE  Apart(T, a)
BY DEF Apart

\* Where a message is, as the mailbox sees it, and the steps that hand
\* nothing on to the runtime.
Waits(S, m) == \E s \in Scopes : m \in MsgsOf(S.queue[s])
Holds(S, m, p) == \E w \in BusyIn(S) : /\ m \in MsgsOf(S.turns[w].batch)
                                       /\ S.turns[w].prompted = p
Keeps(S, T) ==
  \A m \in Msgs :
    /\ Waits(T, m) \/ Holds(T, m, FALSE) => Waits(S, m) \/ Holds(S, m, FALSE)
    /\ Holds(T, m, TRUE) => Holds(S, m, TRUE)

LEMMA KeepsOn ==
  ASSUME NEW R, NEW S, NEW T, Keeps(R, S), Keeps(S, T)
  PROVE  Keeps(R, T)
BY DEF Keeps

LEMMA StartsOrderly ==
  ASSUME NEW S, NEW T, Sound(S), Sound(T), Starts(S, T), NEW a, Orderly(S, a)
  PROVE  Orderly(T, a) /\ Keeps(S, T)
<1>1. /\ \A s \in Scopes : S.queue[s] \in Seq(Msgs)
      /\ \A w \in BusyIn(T) : T.turns[w].scope \in Scopes
  BY DEF Sound, Typed, BusyIn, Turn
<1>2. \A s \in Scopes :
        /\ MsgsOf(S.queue[s]) = MsgsOf(Batch(S.queue[s])) \cup MsgsOf(Rest(S.queue[s]))
        /\ Ordered(S.queue[s])
        /\ Ordered(Batch(S.queue[s])) /\ Ordered(Rest(S.queue[s]))
        /\ Before(Batch(S.queue[s]), Rest(S.queue[s]))
  BY <1>1, BatchRestOrder DEF Orderly, InLine
<1>3. \A s \in Scopes : T.queue[s] = S.queue[s] \/ T.queue[s] = Rest(S.queue[s])
  BY DEF Starts
<1>4. \A w \in BusyIn(T) :
        \/ w \in BusyIn(S) /\ T.turns[w] = S.turns[w]
        \/ /\ w \notin BusyIn(S) /\ T.turns[w].batch = Batch(S.queue[T.turns[w].scope])
           /\ T.queue[T.turns[w].scope] = Rest(S.queue[T.turns[w].scope])
           /\ T.turns[w].prompted = FALSE
  <2>1. \A w \in BusyIn(T) : T.turns[w].prompted \in BOOLEAN
    BY DEF Sound, Typed, BusyIn, Turn
  <2> QED BY <2>1 DEF Starts
<1>5. \A w \in BusyIn(S) : w \in BusyIn(T) /\ T.queue[T.turns[w].scope] = S.queue[S.turns[w].scope]
  <2> SUFFICES ASSUME NEW w \in BusyIn(S)
               PROVE  w \in BusyIn(T) /\ T.queue[T.turns[w].scope] = S.queue[S.turns[w].scope]
    OBVIOUS
  <2>1. w \in BusyIn(T) /\ T.turns[w] = S.turns[w]
    BY DEF Starts, BusyIn
  <2>2. \A v \in BusyIn(T) \ BusyIn(S) : T.turns[v].scope # T.turns[w].scope
    BY <2>1 DEF Sound, Exclusive
  <2> QED BY <1>1, <2>1, <2>2 DEF Starts
<1>6. \A s \in Scopes, m \in Msgs : Has(T, s, m) => Has(S, s, m)
  <2> TAKE s \in Scopes, m \in Msgs
  <2>1. CASE m \in MsgsOf(T.queue[s])
    BY <1>2, <1>3, <2>1 DEF Has
  <2>2. ASSUME NEW w \in BusyIn(T), T.turns[w].scope = s, m \in MsgsOf(T.turns[w].batch)
        PROVE  Has(S, s, m)
    BY <1>2, <1>4, <2>2 DEF Has
  <2> QED BY <2>1, <2>2 DEF Has
<1>7. InLine(T)
  <2>1. \A s \in Scopes : Ordered(T.queue[s])
    BY <1>2, <1>3
  <2>2. ASSUME NEW w \in BusyIn(T)
        PROVE  Ordered(T.turns[w].batch) /\ Before(T.turns[w].batch, T.queue[T.turns[w].scope])
    <3>1. CASE w \in BusyIn(S)
      BY <1>4, <1>5, <3>1 DEF Orderly, InLine
    <3>2. CASE w \notin BusyIn(S)
      BY <1>1, <1>2, <1>4, <3>2
    <3> QED BY <3>1, <3>2
  <2> QED BY <2>1, <2>2 DEF InLine
<1>8. Keeps(S, T)
  <2> SUFFICES ASSUME NEW m \in Msgs
               PROVE  /\ Waits(T, m) => Waits(S, m)
                      /\ Holds(T, m, FALSE) => Waits(S, m) \/ Holds(S, m, FALSE)
                      /\ Holds(T, m, TRUE) => Holds(S, m, TRUE)
    BY DEF Keeps
  <2>1. Waits(T, m) => Waits(S, m)
    BY <1>2, <1>3 DEF Waits
  <2>2. ASSUME NEW w \in BusyIn(T), m \in MsgsOf(T.turns[w].batch), T.turns[w].prompted = FALSE
        PROVE  Waits(S, m) \/ Holds(S, m, FALSE)
    BY <1>1, <1>2, <1>4, <2>2 DEF Waits, Holds
  <2>3. ASSUME NEW w \in BusyIn(T), m \in MsgsOf(T.turns[w].batch), T.turns[w].prompted = TRUE
        PROVE  Holds(S, m, TRUE)
    BY <1>4, <2>3 DEF Holds
  <2>4. Holds(T, m, FALSE) => Waits(S, m) \/ Holds(S, m, FALSE)
    BY <2>2 DEF Holds
  <2>5. Holds(T, m, TRUE) => Holds(S, m, TRUE)
    BY <2>3 DEF Holds
  <2> QED BY <2>1, <2>4, <2>5
<1> QED BY <1>6, <1>7, <1>8, ApartShrinks DEF Orderly

\* Emptied queues are in order.
LEMMA RefusedOrderly ==
  ASSUME NEW S, Sound(S), NEW a, Orderly(S, a)
  PROVE  Orderly(Refused(S), a) /\ Keeps(S, Refused(S))
<1> DEFINE T == Refused(S)
<1>1. T.turns = S.turns /\ BusyIn(T) = BusyIn(S) /\ \A s \in Scopes : T.queue[s] = <<>>
  BY DEF Refused, BusyIn, Sound, Typed
<1>2. MsgsOf(<<>>) = {} /\ Ordered(<<>>)
  BY DEF MsgsOf, Ordered
<1> HIDE DEF T
<1>3. \A s \in Scopes, m \in Msgs : Has(T, s, m) => Has(S, s, m)
  BY <1>1, <1>2 DEF Has
<1>4. InLine(T)
  <2>1. \A w \in BusyIn(T) : T.turns[w].scope \in Scopes
    BY <1>1 DEF Sound, Typed, BusyIn, Turn
  <2> QED BY <1>1, <1>2, <2>1 DEF InLine, Orderly, Before
<1>5. Keeps(S, T)
  BY <1>1, <1>2 DEF Keeps, Waits, Holds
<1> QED BY <1>3, <1>4, <1>5, ApartShrinks DEF Orderly, T

LEMMA KeepsItself == ASSUME NEW S PROVE Keeps(S, S)
BY DEF Keeps

LEMMA DrainedOrderly ==
  ASSUME NEW S, Sound(S), NEW D \in Drained(S), NEW a, Orderly(S, a)
  PROVE  Orderly(D, a) /\ Keeps(S, D)
<1>1. CASE D = S
  BY <1>1, KeepsItself
<1>2. CASE D = Refused(S)
  BY <1>2, RefusedOrderly
<1>3. CASE \E c \in Claims(S) : D = Started(S, c)
  BY <1>3, StartedStarts, StartedSound, StartsOrderly
<1> QED BY <1>1, <1>2, <1>3 DEF Drained

LEMMA ClosedOrderly ==
  ASSUME NEW S, Sound(S), NEW w \in Workers, S.turns[w] # NoTurn, NEW r \in BOOLEAN,
         NEW a, Orderly(S, a)
  PROVE  Orderly(Closed(w, S, r), a) /\ Keeps(S, Closed(w, S, r))
<1> DEFINE C == Closed(w, S, r)
<1>1. C.turns = [S.turns EXCEPT ![w] = NoTurn] /\ C.queue = S.queue
  BY DEF Closed, Sound, Typed
<1> HIDE DEF C
<1>2. BusyIn(C) \subseteq BusyIn(S) /\ \A v \in BusyIn(C) : C.turns[v] = S.turns[v]
  BY <1>1 DEF BusyIn, Sound, Typed
<1>3. \A s \in Scopes, m \in Msgs : Has(C, s, m) => Has(S, s, m)
  BY <1>1, <1>2 DEF Has
<1>4. InLine(C)
  BY <1>1, <1>2 DEF InLine, Orderly
<1>5. Keeps(S, C)
  BY <1>1, <1>2 DEF Keeps, Waits, Holds
<1> QED BY <1>3, <1>4, <1>5, ApartShrinks DEF Orderly, C

\* A step that leaves every message where it was, or lets a queue go.
SamePlaces(S, T) ==
  /\ \A s \in Scopes : T.queue[s] \in {S.queue[s], <<>>}
  /\ BusyIn(T) = BusyIn(S)
  /\ \A w \in BusyIn(S) : /\ T.turns[w].scope = S.turns[w].scope
                          /\ T.turns[w].batch = S.turns[w].batch
SamePrompts(S, T) == \A w \in BusyIn(S) : T.turns[w].prompted = S.turns[w].prompted

LEMMA SamePlacesOrderly ==
  ASSUME NEW S, NEW T, Sound(S), SamePlaces(S, T), NEW a, Orderly(S, a)
  PROVE  /\ Orderly(T, a)
         /\ \A m : Waits(T, m) => Waits(S, m)
         /\ \A m, p : Holds(T, m, p) => \E q \in BOOLEAN : Holds(S, m, q)
         /\ SamePrompts(S, T) => Keeps(S, T)
<1>1. MsgsOf(<<>>) = {} /\ Ordered(<<>>)
  BY DEF MsgsOf, Ordered
<1>2. \A s \in Scopes : T.queue[s] = S.queue[s] \/ T.queue[s] = <<>>
  BY DEF SamePlaces
<1>3. \A s \in Scopes, m \in Msgs : Has(T, s, m) => Has(S, s, m)
  BY <1>1, <1>2 DEF Has, SamePlaces
<1>4. InLine(T)
  <2>1. \A w \in BusyIn(S) : S.turns[w].scope \in Scopes
    BY DEF Sound, Typed, BusyIn, Turn
  <2>2. \A s \in Scopes : Ordered(T.queue[s])
    BY <1>1, <1>2 DEF InLine, Orderly
  <2>3. ASSUME NEW w \in BusyIn(T)
        PROVE  Ordered(T.turns[w].batch) /\ Before(T.turns[w].batch, T.queue[T.turns[w].scope])
    <3>1. /\ w \in BusyIn(S) /\ T.turns[w].scope = S.turns[w].scope
          /\ T.turns[w].batch = S.turns[w].batch /\ S.turns[w].scope \in Scopes
      BY <2>1 DEF SamePlaces
    <3>2. Ordered(S.turns[w].batch) /\ Before(S.turns[w].batch, S.queue[S.turns[w].scope])
      BY <3>1 DEF Orderly, InLine
    <3> QED BY <1>1, <1>2, <3>1, <3>2 DEF Before
  <2> QED BY <2>2, <2>3 DEF InLine
<1>5. \A m : Waits(T, m) => Waits(S, m)
  BY <1>1, <1>2 DEF Waits
<1>6. \A m, p : Holds(T, m, p) => \E q \in BOOLEAN : Holds(S, m, q)
  <2>1. \A w \in BusyIn(S) : S.turns[w].prompted \in BOOLEAN
    BY DEF Sound, Typed, BusyIn, Turn
  <2> QED BY <2>1 DEF Holds, SamePlaces
<1>7. SamePrompts(S, T) => Keeps(S, T)
  <2>1. SamePrompts(S, T) => \A m, p : Holds(T, m, p) => Holds(S, m, p)
    BY DEF Holds, SamePlaces, SamePrompts
  <2> QED BY <1>5, <2>1 DEF Keeps
<1> QED BY <1>3, <1>4, <1>5, <1>6, <1>7, ApartShrinks DEF Orderly

-----------------------------------------------------------------------------
(* The same of the variables.                                              *)

LEMMA BecomeNow == ASSUME NEW S, Sound(S), Become(S) PROVE Now' = S
BY DEF Become, Now, Sound, Typed

\* What a step does to the messages that were sent before it, and to others.
MailStep ==
  /\ \A m \in 1..sent :
       /\ Waits(Now', m) \/ Holds(Now', m, FALSE) => Waits(Now, m) \/ Holds(Now, m, FALSE)
       /\ Holds(Now', m, TRUE) => Holds(Now, m, TRUE) \/ Holds(Now, m, FALSE)
  /\ \A m \in Msgs \ (1..sent) : ~Holds(Now', m, TRUE)

OrderStep == Orderly(Now', asked') /\ MailStep

LEMMA HeldIsSent ==
  ASSUME Inv, Orderly(Now, asked), NEW m \in Msgs, NEW p, Holds(Now, m, p)
  PROVE  m \in 1..sent
<1>1. PICK w \in BusyIn(Now) : m \in MsgsOf(Now.turns[w].batch)
  BY DEF Holds
<1>2. Now.turns[w].scope \in Scopes
  BY DEF Inv, Sound, Typed, BusyIn, Turn
<1>3. Has(Now, Now.turns[w].scope, m)
  BY <1>1 DEF Has
<1>4. m <= sent
  BY <1>2, <1>3 DEF Orderly, Apart, Inv, Bookkeeping
<1> QED BY <1>4 DEF Inv, Bookkeeping, Msgs

LEMMA SentInMsgs == ASSUME Inv PROVE 1..sent \subseteq Msgs
BY BoundAssumption DEF Inv, Bookkeeping, Msgs

LEMMA KeptStep ==
  ASSUME Inv, Orderly(Now, asked), UNCHANGED <<sent, asked>>, Orderly(Now', asked), Keeps(Now, Now')
  PROVE  OrderStep
<1>1. \A m \in Msgs \ (1..sent) : ~Holds(Now', m, TRUE)
  BY HeldIsSent DEF Keeps
<1> QED BY <1>1, SentInMsgs DEF OrderStep, MailStep, Keeps

LEMMA SameStep ==
  ASSUME Inv, Orderly(Now, asked), UNCHANGED <<sent, asked>>, SamePlaces(Now, Now'), SamePrompts(Now, Now')
  PROVE  OrderStep
BY SamePlacesOrderly, KeptStep DEF Inv

\* A picture whose messages are where they were, then drained or not.
LEMMA SameThenDrained ==
  ASSUME Inv, Orderly(Now, asked), UNCHANGED <<sent, asked>>, NEW S, Sound(S),
         SamePlaces(Now, S), SamePrompts(Now, S),
         \/ Become(S) \/ Become(NotedIfNothingLeft(S))
         \/ \E D \in Drained(S) : Become(D)
         \/ \E D \in Drained(NotedIfNothingLeft(S)) : Become(D)
  PROVE  OrderStep
<1>1. Orderly(S, asked) /\ Keeps(Now, S)
  BY SamePlacesOrderly DEF Inv
<1>2. /\ Sound(NotedIfNothingLeft(S)) /\ Orderly(NotedIfNothingLeft(S), asked)
      /\ Keeps(Now, NotedIfNothingLeft(S))
  BY <1>1, RefusedOrderly, RefusedSound, KeepsOn DEF NotedIfNothingLeft
<1>3. PICK T : /\ Sound(T) /\ Orderly(T, asked) /\ Keeps(Now, T)
               /\ Become(T)
  BY <1>1, <1>2, DrainedSound, DrainedOrderly, KeepsOn
<1>4. Now' = T
  BY <1>3, BecomeNow
<1> QED BY <1>3, <1>4, KeptStep

LEMMA TurnEndsOrderly ==
  ASSUME Inv, Orderly(Now, asked), UNCHANGED <<sent, asked>>, NEW S, Sound(S), NEW w \in Workers,
         S.turns[w] # NoTurn, NEW r \in BOOLEAN, TurnEnds(w, S, r),
         Orderly(Closed(w, S, r), asked), Keeps(Now, Closed(w, S, r))
  PROVE  OrderStep
<1>1. PICK D \in Drained(Closed(w, S, r)) : Become(D)
  BY DEF TurnEnds
<1>2. Sound(Closed(w, S, r))
  BY ClosedSound
<1>3. Sound(D) /\ Orderly(D, asked) /\ Keeps(Now, D)
  BY <1>1, <1>2, DrainedSound, DrainedOrderly, KeepsOn
<1>4. Now' = D
  BY <1>1, <1>3, BecomeNow
<1> QED BY <1>3, <1>4, KeptStep

LEMMA EndsNowOrderly ==
  ASSUME Inv, Orderly(Now, asked), UNCHANGED <<sent, asked>>, NEW w \in Workers, turns[w] # NoTurn,
         TurnEnds(w, Now, FALSE)
  PROVE  OrderStep
<1>1. Now.turns[w] # NoTurn /\ Sound(Now)
  BY DEF Now, Inv
<1> QED BY <1>1, ClosedOrderly, TurnEndsOrderly

LEMMA EndsSaidOrderly ==
  ASSUME Inv, Orderly(Now, asked), UNCHANGED <<sent, asked>>, NEW w \in Workers, turns[w] # NoTurn,
         TurnEnds(w, Said(Now, turns[w].batch), FALSE)
  PROVE  OrderStep
<1> DEFINE S == Said(Now, turns[w].batch)
<1>1. Sound(S) /\ S.turns[w] # NoTurn
  BY SaidSound
<1>2. SamePlaces(Now, S) /\ SamePrompts(Now, S)
  BY DEF Said, Now, SamePlaces, SamePrompts, BusyIn
<1> HIDE DEF S
<1>3. Orderly(S, asked) /\ Keeps(Now, S)
  BY <1>2, SamePlacesOrderly DEF Inv
<1>4. Orderly(Closed(w, S, FALSE), asked) /\ Keeps(Now, Closed(w, S, FALSE))
  BY <1>1, <1>3, ClosedOrderly, KeepsOn
<1> QED BY <1>1, <1>4, TurnEndsOrderly DEF S

\* A batch put back stands before what came since, as it stood before.
LEMMA PutBackOrderly ==
  ASSUME Inv, Orderly(Now, asked), NEW w \in Workers, turns[w] # NoTurn,
         ~turns[w].prompted, NEW S, Sound(S), S.turns = turns,
         S.queue = [queue EXCEPT ![turns[w].scope] = PutBack(turns[w].batch, @)]
  PROVE  /\ Orderly(Closed(w, S, TRUE), asked)
         /\ Keeps(Now, Closed(w, S, TRUE))
<1> DEFINE C == Closed(w, S, TRUE)
           u == turns[w].scope
           b == turns[w].batch
<1>1. /\ queue \in [Scopes -> Seq(Msgs)] /\ turns \in [Workers -> Turn \cup {NoTurn}]
      /\ u \in Scopes /\ b \in Seq(Msgs) /\ queue[u] \in Seq(Msgs)
  BY NowTyped DEF Inv, Turn
<1>2. /\ C.turns = [turns EXCEPT ![w] = NoTurn]
      /\ C.queue = [queue EXCEPT ![u] = b \o queue[u]]
  BY DEF Closed, PutBack
<1> HIDE DEF C
<1>3. /\ w \in BusyIn(Now) /\ Now.turns = turns /\ Now.queue = queue
      /\ BusyIn(C) = BusyIn(Now) \ {w} /\ \A v \in BusyIn(C) : C.turns[v] = turns[v]
  BY <1>1, <1>2 DEF BusyIn, Now
<1>4. /\ Ordered(b) /\ Ordered(queue[u]) /\ Before(b, queue[u])
      /\ MsgsOf(b \o queue[u]) = MsgsOf(b) \cup MsgsOf(queue[u])
      /\ Ordered(b \o queue[u])
  BY <1>1, <1>3, ConcatOrder DEF Orderly, InLine
<1>5. /\ C.queue[u] = b \o queue[u]
      /\ \A s \in Scopes \ {u} : C.queue[s] = queue[s]
  BY <1>1, <1>2
<1>6. \A v \in BusyIn(C) : turns[v].scope \in Scopes \ {u}
  <2>1. \A v \in BusyIn(Now) : turns[v].scope \in Scopes
    BY <1>3 DEF Inv, Sound, Typed, BusyIn, Turn
  <2> QED BY <1>3, <2>1 DEF Inv, Sound, Exclusive
<1>7. \A s \in Scopes, m \in Msgs : Has(C, s, m) => Has(Now, s, m)
  <2> TAKE s \in Scopes, m \in Msgs
  <2>1. CASE m \in MsgsOf(C.queue[s])
    BY <1>3, <1>4, <1>5, <2>1 DEF Has
  <2>2. CASE \E v \in BusyIn(C) : C.turns[v].scope = s /\ m \in MsgsOf(C.turns[v].batch)
    BY <1>3, <2>2 DEF Has
  <2> QED BY <2>1, <2>2 DEF Has
<1>8. InLine(C)
  <2>1. \A s \in Scopes : Ordered(C.queue[s])
    BY <1>3, <1>4, <1>5 DEF Orderly, InLine
  <2>2. \A v \in BusyIn(C) : /\ Ordered(C.turns[v].batch)
                             /\ Before(C.turns[v].batch, C.queue[C.turns[v].scope])
    BY <1>3, <1>5, <1>6 DEF Orderly, InLine
  <2> QED BY <2>1, <2>2 DEF InLine
<1>9. Keeps(Now, C)
  <2> SUFFICES ASSUME NEW m \in Msgs
               PROVE  /\ Waits(C, m) => Waits(Now, m) \/ Holds(Now, m, FALSE)
                      /\ \A p : Holds(C, m, p) => Holds(Now, m, p)
    BY DEF Keeps
  <2>1. ASSUME m \in MsgsOf(b) PROVE Holds(Now, m, FALSE)
    <3>1. turns[w].prompted = FALSE
      BY <1>1 DEF Turn
    <3> QED BY <1>3, <2>1, <3>1 DEF Holds
  <2>2. Waits(C, m) => Waits(Now, m) \/ Holds(Now, m, FALSE)
    BY <1>3, <1>4, <1>5, <2>1 DEF Waits
  <2>3. \A p : Holds(C, m, p) => Holds(Now, m, p)
    BY <1>3 DEF Holds
  <2> QED BY <2>2, <2>3
<1> QED BY <1>7, <1>8, <1>9, ApartShrinks DEF Orderly, C

\* The picture a retry drains: the batch is back, and a steer if it was one.
Retried(w) ==
  [Now EXCEPT !.queue = [queue EXCEPT ![turns[w].scope] = PutBack(turns[w].batch, @)],
              !.ahead = KeySet(queue, turns[w].scope),
              !.steer = IF turns[w].steer THEN steer \cup {turns[w].scope} ELSE steer]

LEMMA RetriedSound ==
  ASSUME Inv, NEW w \in Workers, turns[w] # NoTurn
  PROVE  /\ Sound(Retried(w)) /\ Retried(w).turns = turns /\ Retried(w).told = told
         /\ Retried(w).status = status
         /\ Retried(w).queue = [queue EXCEPT ![turns[w].scope] = PutBack(turns[w].batch, @)]
<1> DEFINE t == turns[w]
           q == [queue EXCEPT ![t.scope] = PutBack(t.batch, @)]
           S == [Now EXCEPT !.queue = q, !.ahead = KeySet(queue, t.scope),
                            !.steer = IF t.steer THEN steer \cup {t.scope} ELSE steer]
<1>1. S = Retried(w)
  BY DEF Retried
<1>2. t.scope \in Scopes /\ t.batch \in Seq(Msgs)
  BY NowTyped DEF Inv, Turn
<1>3. PutBack(t.batch, queue[t.scope]) \in Seq(Msgs)
  BY <1>2, NowTyped, ConcatProperties DEF Inv, PutBack
<1>4. q \in [Scopes -> Seq(Msgs)]
  BY <1>2, <1>3, NowTyped DEF Inv
<1>5. /\ S.turns = turns /\ S.told = told /\ S.status = status /\ S.queue = q
      /\ Typed(S) /\ Exclusive(S) /\ UnmadeIsIdle(S)
  <2> HIDE DEF q
  <2>1. Typed(S)
    BY <1>2, <1>4, NowTyped, KeySetType DEF Inv, Typed, Now
  <2>2. Exclusive(S) /\ UnmadeIsIdle(S)
    BY DEF Inv, Sound, Exclusive, UnmadeIsIdle, BusyIn, Now
  <2> QED BY <2>1, <2>2 DEF Now
<1> QED BY <1>1, <1>5 DEF Sound

\* The ways a turn fails.
LEMMA TurnFailsHow ==
  ASSUME NEW w \in Workers, NEW r \in BOOLEAN, TurnFails(w, r)
  PROVE  \/ /\ stopping \/ turns[w].scope \in BanterScopes \/ turns[w].cancelled
            /\ TurnEnds(w, Now, FALSE)
         \/ /\ turns[w].scope \notin BanterScopes /\ ~turns[w].prompted
            /\ TurnEnds(w, Retried(w), TRUE)
         \/ r /\ turns[w].scope \in refusalSaid /\ TurnEnds(w, Now, FALSE)
         \/ TurnEnds(w, Said(Now, turns[w].batch), FALSE)
<1> DEFINE t == turns[w]
           S == [Now EXCEPT
                   !.queue = [queue EXCEPT ![t.scope] = PutBack(t.batch, @)],
                   !.ahead = KeySet(queue, t.scope),
                   !.steer = IF t.steer THEN steer \cup {t.scope} ELSE steer]
<1>1. S = Retried(w)
  BY DEF Retried
<1>2. \/ /\ stopping \/ t.scope \in BanterScopes \/ t.cancelled
         /\ TurnEnds(w, Now, FALSE)
      \/ /\ ~(stopping \/ t.scope \in BanterScopes \/ t.cancelled)
         /\ MayRetry(t, r) /\ TurnEnds(w, S, TRUE)
      \/ r /\ t.scope \in refusalSaid /\ TurnEnds(w, Now, FALSE)
      \/ TurnEnds(w, Said(Now, t.batch), FALSE)
  BY DEF TurnFails
<1> HIDE DEF S
<1> QED BY <1>1, <1>2 DEF MayRetry

LEMMA TurnFailsOrderly ==
  ASSUME Inv, Orderly(Now, asked), UNCHANGED <<sent, asked>>, NEW w \in Workers, turns[w] # NoTurn,
         NEW r \in BOOLEAN, TurnFails(w, r)
  PROVE  OrderStep
<1>1. CASE TurnEnds(w, Now, FALSE)
  BY <1>1, EndsNowOrderly
<1>2. CASE TurnEnds(w, Said(Now, turns[w].batch), FALSE)
  BY <1>2, EndsSaidOrderly
<1>3. CASE ~turns[w].prompted /\ TurnEnds(w, Retried(w), TRUE)
  <2> DEFINE S == Retried(w)
  <2>1. /\ Sound(S) /\ S.turns = turns /\ S.turns[w] # NoTurn
        /\ S.queue = [queue EXCEPT ![turns[w].scope] = PutBack(turns[w].batch, @)]
    BY RetriedSound
  <2>2. TurnEnds(w, S, TRUE)
    BY <1>3
  <2> HIDE DEF S
  <2>3. Orderly(Closed(w, S, TRUE), asked) /\ Keeps(Now, Closed(w, S, TRUE))
    BY <1>3, <2>1, PutBackOrderly
  <2> QED BY <2>1, <2>2, <2>3, TurnEndsOrderly
<1> QED BY <1>1, <1>2, <1>3, TurnFailsHow

LEMMA EnqueueOrderly ==
  ASSUME Inv, Orderly(Now, asked), NEW s \in Scopes, Enqueue(s)
  PROVE  OrderStep
<1> DEFINE q == [queue EXCEPT ![s] = Append(@, sent + 1)]
           S == Arrived(s)
<1>1. /\ sent \in Nat /\ sent + 1 \in Msgs /\ sent' = sent + 1
      /\ asked' = Append(asked, s) /\ asked \in Seq(Scopes) /\ Len(asked) = sent
  BY ArrivedSound DEF Enqueue, Inv, Bookkeeping
<1>2. queue[s] \in Seq(Msgs) /\ queue \in [Scopes -> Seq(Msgs)]
  BY NowTyped DEF Inv
<1>3. Sound(S) /\ S.queue = q /\ S.turns = turns
  BY ArrivedSound
<1>4. PICK D \in Drained(S) : Become(D)
  BY ArrivedSound
<1> HIDE DEF S
<1>5. /\ S.queue = q /\ S.turns = turns /\ Now.queue = queue /\ Now.turns = turns
      /\ BusyIn(S) = BusyIn(Now)
  BY <1>3 DEF Now, BusyIn
<1>6. /\ \A u \in Scopes \ {s} : q[u] = queue[u]
      /\ MsgsOf(q[s]) = MsgsOf(queue[s]) \cup {sent + 1}
      /\ \A i \in 1..Len(queue[s]) : q[s][i] = queue[s][i]
      /\ q[s][Len(queue[s]) + 1] = sent + 1 /\ DOMAIN q[s] = 1..(Len(queue[s]) + 1)
      /\ Len(queue[s]) \in Nat /\ DOMAIN queue[s] = 1..Len(queue[s])
  <2>1. q[s] = Append(queue[s], sent + 1) /\ \A u \in Scopes \ {s} : q[u] = queue[u]
    BY <1>2
  <2> HIDE DEF q
  <2>2. Len(queue[s]) \in Nat /\ DOMAIN queue[s] = 1..Len(queue[s])
    BY <1>2, LenProperties
  <2>3. /\ \A i \in 1..Len(queue[s]) : q[s][i] = queue[s][i]
        /\ q[s][Len(queue[s]) + 1] = sent + 1 /\ DOMAIN q[s] = 1..(Len(queue[s]) + 1)
    BY <1>1, <1>2, <2>1, <2>2, AppendProperties
  <2>4. 1..(Len(queue[s]) + 1) = (1..Len(queue[s])) \cup {Len(queue[s]) + 1}
    BY <2>2
  <2>5. MsgsOf(q[s]) = MsgsOf(queue[s]) \cup {sent + 1}
    BY <2>2, <2>3, <2>4 DEF MsgsOf
  <2> QED BY <2>1, <2>2, <2>3, <2>5
<1> HIDE DEF q, S
<1>7. \A u \in Scopes, m \in Msgs :
        Has(S, u, m) => (m = sent + 1 /\ u = s) \/ Has(Now, u, m)
  <2> TAKE u \in Scopes, m \in Msgs
  <2>1. m \in MsgsOf(q[u]) => (m = sent + 1 /\ u = s) \/ m \in MsgsOf(queue[u])
    BY <1>6
  <2> QED BY <1>5, <2>1 DEF Has
<1>8. \A u \in Scopes, m \in Msgs : Has(Now, u, m) => m <= sent /\ asked[m] = u
  BY <1>1 DEF Orderly, Apart
<1>9. Apart(S, asked')
  <2>1. Len(asked') = sent + 1 /\ asked'[sent + 1] = s /\ \A m \in 1..sent : asked'[m] = asked[m]
    BY <1>1, AppendProperties
  <2>2. ASSUME NEW u \in Scopes, NEW m \in Msgs, Has(S, u, m)
        PROVE  m <= Len(asked') /\ asked'[m] = u
    <3>1. CASE m = sent + 1 /\ u = s
      BY <1>1, <2>1, <3>1
    <3>2. CASE Has(Now, u, m)
      <4>1. m <= sent /\ asked[m] = u /\ m \in 1..sent /\ m <= sent + 1
        BY <1>1, <1>8, <3>2 DEF Msgs
      <4> QED BY <2>1, <4>1
    <3> QED BY <1>7, <2>2, <3>1, <3>2
  <2> QED BY <2>2 DEF Apart
<1>10. InLine(S)
  <2>1. \A m \in MsgsOf(queue[s]) : m \in Msgs /\ m < sent + 1
    <3> TAKE m \in MsgsOf(queue[s])
    <3>1. m \in Msgs
      BY <1>2, MsgsOfType
    <3>2. m <= sent
      BY <1>5, <1>8, <3>1 DEF Has
    <3> QED BY <1>1, <3>1, <3>2 DEF Msgs
  <2>2. Ordered(q[s])
    <3> SUFFICES ASSUME NEW i \in 1..(Len(queue[s]) + 1), NEW j \in 1..(Len(queue[s]) + 1),
                        i < j
                 PROVE  q[s][i] < q[s][j]
      BY <1>6 DEF Ordered
    <3>1. i \in 1..Len(queue[s])
      BY <1>6
    <3>2. CASE j \in 1..Len(queue[s])
      BY <1>5, <1>6, <3>1, <3>2 DEF Orderly, InLine, Ordered
    <3>3. CASE j = Len(queue[s]) + 1
      BY <1>6, <2>1, <3>1, <3>3 DEF MsgsOf
    <3> QED BY <1>6, <3>2, <3>3
  <2>3. ASSUME NEW w \in BusyIn(Now)
        PROVE  /\ Ordered(turns[w].batch)
               /\ Before(turns[w].batch, q[turns[w].scope])
    <3>1. Ordered(turns[w].batch) /\ Before(turns[w].batch, queue[turns[w].scope])
      BY <1>5 DEF Orderly, InLine
    <3>2. turns[w].scope \in Scopes /\ turns[w].batch \in Seq(Msgs)
      BY <1>5 DEF Inv, Sound, Typed, BusyIn, Turn
    <3>3. \A m \in MsgsOf(turns[w].batch) : m < sent + 1
      <4> TAKE m \in MsgsOf(turns[w].batch)
      <4>1. m \in Msgs
        BY <3>2, MsgsOfType
      <4>2. m <= sent
        BY <1>5, <1>8, <3>2, <4>1 DEF Has
      <4> QED BY <1>1, <4>1, <4>2 DEF Msgs
    <3> QED BY <1>6, <3>1, <3>2, <3>3 DEF Before
  <2> QED BY <1>5, <1>6, <2>2, <2>3 DEF InLine, Orderly
<1>11. Orderly(D, asked') /\ Keeps(S, D) /\ Now' = D
  BY <1>3, <1>4, <1>9, <1>10, DrainedOrderly, DrainedSound, BecomeNow DEF Orderly
<1>12. /\ \A m \in 1..sent : Waits(S, m) => Waits(Now, m)
       /\ \A m, p : Holds(S, m, p) => Holds(Now, m, p)
  <2>1. ASSUME NEW m \in 1..sent, NEW u \in Scopes, m \in MsgsOf(q[u])
        PROVE  m \in MsgsOf(queue[u])
    <3>1. m # sent + 1
      BY <1>1
    <3> QED BY <1>6, <2>1, <3>1
  <2> QED BY <1>5, <2>1 DEF Waits, Holds
<1>13. MailStep
  <2>1. ASSUME NEW m \in Msgs \ (1..sent), Holds(Now', m, TRUE)
        PROVE  FALSE
    <3>1. Holds(Now, m, TRUE)
      BY <1>11, <1>12, <2>1 DEF Keeps
    <3> QED BY <2>1, <3>1, HeldIsSent
  <2> QED BY <1>11, <1>12, <2>1, SentInMsgs DEF MailStep, Keeps
<1> QED BY <1>11, <1>13 DEF OrderStep

\* One turn rewritten in place.
LEMMA TurnRewritten ==
  ASSUME Inv, Orderly(Now, asked), UNCHANGED <<sent, asked>>, queue' = queue,
         NEW w \in Workers, turns[w] # NoTurn, NEW t \in Turn,
         t.scope = turns[w].scope, t.batch = turns[w].batch, t.prompted = turns[w].prompted,
         turns' = [turns EXCEPT ![w] = t]
  PROVE  OrderStep
<1>1. /\ turns \in [Workers -> Turn \cup {NoTurn}]
      /\ Now.turns = turns /\ Now'.turns = turns' /\ Now.queue = queue /\ Now'.queue = queue
  BY NowTyped DEF Inv, Now
<1>2. BusyIn(Now') = BusyIn(Now)
  BY <1>1, NoTurnAssumption DEF BusyIn
<1> QED BY <1>1, <1>2, SameStep DEF SamePlaces, SamePrompts, BusyIn

LEMMA PromptOrderly ==
  ASSUME Inv, Orderly(Now, asked), NEW w \in Workers, Prompt(w)
  PROVE  OrderStep
<1> DEFINE t == [turns[w] EXCEPT !.phase = "prompted", !.prompted = TRUE]
<1>1. /\ turns \in [Workers -> Turn \cup {NoTurn}] /\ turns[w] \in Turn
      /\ UNCHANGED <<sent, asked>> /\ queue' = queue /\ turns' = [turns EXCEPT ![w] = t]
  BY NowTyped, TurnFields DEF Inv, Prompt, Unchanged1
<1>2. t \in Turn /\ t.scope = turns[w].scope /\ t.batch = turns[w].batch /\ t.prompted = TRUE
  BY <1>1 DEF Turn, Phases
<1> HIDE DEF t
<1>3. Now.turns = turns /\ Now'.turns = turns' /\ Now.queue = queue /\ Now'.queue = queue
  BY <1>1 DEF Now
<1>4. BusyIn(Now') = BusyIn(Now) /\ w \in BusyIn(Now)
  BY <1>1, <1>2, <1>3, NoTurnAssumption DEF BusyIn
<1>5. SamePlaces(Now, Now')
  BY <1>1, <1>2, <1>3, <1>4 DEF SamePlaces, BusyIn
<1>6. Orderly(Now', asked)
  BY <1>5, SamePlacesOrderly DEF Inv
<1>7. MailStep
  <2>1. \A m \in Msgs : Waits(Now', m) => Waits(Now, m)
    BY <1>3 DEF Waits
  <2>2. \A m \in Msgs : Holds(Now', m, FALSE) => Holds(Now, m, FALSE)
    <3> TAKE m \in Msgs
    <3> HAVE Holds(Now', m, FALSE)
    <3>1. PICK v \in BusyIn(Now') : m \in MsgsOf(turns'[v].batch) /\ turns'[v].prompted = FALSE
      BY <1>3 DEF Holds
    <3>2. v # w /\ turns'[v] = turns[v]
      BY <1>1, <1>2, <3>1 DEF BusyIn
    <3> QED BY <1>3, <1>4, <3>1, <3>2 DEF Holds
  <2>3. \A m \in Msgs : Holds(Now', m, TRUE) => Holds(Now, m, TRUE) \/ Holds(Now, m, FALSE)
    <3> TAKE m \in Msgs
    <3> HAVE Holds(Now', m, TRUE)
    <3>1. PICK q \in BOOLEAN : Holds(Now, m, q)
      BY <1>5, SamePlacesOrderly DEF Inv
    <3> QED BY <3>1
  <2>4. \A m \in Msgs \ (1..sent) : ~Holds(Now', m, TRUE)
    BY <2>3, HeldIsSent
  <2> QED BY <2>1, <2>2, <2>3, <2>4, SentInMsgs DEF MailStep
<1> QED BY <1>1, <1>6, <1>7 DEF OrderStep

LEMMA TurnStepOrderly ==
  ASSUME Inv, Orderly(Now, asked), NEW w \in Workers, TurnStep(w)
  PROVE  OrderStep
<1>1. refused \in BOOLEAN
  BY DEF Inv, Bookkeeping
<1>2. CASE Begin(w)
  <2> DEFINE t == [turns[w] EXCEPT !.phase = "opening"]
  <2>1. turns[w] \in Turn
    BY <1>2, TurnFields DEF Begin
  <2>2. /\ t \in Turn /\ t.scope = turns[w].scope /\ t.batch = turns[w].batch
        /\ t.prompted = turns[w].prompted
    BY <2>1 DEF Turn, Phases
  <2> QED BY <1>2, <2>2, TurnRewritten DEF Begin, Unchanged1
<1>3. CASE BeginNothing(w)
  BY <1>3, EndsNowOrderly DEF BeginNothing, Unchanged1
<1>4. CASE BeginFails(w) \/ OpenFails(w) \/ PromptFails(w)
  <2>1. PICK r \in BOOLEAN : TurnFails(w, r)
    BY <1>1, <1>4 DEF BeginFails, OpenFails, PromptFails
  <2> QED BY <1>4, <2>1, TurnFailsOrderly DEF BeginFails, OpenFails, PromptFails, Unchanged1
<1>5. CASE Opened(w)
  <2>1. CASE TurnEnds(w, Now, FALSE)
    BY <1>5, <2>1, EndsNowOrderly DEF Opened, Unchanged1
  <2>2. CASE turns' = [turns EXCEPT ![w].phase = "priming"] /\ queue' = queue
    <3> DEFINE t == [turns[w] EXCEPT !.phase = "priming"]
    <3>1. turns[w] \in Turn
      BY <1>5, TurnFields DEF Opened
    <3>2. /\ t \in Turn /\ t.scope = turns[w].scope /\ t.batch = turns[w].batch
          /\ t.prompted = turns[w].prompted
      BY <3>1 DEF Turn, Phases
    <3> QED BY <1>5, <2>2, <3>2, TurnRewritten DEF Opened, Unchanged1
  <2> QED BY <1>5, <2>1, <2>2 DEF Opened
<1>6. CASE Prompt(w)
  BY <1>6, PromptOrderly
<1>7. CASE Answer(w)
  BY <1>7, EndsSaidOrderly DEF Answer, Unchanged1
<1>8. CASE Stall(w)
  <2> DEFINE t == [turns[w] EXCEPT !.cancelled = TRUE, !.stopSent = TRUE]
  <2>1. turns[w] \in Turn
    BY <1>8, TurnFields DEF Stall
  <2>2. /\ t \in Turn /\ t.scope = turns[w].scope /\ t.batch = turns[w].batch
        /\ t.prompted = turns[w].prompted
    BY <2>1 DEF Turn
  <2>3. turns' = [turns EXCEPT ![w] = t]
    BY <1>8, NowTyped DEF Stall, Inv
  <2> QED BY <1>8, <2>2, <2>3, TurnRewritten DEF Stall, Unchanged1
<1> QED BY <1>2, <1>3, <1>4, <1>5, <1>6, <1>7, <1>8 DEF TurnStep

\* Turns marked, and queues let go.
LEMMA MarkedOrderly ==
  ASSUME Inv, Orderly(Now, asked), UNCHANGED <<sent, asked>>,
         \A s \in Scopes : queue'[s] \in {queue[s], <<>>},
         \A w \in Workers :
           /\ turns'[w] = NoTurn <=> turns[w] = NoTurn
           /\ turns[w] # NoTurn => /\ turns'[w].scope = turns[w].scope
                                   /\ turns'[w].batch = turns[w].batch
                                   /\ turns'[w].prompted = turns[w].prompted
  PROVE  OrderStep
<1>1. Now.turns = turns /\ Now'.turns = turns' /\ Now.queue = queue /\ Now'.queue = queue'
  BY DEF Now
<1> QED BY <1>1, SameStep DEF SamePlaces, SamePrompts, BusyIn

LEMMA WorkerStepOrderly ==
  ASSUME Inv, Orderly(Now, asked), NEW w \in Workers, WorkerStep(w)
  PROVE  OrderStep
<1>1. CASE StartOk(w)
  <2> DEFINE S == [Now EXCEPT !.status = [status EXCEPT ![w] = "up"]]
  <2>1. Sound(S)
    BY <1>1, OneLifeSound DEF StartOk
  <2>2. SamePlaces(Now, S) /\ SamePrompts(Now, S)
    BY DEF Now, SamePlaces, SamePrompts, BusyIn
  <2>3. Become(S) \/ \E D \in Drained(S) : Become(D)
    BY <1>1 DEF StartOk
  <2> HIDE DEF S
  <2> QED BY <1>1, <2>1, <2>2, <2>3, SameThenDrained DEF StartOk, Unchanged2
<1>2. CASE StartFails(w)
  <2> DEFINE S == [Now EXCEPT !.status = [status EXCEPT ![w] = "dead"]]
  <2>1. Sound(S)
    BY <1>2, OneLifeSound DEF StartFails
  <2>2. SamePlaces(Now, S) /\ SamePrompts(Now, S)
    BY DEF Now, SamePlaces, SamePrompts, BusyIn
  <2>3. Become(S) \/ \E D \in Drained(NotedIfNothingLeft(S)) : Become(D)
    BY <1>2 DEF StartFails
  <2> HIDE DEF S
  <2> QED BY <1>2, <2>1, <2>2, <2>3, SameThenDrained DEF StartFails, Unchanged2
<1>3. CASE Crash(w)
  <2> DEFINE broken == IF turns[w] # NoTurn /\ turns[w].phase # "starting"
                       THEN [turns EXCEPT ![w].lost = TRUE] ELSE turns
             again == [status EXCEPT ![w] = "starting"]
             gone == [status EXCEPT ![w] = "dead"]
  <2>1. /\ broken \in [Workers -> Turn \cup {NoTurn}]
        /\ \A v \in Workers :
             /\ broken[v] = NoTurn <=> turns[v] = NoTurn
             /\ turns[v] # NoTurn => /\ broken[v].scope = turns[v].scope
                                     /\ broken[v].batch = turns[v].batch
                                     /\ broken[v].prompted = turns[v].prompted
    <3>1. CASE turns[w] = NoTurn
      BY <3>1, NowTyped DEF Inv
    <3>2. CASE turns[w] # NoTurn
      <4> DEFINE t == [turns[w] EXCEPT !.lost = TRUE]
      <4>1. turns[w] \in Turn
        BY <3>2, TurnFields
      <4>2. /\ t \in Turn /\ t.scope = turns[w].scope /\ t.batch = turns[w].batch
            /\ t.prompted = turns[w].prompted
        BY <4>1 DEF Turn
      <4> QED BY <4>2, NowTyped, NoTurnAssumption DEF Inv
    <3> QED BY <3>1, <3>2
  <2>2. /\ again \in [Workers -> {"unmade", "starting", "up", "dead"}]
        /\ gone \in [Workers -> {"unmade", "starting", "up", "dead"}]
        /\ \A v \in Workers : /\ again[v] = "unmade" => status[v] = "unmade"
                              /\ gone[v] = "unmade" => status[v] = "unmade"
    BY <1>3, NowTyped DEF Inv, Crash
  <2>3. \/ Become([Now EXCEPT !.status = again, !.turns = broken])
        \/ Become(NotedIfNothingLeft([Now EXCEPT !.status = gone, !.turns = broken]))
    BY <1>3 DEF Crash
  <2> HIDE DEF broken, again, gone
  <2>4. \A st \in {again, gone} :
          LET S == [Now EXCEPT !.status = st, !.turns = broken]
          IN Sound(S) /\ SamePlaces(Now, S) /\ SamePrompts(Now, S)
    <3> TAKE st \in {again, gone}
    <3> DEFINE S == [Now EXCEPT !.status = st, !.turns = broken]
    <3>1. Sound(S)
      BY <2>1, <2>2, LifeSound
    <3>2. S.turns = broken /\ S.queue = queue /\ Now.turns = turns /\ Now.queue = queue
      BY DEF Now
    <3> HIDE DEF S
    <3>3. SamePlaces(Now, S) /\ SamePrompts(Now, S)
      BY <2>1, <3>2 DEF SamePlaces, SamePrompts, BusyIn
    <3> QED BY <3>1, <3>3 DEF S
  <2> QED BY <1>3, <2>3, <2>4, SameThenDrained DEF Crash, Unchanged2
<1> QED BY <1>1, <1>2, <1>3 DEF WorkerStep

LEMMA RestOrderly ==
  ASSUME Inv, Orderly(Now, asked),
         \/ \E s \in Scopes : Cancel(s)
         \/ Reload \/ Drop \/ Redial \/ Rejoined \/ Stop \/ UNCHANGED vars
  PROVE  OrderStep
<1>1. \A w \in Workers : turns[w] # NoTurn => turns[w] \in Turn
  BY TurnFields
<1>2. CASE \E s \in Scopes : Cancel(s)
  <2>1. PICK s \in Scopes : Cancel(s)
    BY <1>2
  <2>2. \A q \in Scopes : queue'[q] \in {queue[q], <<>>}
    <3>1. PICK dropped : queue' = [q \in Scopes |-> IF q \in dropped THEN <<>> ELSE queue[q]]
      BY <2>1 DEF Cancel
    <3> QED BY <3>1
  <2>3. PICK targets \in SUBSET {w \in Workers : turns[w] # NoTurn} :
          turns' = [w \in Workers |->
                      IF w \in targets
                      THEN [turns[w] EXCEPT !.cancelled = TRUE,
                              !.stopSent = @ \/ turns[w].phase = "prompted"]
                      ELSE turns[w]]
    BY <2>1 DEF Cancel
  <2>4. \A w \in Workers :
          turns[w] # NoTurn =>
            LET t == [turns[w] EXCEPT !.cancelled = TRUE,
                        !.stopSent = @ \/ turns[w].phase = "prompted"]
            IN /\ t \in Turn /\ t.scope = turns[w].scope /\ t.batch = turns[w].batch
               /\ t.prompted = turns[w].prompted
    <3> TAKE w \in Workers
    <3> HAVE turns[w] # NoTurn
    <3>1. (turns[w].stopSent \/ turns[w].phase = "prompted") \in BOOLEAN
      OBVIOUS
    <3> QED BY <1>1, <3>1 DEF Turn
  <2>5. \A w \in Workers :
          /\ turns'[w] = NoTurn <=> turns[w] = NoTurn
          /\ turns[w] # NoTurn => /\ turns'[w].scope = turns[w].scope
                                  /\ turns'[w].batch = turns[w].batch
                                  /\ turns'[w].prompted = turns[w].prompted
    BY <2>3, <2>4, NoTurnAssumption
  <2>6. UNCHANGED <<sent, asked>>
    BY <2>1 DEF Cancel
  <2> QED BY <2>2, <2>5, <2>6, MarkedOrderly
<1>3. CASE Stop
  <2>1. \A q \in Scopes : queue'[q] = <<>>
    BY <1>3 DEF Stop
  <2>2. \A w \in Workers :
          turns[w] # NoTurn =>
            LET t == [turns[w] EXCEPT !.cancelled = TRUE, !.lost = TRUE]
            IN /\ t \in Turn /\ t.scope = turns[w].scope /\ t.batch = turns[w].batch
               /\ t.prompted = turns[w].prompted
    BY <1>1 DEF Turn
  <2> QED BY <1>3, <2>1, <2>2, MarkedOrderly, NoTurnAssumption DEF Stop
<1>4. CASE Reload \/ Drop \/ Redial \/ Rejoined \/ UNCHANGED vars
  <2>1. queue' = queue /\ turns' = turns /\ UNCHANGED <<sent, asked>>
    BY <1>4 DEF Reload, Drop, Redial, Rejoined, vars, engine, Unchanged2
  <2> QED BY <2>1, MarkedOrderly
<1> QED BY <1>2, <1>3, <1>4

LEMMA NextOrderly == Inv /\ Orderly(Now, asked) /\ [Next]_vars => OrderStep
<1> SUFFICES ASSUME Inv, Orderly(Now, asked), [Next]_vars PROVE OrderStep
  OBVIOUS
<1> QED BY EnqueueOrderly, TurnStepOrderly, WorkerStepOrderly, RestOrderly DEF Next

LEMMA InitOrderly == Init => Orderly(Now, asked)
<1> SUFFICES ASSUME Init PROVE Orderly(Now, asked)
  OBVIOUS
<1>1. BusyIn(Now) = {} /\ \A s \in Scopes : Now.queue[s] = <<>>
  BY DEF Init, Now, BusyIn
<1>2. MsgsOf(<<>>) = {} /\ Ordered(<<>>)
  BY DEF MsgsOf, Ordered
<1> QED BY <1>1, <1>2 DEF Orderly, InLine, Apart, Has

LEMMA SpecOrderly == Spec => [](Inv /\ Orderly(Now, asked))
<1>1. Inv /\ Orderly(Now, asked) /\ [Next]_vars => Orderly(Now, asked)'
  BY NextOrderly DEF OrderStep
<1> QED BY <1>1, InitInv, NextInv, InitOrderly, PTL DEF Spec

\* Whatever is retried, put back or called off, a conversation's messages keep
\* the order they came in and none is there twice (#turnFailed, #drain).
THEOREM ConversationsKeepTheirOrder == Spec => []ScopeOrder
<1>1. Inv /\ Orderly(Now, asked) => ScopeOrder
  <2> SUFFICES ASSUME Inv, Orderly(Now, asked), NEW s \in Scopes
               PROVE  /\ Ordered(queue[s])
                      /\ \A w \in Busy : turns[w].scope = s => Ordered(turns[w].batch \o queue[s])
    BY DEF ScopeOrder, Ordered
  <2>1. /\ queue[s] \in Seq(Msgs) /\ Now.queue = queue /\ Now.turns = turns
        /\ BusyIn(Now) = Busy /\ \A w \in Busy : turns[w].batch \in Seq(Msgs)
    BY NowTyped DEF Inv, Now, BusyIn, Busy, Turn
  <2> QED BY <2>1, ConcatOrder DEF Orderly, InLine
<1> QED BY <1>1, SpecOrderly, PTL

-----------------------------------------------------------------------------
(* The mailbox.                                                            *)

Stage(S, n, m) ==
  IF m > n THEN "unsent"
  ELSE IF Waits(S, m) THEN "waiting"
  ELSE IF Holds(S, m, TRUE) THEN "shown"
  ELSE IF Holds(S, m, FALSE) THEN "held"
  ELSE "over"

\* A message is in one place.
OnePlace(S, m) ==
  /\ \A p \in BOOLEAN : ~(Waits(S, m) /\ Holds(S, m, p))
  /\ ~(Holds(S, m, TRUE) /\ Holds(S, m, FALSE))

LEMMA OrderlyOnePlace ==
  ASSUME NEW S, Sound(S), NEW a, Orderly(S, a), NEW m \in Msgs
  PROVE  OnePlace(S, m)
<1>1. \A w \in BusyIn(S) : S.turns[w].scope \in Scopes
  BY DEF Sound, Typed, BusyIn, Turn
<1>2. ~(m < m)
  BY DEF Msgs
<1>3. ASSUME NEW s \in Scopes, m \in MsgsOf(S.queue[s]),
             NEW w \in BusyIn(S), m \in MsgsOf(S.turns[w].batch)
      PROVE  FALSE
  <2>1. Has(S, s, m) /\ Has(S, S.turns[w].scope, m)
    BY <1>3 DEF Has
  <2>2. S.turns[w].scope = s
    BY <1>1, <2>1 DEF Orderly, Apart
  <2> QED BY <1>2, <1>3, <2>2 DEF Orderly, InLine, Before
<1>4. ASSUME NEW v \in BusyIn(S), NEW w \in BusyIn(S),
             m \in MsgsOf(S.turns[v].batch), m \in MsgsOf(S.turns[w].batch)
      PROVE  v = w
  <2>1. Has(S, S.turns[v].scope, m) /\ Has(S, S.turns[w].scope, m)
    BY <1>4 DEF Has
  <2>2. S.turns[v].scope = S.turns[w].scope
    BY <1>1, <2>1 DEF Orderly, Apart
  <2> QED BY <2>2 DEF Sound, Exclusive
<1>5. \A p \in BOOLEAN : ~(Waits(S, m) /\ Holds(S, m, p))
  BY <1>3 DEF Waits, Holds
<1>6. ~(Holds(S, m, TRUE) /\ Holds(S, m, FALSE))
  BY <1>4 DEF Holds
<1> QED BY <1>5, <1>6 DEF OnePlace

\* At most one arm of Life's CASE is open: nobody has what was not sent.
LEMMA LifeIsStage ==
  Inv /\ Orderly(Now, asked) => Life = [m \in Msgs |-> Stage(Now, sent, m)]
<1> SUFFICES ASSUME Inv, Orderly(Now, asked), NEW m \in Msgs
             PROVE  Life[m] = Stage(Now, sent, m)
  BY DEF Life
<1> DEFINE inTurn == \E w \in Busy : m \in MsgsOf(turns[w].batch) /\ turns[w].prompted
           inHand == \E w \in Busy : m \in MsgsOf(turns[w].batch) /\ ~turns[w].prompted
<1>1. Now.turns = turns /\ Now.queue = queue /\ BusyIn(Now) = Busy
  BY DEF Now, BusyIn, Busy
<1>2. m \in Queued <=> Waits(Now, m)
  BY <1>1 DEF Queued, Waits
<1>3. \A w \in Busy : turns[w].prompted \in BOOLEAN
  BY NowTyped DEF Inv, Busy, Turn
<1>4. inTurn <=> Holds(Now, m, TRUE)
  BY <1>1, <1>3 DEF Holds
<1>5. inHand <=> Holds(Now, m, FALSE)
  BY <1>1, <1>3 DEF Holds
<1>6. OnePlace(Now, m)
  BY OrderlyOnePlace DEF Inv
<1>7. m > sent => ~Waits(Now, m) /\ ~Holds(Now, m, TRUE) /\ ~Holds(Now, m, FALSE)
  <2>1. m > sent => ~(m <= sent)
    BY DEF Inv, Bookkeeping, Msgs
  <2>2. Waits(Now, m) => m <= sent
    BY DEF Waits, Orderly, Apart, Has, Inv, Bookkeeping
  <2>3. \A p : Holds(Now, m, p) => m <= sent
    BY HeldIsSent
  <2> QED BY <2>1, <2>2, <2>3
<1>8. Life[m] = CASE m > sent -> "unsent"
                  [] m \in Queued -> "waiting"
                  [] inTurn -> "shown"
                  [] inHand -> "held"
                  [] OTHER -> "over"
  BY DEF Life
<1> HIDE DEF inTurn, inHand
<1>9. CASE m > sent
  BY <1>2, <1>4, <1>5, <1>7, <1>8, <1>9 DEF Stage
<1>10. CASE ~(m > sent) /\ Waits(Now, m)
  BY <1>2, <1>4, <1>5, <1>6, <1>8, <1>10 DEF Stage, OnePlace
<1>11. CASE ~(m > sent) /\ ~Waits(Now, m) /\ Holds(Now, m, TRUE)
  BY <1>2, <1>4, <1>5, <1>6, <1>8, <1>11 DEF Stage, OnePlace
<1>12. CASE ~(m > sent) /\ ~Waits(Now, m) /\ ~Holds(Now, m, TRUE)
  BY <1>2, <1>4, <1>5, <1>8, <1>12 DEF Stage
<1> QED BY <1>9, <1>10, <1>11, <1>12

\* One step of the loop is one step of each message's life, or none.
LEMMA StageStep ==
  ASSUME NEW S, NEW T, NEW n \in Nat, NEW k \in {n, n + 1}, NEW m \in Msgs,
         OnePlace(S, m), OnePlace(T, m),
         m <= n => /\ Waits(T, m) \/ Holds(T, m, FALSE) => Waits(S, m) \/ Holds(S, m, FALSE)
                   /\ Holds(T, m, TRUE) => Holds(S, m, TRUE) \/ Holds(S, m, FALSE),
         m > n => ~Holds(T, m, TRUE)
  PROVE  /\ Stage(T, k, m) \in Box!Stages
         /\ Stage(T, k, m) \in {Stage(S, n, m)} \cup Box!Onward(Stage(S, n, m))
<1>1. m \in Nat /\ (m > k => m > n) /\ (m > n <=> ~(m <= n))
  BY DEF Msgs
<1>2. Stage(T, k, m) \in Box!Stages
  BY DEF Stage, Box!Stages
<1>3. CASE m > n
  <2>1. Stage(S, n, m) = "unsent"
    BY <1>3 DEF Stage, OnePlace
  <2>2. Stage(T, k, m) \in {"unsent", "waiting", "held", "over"}
    BY <1>3 DEF Stage
  <2> QED BY <1>2, <2>1, <2>2 DEF Box!Onward
<1>4. CASE m <= n
  <2>1. ~(m > n) /\ ~(m > k)
    BY <1>1, <1>4
  <2>2. CASE Waits(S, m)
    <3>1. Stage(S, n, m) = "waiting" /\ Stage(T, k, m) \in {"waiting", "held", "shown", "over"}
      BY <2>1, <2>2 DEF Stage
    <3>2. ~Holds(T, m, TRUE)
      BY <1>4, <2>2 DEF OnePlace
    <3>3. Stage(T, k, m) # "shown"
      BY <2>1, <3>2 DEF Stage
    <3> QED BY <1>2, <3>1, <3>3 DEF Box!Onward
  <2>3. CASE Holds(S, m, TRUE)
    <3>1. ~Waits(S, m) /\ ~Holds(S, m, FALSE)
      BY <2>3 DEF OnePlace
    <3>2. Stage(S, n, m) = "shown"
      BY <2>1, <2>3, <3>1 DEF Stage
    <3>3. ~Waits(T, m) /\ ~Holds(T, m, FALSE)
      BY <1>4, <3>1
    <3>4. Stage(T, k, m) \in {"shown", "over"}
      BY <2>1, <3>3 DEF Stage
    <3> QED BY <1>2, <3>2, <3>4 DEF Box!Onward
  <2>4. CASE ~Waits(S, m) /\ ~Holds(S, m, TRUE) /\ Holds(S, m, FALSE)
    <3>1. Stage(S, n, m) = "held" /\ Stage(T, k, m) \in {"waiting", "shown", "held", "over"}
      BY <2>1, <2>4 DEF Stage
    <3> QED BY <1>2, <3>1 DEF Box!Onward
  <2>5. CASE ~Waits(S, m) /\ ~Holds(S, m, TRUE) /\ ~Holds(S, m, FALSE)
    <3>1. Stage(S, n, m) = "over" /\ Stage(T, k, m) = "over"
      BY <1>4, <2>1, <2>5 DEF Stage
    <3> QED BY <1>2, <3>1
  <2> QED BY <2>2, <2>3, <2>4, <2>5
<1> QED BY <1>1, <1>3, <1>4

LEMMA SentGrows == ASSUME Inv, [Next]_vars PROVE sent' \in {sent, sent + 1}
<1>1. CASE \E s \in Scopes : Enqueue(s) \/ Cancel(s)
  BY <1>1 DEF Enqueue, Cancel
<1>2. CASE \E w \in Workers : TurnStep(w)
  BY <1>2 DEF TurnStep, Begin, BeginNothing, BeginFails, Opened, OpenFails, Prompt,
     Answer, PromptFails, Stall, Unchanged1
<1>3. CASE \E w \in Workers : WorkerStep(w)
  BY <1>3 DEF WorkerStep, StartOk, StartFails, Crash, Unchanged2
<1>4. CASE Reload \/ Drop \/ Redial \/ Rejoined \/ Stop \/ UNCHANGED vars
  BY <1>4 DEF Reload, Drop, Redial, Rejoined, Stop, vars, Unchanged2
<1> QED BY <1>1, <1>2, <1>3, <1>4 DEF Next

LEMMA MailIsBoxStep ==
  Inv /\ Inv' /\ Orderly(Now, asked) /\ [Next]_vars => [Box!Next]_Life
<1> SUFFICES ASSUME Inv, Inv', Orderly(Now, asked), [Next]_vars PROVE Box!Next
  OBVIOUS
<1>1. Orderly(Now', asked') /\ MailStep
  BY NextOrderly DEF OrderStep
<1>2. sent \in Nat /\ sent' \in {sent, sent + 1} /\ Sound(Now) /\ Sound(Now')
  BY SentGrows DEF Inv, Bookkeeping
<1>3. Life = [m \in Msgs |-> Stage(Now, sent, m)]
  BY LifeIsStage
<1>4. Life' = [m \in Msgs |-> Stage(Now', sent', m)]
  <2>1. (Inv /\ Orderly(Now, asked) => Life = [m \in Msgs |-> Stage(Now, sent, m)])'
    BY LifeIsStage, PTL
  <2> QED BY <1>1, <2>1
<1>5. ASSUME NEW m \in Msgs
      PROVE  /\ Stage(Now', sent', m) \in Box!Stages
             /\ Stage(Now', sent', m) \in {Stage(Now, sent, m)} \cup Box!Onward(Stage(Now, sent, m))
  <2>1. OnePlace(Now, m) /\ OnePlace(Now', m)
    BY <1>1, <1>2, OrderlyOnePlace
  <2>2. /\ m <= sent => m \in 1..sent
        /\ m > sent => m \in Msgs \ (1..sent)
    BY <1>2 DEF Msgs
  <2> QED BY <1>1, <1>2, <2>1, <2>2, StageStep DEF MailStep
<1> QED BY <1>3, <1>4, <1>5 DEF Box!Next

\* The pool, with its crashes, retries, reloads and reconnects, implements the
\* mailbox: what was put to the runtime never goes back to a queue, what is
\* over never starts again.
THEOREM TurnLoopIsAMailbox == Spec => IsAMailbox
<1>1. Init => Box!Init
  <2> SUFFICES ASSUME Init PROVE Life = [m \in Msgs |-> "unsent"]
    BY DEF Box!Init
  <2>1. sent = 0 /\ \A m \in Msgs : m > sent
    BY DEF Init, Msgs
  <2>2. Inv
    BY InitInv
  <2>3. \A m \in Msgs : ~Waits(Now, m) /\ \A p : ~Holds(Now, m, p)
    BY DEF Init, Now, Waits, Holds, BusyIn, MsgsOf
  <2>4. \A m \in Msgs : Stage(Now, sent, m) = "unsent"
    BY <2>1, <2>3 DEF Stage
  <2> QED BY <2>2, <2>4, InitOrderly, LifeIsStage
<1>2. Inv /\ [Next]_vars => Inv'
  BY NextInv
<1> QED BY <1>1, <1>2, SpecOrderly, MailIsBoxStep, PTL DEF Spec, IsAMailbox, Box!Spec

-----------------------------------------------------------------------------
(* Never silently.  What makes it inductive is why a turn may end without  *)
(* a word: its conversation is banter, or was told of the refused model    *)
(* before, or it was called off; and, before the socket has dropped once,  *)
(* the gateway is never joining.                                           *)

\* The messages nobody has to be told of: banter, what was called off, and
\* what is of a conversation that was told of the refused model.
Settled == excused \cup {m \in 1..sent : asked[m] \in refusalSaid}

Runs(S, m) == \E w \in BusyIn(S) : m \in MsgsOf(S.turns[w].batch)

Explained(S, e) ==
  /\ \A s \in BanterScopes : MsgsOf(S.queue[s]) \subseteq e
  /\ \A w \in BusyIn(S) :
       /\ S.turns[w].scope \in BanterScopes => MsgsOf(S.turns[w].batch) \subseteq e
       /\ S.turns[w].cancelled => MsgsOf(S.turns[w].batch) \subseteq S.told \cup e

Kept(S, n, e) == \A m \in 1..n : Waits(S, m) \/ Runs(S, m) \/ m \in S.told \cup e

LEMMA RefusedVoiced ==
  ASSUME NEW S, Sound(S), NEW e, Explained(S, e), NEW n
  PROVE  Explained(Refused(S), e) /\ (Kept(S, n, e) => Kept(Refused(S), n, e))
<1> DEFINE T == Refused(S)
<1>1. /\ T.turns = S.turns /\ BusyIn(T) = BusyIn(S) /\ \A s \in Scopes : T.queue[s] = <<>>
      /\ T.told = S.told \cup UNION {MsgsOf(S.queue[s]) : s \in Scopes \ BanterScopes}
  BY DEF Refused, BusyIn, Sound, Typed
<1>2. MsgsOf(<<>>) = {}
  BY DEF MsgsOf
<1> HIDE DEF T
<1>3. Explained(T, e)
  BY <1>1, <1>2, ScopesAssumption DEF Explained
<1>4. ASSUME Kept(S, n, e), NEW m \in 1..n
      PROVE  Waits(T, m) \/ Runs(T, m) \/ m \in T.told \cup e
  <2>1. CASE Waits(S, m)
    <3>1. PICK s \in Scopes : m \in MsgsOf(S.queue[s])
      BY <2>1 DEF Waits
    <3>2. CASE s \in BanterScopes
      BY <3>1, <3>2 DEF Explained
    <3>3. CASE s \notin BanterScopes
      BY <1>1, <3>1, <3>3
    <3> QED BY <3>2, <3>3
  <2>2. CASE Runs(S, m)
    BY <1>1, <2>2 DEF Runs
  <2>3. CASE m \in S.told \cup e
    BY <1>1, <2>3
  <2> QED BY <1>4, <2>1, <2>2, <2>3 DEF Kept
<1> QED BY <1>3, <1>4 DEF Kept, T

LEMMA StartsVoiced ==
  ASSUME NEW S, NEW T, Sound(S), Sound(T), Starts(S, T), NEW e, Explained(S, e), NEW n
  PROVE  Explained(T, e) /\ (Kept(S, n, e) => Kept(T, n, e))
<1>1. /\ \A s \in Scopes : S.queue[s] \in Seq(Msgs)
      /\ \A w \in BusyIn(T) : T.turns[w].scope \in Scopes
  BY DEF Sound, Typed, BusyIn, Turn
<1>2. \A s \in Scopes :
        MsgsOf(S.queue[s]) = MsgsOf(Batch(S.queue[s])) \cup MsgsOf(Rest(S.queue[s]))
  BY <1>1, BatchRestOrder
<1>3. T.told = S.told
  BY DEF Starts
<1>4. \A w \in BusyIn(S) : w \in BusyIn(T) /\ T.turns[w] = S.turns[w]
  BY DEF Starts, BusyIn
<1>5. \A w \in BusyIn(T) \ BusyIn(S) :
        /\ T.turns[w].batch = Batch(S.queue[T.turns[w].scope])
        /\ T.queue[T.turns[w].scope] = Rest(S.queue[T.turns[w].scope])
        /\ ~T.turns[w].cancelled
  BY DEF Starts
<1>6. \A s \in Scopes : \/ T.queue[s] = S.queue[s]
                        \/ \E w \in BusyIn(T) \ BusyIn(S) : T.turns[w].scope = s
  BY DEF Starts
<1>7. Explained(T, e)
  <2>1. \A s \in BanterScopes : MsgsOf(T.queue[s]) \subseteq e
    <3>1. \A s \in Scopes : MsgsOf(T.queue[s]) \subseteq MsgsOf(S.queue[s])
      BY <1>2, <1>5, <1>6
    <3> QED BY <3>1, ScopesAssumption DEF Explained
  <2>2. ASSUME NEW w \in BusyIn(T)
        PROVE  /\ T.turns[w].scope \in BanterScopes => MsgsOf(T.turns[w].batch) \subseteq e
               /\ T.turns[w].cancelled => MsgsOf(T.turns[w].batch) \subseteq T.told \cup e
    <3>1. CASE w \in BusyIn(S)
      BY <1>3, <1>4, <3>1 DEF Explained
    <3>2. CASE w \notin BusyIn(S)
      BY <1>1, <1>2, <1>5, <3>2 DEF Explained
    <3> QED BY <3>1, <3>2
  <2> QED BY <2>1, <2>2 DEF Explained
<1>8. ASSUME Kept(S, n, e), NEW m \in 1..n
      PROVE  Waits(T, m) \/ Runs(T, m) \/ m \in T.told \cup e
  <2>1. CASE Waits(S, m)
    <3>1. PICK s \in Scopes : m \in MsgsOf(S.queue[s])
      BY <2>1 DEF Waits
    <3>2. CASE T.queue[s] = S.queue[s]
      BY <3>1, <3>2 DEF Waits
    <3>3. CASE \E w \in BusyIn(T) \ BusyIn(S) : T.turns[w].scope = s
      <4>1. PICK w \in BusyIn(T) \ BusyIn(S) : T.turns[w].scope = s
        BY <3>3
      <4>2. m \in MsgsOf(T.turns[w].batch) \/ m \in MsgsOf(T.queue[s])
        BY <1>2, <1>5, <3>1, <4>1
      <4> QED BY <4>1, <4>2 DEF Waits, Runs
    <3> QED BY <1>6, <3>2, <3>3
  <2>2. CASE Runs(S, m)
    BY <1>4, <2>2 DEF Runs
  <2>3. CASE m \in S.told \cup e
    BY <1>3, <2>3
  <2> QED BY <1>8, <2>1, <2>2, <2>3 DEF Kept
<1> QED BY <1>7, <1>8 DEF Kept

LEMMA DrainedVoiced ==
  ASSUME NEW S, Sound(S), NEW D \in Drained(S), NEW e, Explained(S, e), NEW n
  PROVE  Explained(D, e) /\ (Kept(S, n, e) => Kept(D, n, e))
<1>1. CASE D = S
  BY <1>1
<1>2. CASE D = Refused(S)
  BY <1>2, RefusedVoiced
<1>3. CASE \E c \in Claims(S) : D = Started(S, c)
  BY <1>3, StartedStarts, StartedSound, StartsVoiced
<1> QED BY <1>1, <1>2, <1>3 DEF Drained

\* A turn that ends: what it held was explained, or waits again.
LEMMA ClosedVoiced ==
  ASSUME NEW S, Sound(S), NEW w \in Workers, S.turns[w] # NoTurn, NEW r \in BOOLEAN,
         NEW e, Explained(S, e), NEW n
  PROVE  /\ Explained(Closed(w, S, r), e)
         /\ MsgsOf(S.turns[w].batch) \subseteq S.told \cup e /\ Kept(S, n, e)
              => Kept(Closed(w, S, r), n, e)
<1> DEFINE C == Closed(w, S, r)
<1>1. C.turns = [S.turns EXCEPT ![w] = NoTurn] /\ C.queue = S.queue /\ C.told = S.told
  BY DEF Closed, Sound, Typed
<1> HIDE DEF C
<1>2. BusyIn(C) = BusyIn(S) \ {w} /\ \A v \in BusyIn(C) : C.turns[v] = S.turns[v]
  BY <1>1 DEF BusyIn, Sound, Typed
<1>3. Explained(C, e)
  BY <1>1, <1>2 DEF Explained
<1>4. MsgsOf(S.turns[w].batch) \subseteq S.told \cup e /\ Kept(S, n, e) => Kept(C, n, e)
  BY <1>1, <1>2 DEF Kept, Waits, Runs
<1> QED BY <1>3, <1>4 DEF C

\* A step that marks turns and lets queues go, and says or excuses what it
\* marks and lets go.
LEMMA MarkedVoiced ==
  ASSUME NEW S, NEW T, NEW e, NEW f, NEW n, Explained(S, e), e \subseteq f,
         S.told \subseteq T.told, BusyIn(T) = BusyIn(S),
         \A s \in Scopes : \/ T.queue[s] = S.queue[s]
                           \/ T.queue[s] = <<>> /\ MsgsOf(S.queue[s]) \subseteq f,
         \A w \in BusyIn(S) :
           /\ T.turns[w].scope = S.turns[w].scope
           /\ T.turns[w].batch = S.turns[w].batch
           /\ T.turns[w].cancelled =>
                S.turns[w].cancelled \/ MsgsOf(S.turns[w].batch) \subseteq T.told \cup f
  PROVE  Explained(T, f) /\ (Kept(S, n, e) => Kept(T, n, f))
<1>1. MsgsOf(<<>>) = {}
  BY DEF MsgsOf
<1>2. \A s \in BanterScopes : MsgsOf(T.queue[s]) \subseteq f
  BY <1>1, ScopesAssumption DEF Explained
<1>3. ASSUME NEW w \in BusyIn(T)
      PROVE  /\ T.turns[w].scope \in BanterScopes => MsgsOf(T.turns[w].batch) \subseteq f
             /\ T.turns[w].cancelled => MsgsOf(T.turns[w].batch) \subseteq T.told \cup f
  BY DEF Explained
<1>4. ASSUME Kept(S, n, e), NEW m \in 1..n
      PROVE  Waits(T, m) \/ Runs(T, m) \/ m \in T.told \cup f
  <2>1. CASE Waits(S, m)
    BY <2>1 DEF Waits
  <2>2. CASE Runs(S, m)
    BY <2>2 DEF Runs
  <2> QED BY <1>4, <2>1, <2>2 DEF Kept
<1> QED BY <1>2, <1>3, <1>4 DEF Explained, Kept

\* Before the first drop the gateway is up, and drops only count down.
Undropped == left["drop"] = Limit["drop"]
Connected == left["drop"] <= Limit["drop"] /\ (Undropped => gw = "up")

LEMMA DropCount ==
  ASSUME Inv, Connected, [Next]_vars
  PROVE  Connected' /\ (Undropped' => Undropped) /\ (~stopping' => ~stopping)
<1>1. /\ left \in [Disturbances -> Nat] /\ left["drop"] \in Nat /\ Limit["drop"] \in Nat
  BY BoundAssumption, DisturbancesAre DEF Inv, Bookkeeping
<1>2. CASE UNCHANGED <<gw, stopping>> /\ (left' = left \/ \E k \in Disturbances \ {"drop"} : Spend(k))
  <2>1. left'["drop"] = left["drop"]
    BY <1>1, <1>2, DisturbancesAre DEF Spend
  <2> QED BY <1>2, <2>1 DEF Connected, Undropped
<1>3. CASE Drop
  <2>1. left'["drop"] = left["drop"] - 1 /\ stopping' = stopping
    BY <1>1, <1>3, DisturbancesAre DEF Drop, Spend
  <2> QED BY <1>1, <2>1 DEF Connected, Undropped
<1>4. CASE Redial \/ Rejoined
  BY <1>4 DEF Redial, Rejoined, Connected, Undropped
<1>5. CASE Stop
  <2>1. left'["drop"] = left["drop"] /\ gw' = gw /\ ~stopping
    BY <1>1, <1>5, DisturbancesAre DEF Stop, Spend
  <2> QED BY <2>1 DEF Connected, Undropped
<1>6. CASE \E s \in Scopes : Enqueue(s) \/ Cancel(s)
  BY <1>2, <1>6 DEF Enqueue, Cancel, Disturbances
<1>7. CASE \E w \in Workers : TurnStep(w)
  BY <1>2, <1>7, ZenonT(30) DEF TurnStep, Begin, BeginNothing, BeginFails, Opened, OpenFails, Prompt,
     Answer, PromptFails, Stall, Unchanged1, Disturbances, TurnFails
<1>8. CASE \E w \in Workers : WorkerStep(w)
  BY <1>2, <1>8 DEF WorkerStep, StartOk, StartFails, Crash, Unchanged2, Disturbances
<1>9. CASE Reload \/ UNCHANGED vars
  BY <1>2, <1>9 DEF Reload, vars, Unchanged2, Disturbances
<1> QED BY <1>3, <1>4, <1>5, <1>6, <1>7, <1>8, <1>9 DEF Next

VoiceStep ==
  /\ Explained(Now', Settled')
  /\ Undropped /\ Kept(Now, sent, Settled) => Kept(Now', sent', Settled')

LEMMA Widened ==
  ASSUME NEW S, NEW e, NEW f, e \subseteq f, NEW n
  PROVE  (Explained(S, e) => Explained(S, f)) /\ (Kept(S, n, e) => Kept(S, n, f))
BY DEF Explained, Kept

LEMMA VoicedOn ==
  ASSUME sent' = sent, Settled \subseteq Settled', Explained(Now', Settled),
         Undropped /\ Kept(Now, sent, Settled) => Kept(Now', sent, Settled)
  PROVE  VoiceStep
<1>1. Explained(Now', Settled')
  BY Widened
<1>2. Kept(Now', sent, Settled) => Kept(Now', sent, Settled')
  BY Widened
<1> QED BY <1>1, <1>2 DEF VoiceStep

\* Nobody is untold of a refusal, or asked for again.
LEMMA GhostsGrow ==
  ASSUME Inv, [Next]_vars
  PROVE  /\ excused \subseteq excused' /\ refusalSaid \subseteq refusalSaid'
         /\ sent \in Nat /\ sent' \in Nat /\ sent <= sent'
         /\ \A m \in 1..sent : asked'[m] = asked[m]
<1>1. sent \in Nat /\ asked \in Seq(Scopes) /\ Len(asked) = sent
  BY DEF Inv, Bookkeeping
<1>2. ASSUME NEW s \in Scopes, Enqueue(s)
      PROVE  /\ excused \subseteq excused' /\ refusalSaid' = refusalSaid /\ sent' = sent + 1
             /\ \A m \in 1..sent : asked'[m] = asked[m]
  <2>1. excused \subseteq excused' /\ refusalSaid' = refusalSaid /\ sent' = sent + 1
    BY <1>2 DEF Enqueue
  <2>2. asked' = Append(asked, s)
    BY <1>2 DEF Enqueue
  <2>3. \A m \in 1..sent : asked'[m] = asked[m]
    BY <1>1, <2>2, AppendProperties
  <2> QED BY <2>1, <2>3
<1>3. ASSUME NEW s \in Scopes, Cancel(s)
      PROVE  excused \subseteq excused' /\ UNCHANGED <<refusalSaid, sent, asked>>
  BY <1>3 DEF Cancel
<1>4. ASSUME NEW w \in Workers, TurnStep(w)
      PROVE  refusalSaid \subseteq refusalSaid' /\ UNCHANGED <<excused, sent, asked>>
  BY <1>4 DEF TurnStep, Begin, BeginNothing, BeginFails, Opened, OpenFails, Prompt, Answer,
     PromptFails, Stall, Unchanged1, TurnFails
<1>5. CASE \/ \E w \in Workers : WorkerStep(w)
           \/ Reload \/ Drop \/ Redial \/ Rejoined \/ Stop \/ UNCHANGED vars
  <2>1. UNCHANGED <<excused, refusalSaid, sent, asked>>
    BY <1>5 DEF WorkerStep, StartOk, StartFails, Crash, Reload, Drop, Redial, Rejoined, Stop,
       vars, Unchanged2
  <2> QED BY <1>1, <2>1
<1> QED BY <1>1, <1>2, <1>3, <1>4, <1>5 DEF Next

LEMMA SettledGrows ==
  ASSUME Inv, [Next]_vars
  PROVE  Settled \subseteq Settled'
BY GhostsGrow DEF Settled

LEMMA HeldWasAsked ==
  ASSUME Inv, Orderly(Now, asked), NEW w \in Workers, turns[w] # NoTurn,
         NEW m \in MsgsOf(turns[w].batch)
  PROVE  m \in 1..sent /\ asked[m] = turns[w].scope
<1>1. turns[w].scope \in Scopes /\ m \in Msgs /\ m \in Nat
  BY TurnFields, MsgsOfType DEF Turn, Msgs
<1>2. Has(Now, turns[w].scope, m)
  BY DEF Has, BusyIn, Now
<1>3. m <= Len(asked) /\ asked[m] = turns[w].scope
  BY <1>1, <1>2 DEF Orderly, Apart
<1> QED BY <1>1, <1>3 DEF Msgs, Inv, Bookkeeping

LEMMA TurnEndsVoiced ==
  ASSUME NEW S, Sound(S), NEW w \in Workers, S.turns[w] # NoTurn, NEW r \in BOOLEAN,
         TurnEnds(w, S, r), NEW e, Explained(Closed(w, S, r), e), NEW n
  PROVE  Explained(Now', e) /\ (Kept(Closed(w, S, r), n, e) => Kept(Now', n, e))
<1>1. PICK D \in Drained(Closed(w, S, r)) : Become(D)
  BY DEF TurnEnds
<1>2. Sound(Closed(w, S, r)) /\ Sound(D)
  BY <1>1, ClosedSound, DrainedSound
<1>3. Now' = D
  BY <1>1, <1>2, BecomeNow
<1> QED BY <1>1, <1>2, <1>3, DrainedVoiced

\* A turn that ends as it is: it was banter or called off or told of the
\* refusal before, or the gateway is joining.
LEMMA EndsNowVoiced ==
  ASSUME Inv, Explained(Now, Settled), sent' = sent, Settled \subseteq Settled', NEW w \in Workers,
         turns[w] # NoTurn, TurnEnds(w, Now, FALSE),
         Undropped => \/ turns[w].scope \in BanterScopes \/ turns[w].cancelled
                      \/ MsgsOf(turns[w].batch) \subseteq Settled
  PROVE  VoiceStep
<1>1. Now.turns = turns /\ Now.told = told /\ Now.turns[w] # NoTurn /\ Sound(Now) /\ w \in BusyIn(Now)
  BY DEF Now, Inv, BusyIn
<1>2. Undropped => MsgsOf(turns[w].batch) \subseteq told \cup Settled
  BY <1>1 DEF Explained
<1>3. /\ Explained(Closed(w, Now, FALSE), Settled)
      /\ Undropped /\ Kept(Now, sent, Settled) => Kept(Closed(w, Now, FALSE), sent, Settled)
  BY <1>1, <1>2, ClosedVoiced
<1>4. Explained(Now', Settled) /\ (Kept(Closed(w, Now, FALSE), sent, Settled) => Kept(Now', sent, Settled))
  BY <1>1, <1>3, TurnEndsVoiced
<1> QED BY <1>3, <1>4, VoicedOn

LEMMA EndsSaidVoiced ==
  ASSUME Inv, Explained(Now, Settled), sent' = sent, Settled \subseteq Settled', NEW w \in Workers,
         turns[w] # NoTurn, TurnEnds(w, Said(Now, turns[w].batch), FALSE)
  PROVE  VoiceStep
<1> DEFINE S == Said(Now, turns[w].batch)
<1>1. Sound(S) /\ S.turns[w] # NoTurn /\ S.turns = turns
  BY SaidSound DEF Said, Now
<1>2. /\ S.told = told \cup MsgsOf(turns[w].batch) /\ S.queue = Now.queue
      /\ BusyIn(S) = BusyIn(Now) /\ Now.told = told /\ Now.turns = turns
  BY DEF Said, Now, BusyIn
<1> HIDE DEF S
<1>3. Explained(S, Settled) /\ (Kept(Now, sent, Settled) => Kept(S, sent, Settled))
  BY <1>1, <1>2, MarkedVoiced
<1>4. /\ Explained(Closed(w, S, FALSE), Settled)
      /\ Kept(S, sent, Settled) => Kept(Closed(w, S, FALSE), sent, Settled)
  BY <1>1, <1>2, <1>3, ClosedVoiced
<1>5. TurnEnds(w, S, FALSE)
  BY DEF S
<1>6. Explained(Now', Settled) /\ (Kept(Closed(w, S, FALSE), sent, Settled) => Kept(Now', sent, Settled))
  BY <1>1, <1>4, <1>5, TurnEndsVoiced
<1> QED BY <1>3, <1>4, <1>6, VoicedOn

LEMMA PutBackVoiced ==
  ASSUME Inv, Explained(Now, Settled), sent' = sent, Settled \subseteq Settled', NEW w \in Workers,
         turns[w] # NoTurn, turns[w].scope \notin BanterScopes,
         NEW S, Sound(S), S.turns = turns, S.told = told, TurnEnds(w, S, TRUE),
         S.queue = [queue EXCEPT ![turns[w].scope] = PutBack(turns[w].batch, @)]
  PROVE  VoiceStep
<1> DEFINE C == Closed(w, S, TRUE)
           u == turns[w].scope
           b == turns[w].batch
<1>1. /\ queue \in [Scopes -> Seq(Msgs)] /\ turns \in [Workers -> Turn \cup {NoTurn}]
      /\ u \in Scopes /\ b \in Seq(Msgs) /\ queue[u] \in Seq(Msgs)
  BY NowTyped DEF Inv, Turn
<1>2. /\ C.turns = [turns EXCEPT ![w] = NoTurn] /\ C.told = told
      /\ C.queue = [queue EXCEPT ![u] = b \o queue[u]]
  BY DEF Closed, PutBack
<1> HIDE DEF C
<1>3. /\ Now.turns = turns /\ Now.queue = queue /\ Now.told = told
      /\ BusyIn(C) = BusyIn(Now) \ {w} /\ \A v \in BusyIn(C) : C.turns[v] = turns[v]
  BY <1>1, <1>2 DEF BusyIn, Now
<1>4. /\ C.queue[u] = b \o queue[u] /\ \A s \in Scopes \ {u} : C.queue[s] = queue[s]
      /\ MsgsOf(b \o queue[u]) = MsgsOf(b) \cup MsgsOf(queue[u])
  BY <1>1, <1>2, ConcatOrder
<1>5. Explained(C, Settled)
  BY <1>2, <1>3, <1>4, ScopesAssumption DEF Explained
<1>6. ASSUME Kept(Now, sent, Settled), NEW m \in 1..sent
      PROVE  Waits(C, m) \/ Runs(C, m) \/ m \in C.told \cup Settled
  <2>1. CASE Waits(Now, m)
    BY <1>1, <1>3, <1>4, <2>1 DEF Waits
  <2>2. CASE Runs(Now, m)
    BY <1>1, <1>3, <1>4, <2>2 DEF Runs, Waits
  <2> QED BY <1>2, <1>3, <1>6, <2>1, <2>2 DEF Kept
<1>7. Kept(Now, sent, Settled) => Kept(C, sent, Settled)
  BY <1>6 DEF Kept
<1>8. Explained(Now', Settled) /\ (Kept(C, sent, Settled) => Kept(Now', sent, Settled))
  BY <1>5, TurnEndsVoiced DEF C
<1> QED BY <1>7, <1>8, VoicedOn

LEMMA TurnFailsVoiced ==
  ASSUME Inv, Orderly(Now, asked), ~stopping, Explained(Now, Settled), sent' = sent, Settled \subseteq Settled',
         NEW w \in Workers, turns[w] # NoTurn, NEW r \in BOOLEAN, TurnFails(w, r)
  PROVE  VoiceStep
<1>1. CASE /\ turns[w].scope \in BanterScopes \/ turns[w].cancelled
           /\ TurnEnds(w, Now, FALSE)
  BY <1>1, EndsNowVoiced
<1>2. CASE TurnEnds(w, Said(Now, turns[w].batch), FALSE)
  BY <1>2, EndsSaidVoiced
<1>3. CASE turns[w].scope \notin BanterScopes /\ TurnEnds(w, Retried(w), TRUE)
  <2> DEFINE S == Retried(w)
  <2>1. /\ Sound(S) /\ S.turns = turns /\ S.told = told
        /\ S.queue = [queue EXCEPT ![turns[w].scope] = PutBack(turns[w].batch, @)]
    BY RetriedSound
  <2>2. TurnEnds(w, S, TRUE)
    BY <1>3
  <2> HIDE DEF S
  <2> QED BY <1>3, <2>1, <2>2, PutBackVoiced
<1>4. CASE turns[w].scope \in refusalSaid /\ TurnEnds(w, Now, FALSE)
  <2>1. MsgsOf(turns[w].batch) \subseteq Settled
    BY <1>4, HeldWasAsked DEF Settled
  <2> QED BY <1>4, <2>1, EndsNowVoiced
<1> QED BY <1>1, <1>2, <1>3, <1>4, TurnFailsHow

LEMMA EnqueueVoiced ==
  ASSUME Inv, Explained(Now, Settled), NEW s \in Scopes, Enqueue(s),
         Settled \subseteq Settled'
  PROVE  VoiceStep
<1> DEFINE q == [queue EXCEPT ![s] = Append(@, sent + 1)]
           S == Arrived(s)
<1>1. sent \in Nat /\ sent + 1 \in Msgs /\ sent' = sent + 1
  BY ArrivedSound
<1>2. queue[s] \in Seq(Msgs) /\ queue \in [Scopes -> Seq(Msgs)]
  BY NowTyped DEF Inv
<1>3. Sound(S) /\ S.queue = q /\ S.turns = turns /\ S.told = told
  BY ArrivedSound
<1>4. PICK D \in Drained(S) : Become(D)
  BY ArrivedSound
<1> HIDE DEF S
<1>5. /\ S.queue = q /\ S.turns = turns /\ S.told = told
      /\ Now.queue = queue /\ Now.turns = turns /\ Now.told = told
      /\ BusyIn(S) = BusyIn(Now)
  BY <1>3 DEF Now, BusyIn
<1>6. /\ q[s] = Append(queue[s], sent + 1) /\ \A u \in Scopes \ {s} : q[u] = queue[u]
  BY <1>2
<1> HIDE DEF q, S
<1>7. MsgsOf(q[s]) = MsgsOf(queue[s]) \cup {sent + 1}
  <2>1. <<sent + 1>> \in Seq(Msgs) /\ q[s] = queue[s] \o <<sent + 1>>
    BY <1>1, <1>2, <1>6, AppendIsConcat
  <2>2. MsgsOf(<<sent + 1>>) = {sent + 1}
    BY DEF MsgsOf
  <2> QED BY <1>2, <2>1, <2>2, ConcatOrder
<1>8. Settled \subseteq Settled' /\ (s \in BanterScopes => sent + 1 \in Settled')
  BY DEF Enqueue, Settled
<1>9. Explained(S, Settled')
  <2>1. \A u \in BanterScopes : MsgsOf(q[u]) \subseteq Settled'
    BY <1>5, <1>6, <1>7, <1>8, ScopesAssumption DEF Explained
  <2> QED BY <1>5, <1>8, <2>1 DEF Explained
<1>10. ASSUME Kept(Now, sent, Settled), NEW m \in 1..(sent + 1)
       PROVE  Waits(S, m) \/ Runs(S, m) \/ m \in S.told \cup Settled'
  <2>1. CASE m = sent + 1
    BY <1>5, <1>7, <2>1 DEF Waits
  <2>2. CASE m # sent + 1
    <3>1. m \in 1..sent
      BY <1>1, <2>2
    <3>2. CASE Waits(Now, m)
      BY <1>5, <1>6, <1>7, <3>2 DEF Waits
    <3>3. CASE Runs(Now, m)
      BY <1>5, <3>3 DEF Runs
    <3>4. CASE m \in told \cup Settled
      BY <1>5, <1>8, <3>4
    <3> QED BY <1>5, <1>10, <3>1, <3>2, <3>3, <3>4 DEF Kept
  <2> QED BY <2>1, <2>2
<1>11. Kept(Now, sent, Settled) => Kept(S, sent', Settled')
  BY <1>1, <1>10 DEF Kept
<1>12. Now' = D /\ Sound(D)
  BY <1>3, <1>4, DrainedSound, BecomeNow
<1> QED BY <1>3, <1>4, <1>9, <1>11, <1>12, DrainedVoiced DEF VoiceStep

\* Turns marked in place and queues let go, of the variables.
LEMMA InPlaceVoiced ==
  ASSUME Inv, Explained(Now, Settled), sent' = sent, Settled \subseteq Settled',
         told \subseteq told',
         \A s \in Scopes : \/ queue'[s] = queue[s]
                           \/ queue'[s] = <<>> /\ MsgsOf(queue[s]) \subseteq Settled',
         \A w \in Workers :
           /\ turns'[w] = NoTurn <=> turns[w] = NoTurn
           /\ turns[w] # NoTurn =>
                /\ turns'[w].scope = turns[w].scope
                /\ turns'[w].batch = turns[w].batch
                /\ turns'[w].cancelled =>
                     \/ turns[w].cancelled
                     \/ MsgsOf(turns[w].batch) \subseteq told' \cup Settled'
  PROVE  VoiceStep
<1>1. /\ Now.turns = turns /\ Now'.turns = turns' /\ Now.queue = queue /\ Now'.queue = queue'
      /\ Now.told = told /\ Now'.told = told'
  BY DEF Now
<1>2. BusyIn(Now') = BusyIn(Now) /\ \A w \in BusyIn(Now) : w \in Workers /\ turns[w] # NoTurn
  BY <1>1 DEF BusyIn
<1>3. Explained(Now', Settled') /\ (Kept(Now, sent, Settled) => Kept(Now', sent, Settled'))
  <2>1. /\ Explained(Now, Settled) /\ Settled \subseteq Settled' /\ Now.told \subseteq Now'.told
        /\ BusyIn(Now') = BusyIn(Now)
    BY <1>1, <1>2
  <2>2. \A s \in Scopes : \/ Now'.queue[s] = Now.queue[s]
                          \/ Now'.queue[s] = <<>> /\ MsgsOf(Now.queue[s]) \subseteq Settled'
    <3> TAKE s \in Scopes
    <3>1. queue'[s] = queue[s] \/ (queue'[s] = <<>> /\ MsgsOf(queue[s]) \subseteq Settled')
      OBVIOUS
    <3>2. Now.queue[s] = queue[s] /\ Now'.queue[s] = queue'[s]
      BY <1>1
    <3> QED BY <3>1, <3>2
  <2>3. \A w \in BusyIn(Now) :
          /\ Now'.turns[w].scope = Now.turns[w].scope
          /\ Now'.turns[w].batch = Now.turns[w].batch
          /\ Now'.turns[w].cancelled =>
               Now.turns[w].cancelled \/ MsgsOf(Now.turns[w].batch) \subseteq Now'.told \cup Settled'
    <3> TAKE w \in BusyIn(Now)
    <3>1. w \in Workers /\ turns[w] # NoTurn
      BY <1>2
    <3>2. /\ turns'[w].scope = turns[w].scope /\ turns'[w].batch = turns[w].batch
          /\ turns'[w].cancelled =>
               turns[w].cancelled \/ MsgsOf(turns[w].batch) \subseteq told' \cup Settled'
      BY <3>1
    <3> QED BY <1>1, <3>2
  <2> QED BY <2>1, <2>2, <2>3, MarkedVoiced
<1> QED BY <1>3 DEF VoiceStep

LEMMA TurnVoiced ==
  ASSUME Inv, Explained(Now, Settled), sent' = sent, Settled \subseteq Settled',
         told \subseteq told', queue' = queue,
         NEW w \in Workers, turns[w] # NoTurn, NEW t \in Turn,
         t.scope = turns[w].scope, t.batch = turns[w].batch,
         t.cancelled => turns[w].cancelled \/ MsgsOf(turns[w].batch) \subseteq told' \cup Settled,
         turns' = [turns EXCEPT ![w] = t]
  PROVE  VoiceStep
<1>1. turns \in [Workers -> Turn \cup {NoTurn}]
  BY NowTyped DEF Inv
<1>2. \A v \in Workers :
        /\ turns'[v] = NoTurn <=> turns[v] = NoTurn
        /\ turns[v] # NoTurn =>
             /\ turns'[v].scope = turns[v].scope
             /\ turns'[v].batch = turns[v].batch
             /\ turns'[v].cancelled =>
                  \/ turns[v].cancelled
                  \/ MsgsOf(turns[v].batch) \subseteq told' \cup Settled'
  BY <1>1, NoTurnAssumption
<1> QED BY <1>2, InPlaceVoiced

LEMMA TurnStepVoiced ==
  ASSUME Inv, Orderly(Now, asked), ~stopping, Connected, Explained(Now, Settled),
         Settled \subseteq Settled', NEW w \in Workers, TurnStep(w)
  PROVE  VoiceStep
<1>1. refused \in BOOLEAN
  BY DEF Inv, Bookkeeping
<1>2. CASE Begin(w)
  <2> DEFINE t == [turns[w] EXCEPT !.phase = "opening"]
  <2>1. turns[w] \in Turn
    BY <1>2, TurnFields DEF Begin
  <2>2. /\ t \in Turn /\ t.scope = turns[w].scope /\ t.batch = turns[w].batch
        /\ t.cancelled = turns[w].cancelled
    BY <2>1 DEF Turn, Phases
  <2> QED BY <1>2, <2>2, TurnVoiced DEF Begin, Unchanged1
<1>3. CASE BeginNothing(w)
  <2>1. Undropped => turns[w].scope \in BanterScopes
    BY <1>3 DEF BeginNothing, Connected
  <2> QED BY <1>3, <2>1, EndsNowVoiced DEF BeginNothing, Unchanged1
<1>4. CASE BeginFails(w) \/ OpenFails(w) \/ PromptFails(w)
  <2>1. PICK r \in BOOLEAN : TurnFails(w, r)
    BY <1>1, <1>4 DEF BeginFails, OpenFails, PromptFails
  <2> QED BY <1>4, <2>1, TurnFailsVoiced DEF BeginFails, OpenFails, PromptFails, Unchanged1
<1>5. CASE Opened(w)
  <2>1. CASE turns[w].cancelled /\ TurnEnds(w, Now, FALSE)
    BY <1>5, <2>1, EndsNowVoiced DEF Opened, Unchanged1
  <2>2. CASE turns' = [turns EXCEPT ![w].phase = "priming"] /\ UNCHANGED <<queue, told>>
    <3> DEFINE t == [turns[w] EXCEPT !.phase = "priming"]
    <3>1. turns[w] \in Turn
      BY <1>5, TurnFields DEF Opened
    <3>2. /\ t \in Turn /\ t.scope = turns[w].scope /\ t.batch = turns[w].batch
          /\ t.cancelled = turns[w].cancelled
      BY <3>1 DEF Turn, Phases
    <3> QED BY <1>5, <2>2, <3>2, TurnVoiced DEF Opened, Unchanged1
  <2> QED BY <1>5, <2>1, <2>2 DEF Opened
<1>6. CASE Prompt(w)
  <2> DEFINE t == [turns[w] EXCEPT !.phase = "prompted", !.prompted = TRUE]
  <2>1. turns[w] \in Turn
    BY <1>6, TurnFields DEF Prompt
  <2>2. /\ t \in Turn /\ t.scope = turns[w].scope /\ t.batch = turns[w].batch
        /\ t.cancelled = turns[w].cancelled
    BY <2>1 DEF Turn, Phases
  <2>3. turns' = [turns EXCEPT ![w] = t]
    BY <1>6, NowTyped DEF Prompt, Inv
  <2> QED BY <1>6, <2>2, <2>3, TurnVoiced DEF Prompt, Unchanged1
<1>7. CASE Answer(w)
  BY <1>7, EndsSaidVoiced DEF Answer, Unchanged1
<1>8. CASE Stall(w)
  <2> DEFINE t == [turns[w] EXCEPT !.cancelled = TRUE, !.stopSent = TRUE]
  <2>1. turns[w] \in Turn /\ turns[w] # NoTurn
    BY <1>8, TurnFields DEF Stall
  <2>2. t \in Turn /\ t.scope = turns[w].scope /\ t.batch = turns[w].batch
    BY <2>1 DEF Turn
  <2>3. turns' = [turns EXCEPT ![w] = t]
    BY <1>8, NowTyped DEF Stall, Inv
  <2>4. told \subseteq told' /\ MsgsOf(turns[w].batch) \subseteq told' \cup Settled
    <3>1. w \in BusyIn(Now) /\ Now.turns = turns
      BY <2>1 DEF BusyIn, Now
    <3> QED BY <1>8, <3>1 DEF Stall, Explained
  <2> QED BY <1>8, <2>1, <2>2, <2>3, <2>4, TurnVoiced DEF Stall, Unchanged1
<1> QED BY <1>2, <1>3, <1>4, <1>5, <1>6, <1>7, <1>8 DEF TurnStep

\* A picture with the same turns and queues, then drained or not.
LEMMA SameThenDrainedVoiced ==
  ASSUME Inv, Explained(Now, Settled), sent' = sent, Settled \subseteq Settled', NEW S, Sound(S),
         S.queue = queue, S.told = told, BusyIn(S) = BusyIn(Now),
         \A w \in BusyIn(Now) : /\ S.turns[w].scope = turns[w].scope
                                /\ S.turns[w].batch = turns[w].batch
                                /\ S.turns[w].cancelled = turns[w].cancelled,
         \/ Become(S) \/ Become(NotedIfNothingLeft(S))
         \/ \E D \in Drained(S) : Become(D)
         \/ \E D \in Drained(NotedIfNothingLeft(S)) : Become(D)
  PROVE  VoiceStep
<1> DEFINE Voiced(T) == Explained(T, Settled) /\ (Kept(Now, sent, Settled) => Kept(T, sent, Settled))
<1>1. Voiced(S)
  <2>1. Now.queue = queue /\ Now.turns = turns /\ Now.told = told
    BY DEF Now
  <2> QED BY <2>1, MarkedVoiced
<1>2. Sound(NotedIfNothingLeft(S)) /\ Voiced(NotedIfNothingLeft(S))
  BY <1>1, RefusedVoiced, RefusedSound DEF NotedIfNothingLeft
<1>3. PICK T : Sound(T) /\ Voiced(T) /\ Become(T)
  <2>1. CASE Become(S)
    BY <1>1, <2>1
  <2>2. CASE Become(NotedIfNothingLeft(S))
    BY <1>2, <2>2
  <2>3. CASE \E D \in Drained(S) : Become(D)
    BY <1>1, <2>3, DrainedSound, DrainedVoiced
  <2>4. CASE \E D \in Drained(NotedIfNothingLeft(S)) : Become(D)
    BY <1>2, <2>4, DrainedSound, DrainedVoiced
  <2> QED BY <2>1, <2>2, <2>3, <2>4
<1>4. Now' = T
  BY <1>3, BecomeNow
<1> QED BY <1>3, <1>4, VoicedOn

LEMMA WorkerStepVoiced ==
  ASSUME Inv, Explained(Now, Settled), Settled \subseteq Settled', NEW w \in Workers,
         WorkerStep(w)
  PROVE  VoiceStep
<1>1. CASE StartOk(w)
  <2> DEFINE S == [Now EXCEPT !.status = [status EXCEPT ![w] = "up"]]
  <2>1. Sound(S)
    BY <1>1, OneLifeSound DEF StartOk
  <2>2. S.queue = queue /\ S.told = told /\ BusyIn(S) = BusyIn(Now) /\ S.turns = turns
    BY DEF Now, BusyIn
  <2>3. Become(S) \/ \E D \in Drained(S) : Become(D)
    BY <1>1 DEF StartOk
  <2> HIDE DEF S
  <2> QED BY <1>1, <2>1, <2>2, <2>3, SameThenDrainedVoiced DEF StartOk, Unchanged2
<1>2. CASE StartFails(w)
  <2> DEFINE S == [Now EXCEPT !.status = [status EXCEPT ![w] = "dead"]]
  <2>1. Sound(S)
    BY <1>2, OneLifeSound DEF StartFails
  <2>2. S.queue = queue /\ S.told = told /\ BusyIn(S) = BusyIn(Now) /\ S.turns = turns
    BY DEF Now, BusyIn
  <2>3. Become(S) \/ \E D \in Drained(NotedIfNothingLeft(S)) : Become(D)
    BY <1>2 DEF StartFails
  <2> HIDE DEF S
  <2> QED BY <1>2, <2>1, <2>2, <2>3, SameThenDrainedVoiced DEF StartFails, Unchanged2
<1>3. CASE Crash(w)
  <2> DEFINE broken == IF turns[w] # NoTurn /\ turns[w].phase # "starting"
                       THEN [turns EXCEPT ![w].lost = TRUE] ELSE turns
             again == [status EXCEPT ![w] = "starting"]
             gone == [status EXCEPT ![w] = "dead"]
  <2>1. /\ broken \in [Workers -> Turn \cup {NoTurn}]
        /\ \A v \in Workers :
             /\ broken[v] = NoTurn <=> turns[v] = NoTurn
             /\ turns[v] # NoTurn => /\ broken[v].scope = turns[v].scope
                                     /\ broken[v].batch = turns[v].batch
                                     /\ broken[v].cancelled = turns[v].cancelled
    <3>1. CASE turns[w] = NoTurn
      BY <3>1, NowTyped DEF Inv
    <3>2. CASE turns[w] # NoTurn
      <4> DEFINE t == [turns[w] EXCEPT !.lost = TRUE]
      <4>1. turns[w] \in Turn
        BY <3>2, TurnFields
      <4>2. /\ t \in Turn /\ t.scope = turns[w].scope /\ t.batch = turns[w].batch
            /\ t.cancelled = turns[w].cancelled
        BY <4>1 DEF Turn
      <4> QED BY <4>2, NowTyped, NoTurnAssumption DEF Inv
    <3> QED BY <3>1, <3>2
  <2>2. /\ again \in [Workers -> {"unmade", "starting", "up", "dead"}]
        /\ gone \in [Workers -> {"unmade", "starting", "up", "dead"}]
        /\ \A v \in Workers : /\ again[v] = "unmade" => status[v] = "unmade"
                              /\ gone[v] = "unmade" => status[v] = "unmade"
    BY <1>3, NowTyped DEF Inv, Crash
  <2>3. \/ Become([Now EXCEPT !.status = again, !.turns = broken])
        \/ Become(NotedIfNothingLeft([Now EXCEPT !.status = gone, !.turns = broken]))
    BY <1>3 DEF Crash
  <2> HIDE DEF broken, again, gone
  <2>4. ASSUME NEW st \in {again, gone},
               \/ Become([Now EXCEPT !.status = st, !.turns = broken])
               \/ Become(NotedIfNothingLeft([Now EXCEPT !.status = st, !.turns = broken]))
        PROVE  VoiceStep
    <3> DEFINE S == [Now EXCEPT !.status = st, !.turns = broken]
    <3>1. Sound(S)
      BY <2>1, <2>2, LifeSound
    <3>2. S.turns = broken /\ S.queue = queue /\ S.told = told /\ Now.turns = turns
      BY DEF Now
    <3>3. Become(S) \/ Become(NotedIfNothingLeft(S))
      BY <2>4
    <3> HIDE DEF S
    <3>4. BusyIn(S) = BusyIn(Now) /\ \A v \in BusyIn(Now) : v \in Workers /\ turns[v] # NoTurn
      BY <2>1, <3>2 DEF BusyIn
    <3> QED BY <1>3, <2>1, <3>1, <3>2, <3>3, <3>4, SameThenDrainedVoiced DEF Crash, Unchanged2
  <2> QED BY <2>3, <2>4
<1> QED BY <1>1, <1>2, <1>3 DEF WorkerStep

\* A `!cancel' excuses what it calls off and what it drops.
LEMMA CancelVoiced ==
  ASSUME Inv, Explained(Now, Settled), NEW s \in Scopes, Cancel(s),
         Settled \subseteq Settled'
  PROVE  VoiceStep
<1> DEFINE here == {w \in Workers : turns[w] # NoTurn /\ turns[w].scope = s}
           all == {w \in Workers : turns[w] # NoTurn}
           hit == IF here # {} THEN here ELSE all
           dropped == IF here # {} THEN activity \cap {s} ELSE activity
           t(w) == [turns[w] EXCEPT !.cancelled = TRUE,
                      !.stopSent = @ \/ turns[w].phase = "prompted"]
<1>1. /\ queue' = [q \in Scopes |-> IF q \in dropped THEN <<>> ELSE queue[q]]
      /\ turns' = [w \in Workers |-> IF w \in hit THEN t(w) ELSE turns[w]]
      /\ excused' = excused \cup (UNION {MsgsOf(queue[q]) : q \in dropped})
                            \cup (UNION {MsgsOf(turns[w].batch) : w \in hit})
      /\ sent' = sent /\ told' = told
  BY DEF Cancel
<1>2. \A w \in hit : w \in Workers /\ turns[w] # NoTurn
  OBVIOUS
<1>3. \A w \in Workers : turns[w] # NoTurn =>
        t(w) \in Turn /\ t(w).scope = turns[w].scope /\ t(w).batch = turns[w].batch
  <2> TAKE w \in Workers
  <2> HAVE turns[w] # NoTurn
  <2>1. turns[w] \in Turn /\ (turns[w].stopSent \/ turns[w].phase = "prompted") \in BOOLEAN
    BY TurnFields
  <2> QED BY <2>1 DEF Turn
<1> HIDE DEF hit, dropped, t
<1>4. \A q \in Scopes : \/ queue'[q] = queue[q]
                        \/ queue'[q] = <<>> /\ MsgsOf(queue[q]) \subseteq Settled'
  BY <1>1 DEF Settled
<1>5. \A w \in Workers :
        /\ turns'[w] = NoTurn <=> turns[w] = NoTurn
        /\ turns[w] # NoTurn =>
             /\ turns'[w].scope = turns[w].scope
             /\ turns'[w].batch = turns[w].batch
             /\ turns'[w].cancelled =>
                  \/ turns[w].cancelled
                  \/ MsgsOf(turns[w].batch) \subseteq told' \cup Settled'
  <2> TAKE w \in Workers
  <2>1. CASE w \in hit
    <3>1. turns'[w] = t(w) /\ turns[w] # NoTurn /\ t(w) # NoTurn
      BY <1>1, <1>2, <1>3, <2>1, NoTurnAssumption
    <3>2. MsgsOf(turns[w].batch) \subseteq Settled'
      BY <1>1, <2>1 DEF Settled
    <3> QED BY <1>3, <3>1, <3>2
  <2>2. CASE w \notin hit
    BY <1>1, <2>2
  <2> QED BY <2>1, <2>2
<1> QED BY <1>1, <1>4, <1>5, InPlaceVoiced

LEMMA RestVoiced ==
  ASSUME Inv, Explained(Now, Settled), Settled \subseteq Settled',
         Reload \/ Drop \/ Redial \/ Rejoined \/ UNCHANGED vars
  PROVE  VoiceStep
<1>1. UNCHANGED <<queue, turns, told, sent>>
  BY DEF Reload, Drop, Redial, Rejoined, vars, engine, Unchanged2
<1> QED BY <1>1, InPlaceVoiced

\* The invariant.
Voiced ==
  /\ Connected
  /\ ~stopping => Explained(Now, Settled)
  /\ ~stopping /\ Undropped => Kept(Now, sent, Settled)

LEMMA VoicedStep == Inv /\ Orderly(Now, asked) /\ Voiced /\ [Next]_vars => Voiced'
<1> SUFFICES ASSUME Inv, Orderly(Now, asked), Voiced, [Next]_vars PROVE Voiced'
  OBVIOUS
<1>1. Connected' /\ (Undropped' => Undropped) /\ (~stopping' => ~stopping)
  BY DropCount DEF Voiced
<1>2. ASSUME ~stopping'
      PROVE  VoiceStep
  <2>1. ~stopping /\ Explained(Now, Settled) /\ Connected
    BY <1>1, <1>2 DEF Voiced
  <2>2. ~Stop /\ Settled \subseteq Settled'
    BY <1>2, SettledGrows DEF Stop
  <2> QED BY <2>1, <2>2, EnqueueVoiced, CancelVoiced, TurnStepVoiced, WorkerStepVoiced,
             RestVoiced DEF Next
<1> QED BY <1>1, <1>2 DEF Voiced, VoiceStep

LEMMA VoicedInit == Init => Voiced
<1> SUFFICES ASSUME Init PROVE Voiced
  OBVIOUS
<1>1. BusyIn(Now) = {} /\ \A s \in Scopes : Now.queue[s] = <<>>
  BY DEF Init, Now, BusyIn
<1>2. MsgsOf(<<>>) = {}
  BY DEF MsgsOf
<1>3. Explained(Now, Settled)
  BY <1>1, <1>2, ScopesAssumption DEF Explained
<1>4. Connected
  BY BoundAssumption, DisturbancesAre DEF Init, Connected
<1>5. Kept(Now, sent, Settled)
  BY DEF Init, Kept
<1> QED BY <1>3, <1>4, <1>5 DEF Voiced

\* That the model was refused is said before it counts as said, and nothing
\* unsays it.
LEMMA DrainedTold ==
  ASSUME NEW S, Sound(S), NEW D \in Drained(S)
  PROVE  S.told \subseteq D.told
<1>1. Refused(S).told = S.told \cup UNION {MsgsOf(S.queue[s]) : s \in Scopes \ BanterScopes}
  BY DEF Refused, Sound, Typed
<1>2. \A c \in Claims(S) : Started(S, c).told = S.told
  BY StartedStarts DEF Starts
<1> QED BY <1>1, <1>2 DEF Drained

LEMMA NotedTold ==
  ASSUME NEW S, Sound(S)
  PROVE  S.told \subseteq NotedIfNothingLeft(S).told
<1>1. Refused(S).told = S.told \cup UNION {MsgsOf(S.queue[s]) : s \in Scopes \ BanterScopes}
  BY DEF Refused, Sound, Typed
<1> QED BY <1>1 DEF NotedIfNothingLeft

LEMMA TurnEndsTold ==
  ASSUME NEW S, Sound(S), NEW w \in Workers, S.turns[w] # NoTurn, NEW r \in BOOLEAN,
         TurnEnds(w, S, r)
  PROVE  S.told \subseteq told'
<1>1. PICK D \in Drained(Closed(w, S, r)) : Become(D)
  BY DEF TurnEnds
<1>2. Closed(w, S, r).told = S.told
  BY DEF Closed, Sound, Typed
<1>3. Closed(w, S, r).told \subseteq D.told
  BY ClosedSound, DrainedTold
<1> QED BY <1>1, <1>2, <1>3 DEF Become

LEMMA TurnEndsNowTold ==
  ASSUME Inv, NEW w \in Workers, turns[w] # NoTurn, TurnEnds(w, Now, FALSE)
  PROVE  told \subseteq told'
<1>1. Sound(Now) /\ Now.turns[w] # NoTurn /\ Now.told = told
  BY DEF Inv, Now
<1> QED BY <1>1, TurnEndsTold

LEMMA TurnFailsTold ==
  ASSUME Inv, NEW w \in Workers, turns[w] # NoTurn, NEW r \in BOOLEAN, TurnFails(w, r)
  PROVE  told \subseteq told'
<1>1. CASE TurnEnds(w, Now, FALSE)
  BY <1>1, TurnEndsNowTold
<1>2. CASE TurnEnds(w, Said(Now, turns[w].batch), FALSE)
  <2>1. told \subseteq Said(Now, turns[w].batch).told
    BY DEF Said, Now
  <2> QED BY <1>2, <2>1, SaidSound, TurnEndsTold
<1>3. CASE TurnEnds(w, Retried(w), TRUE)
  <2>1. Sound(Retried(w)) /\ Retried(w).turns[w] # NoTurn /\ Retried(w).told = told
    BY RetriedSound
  <2> QED BY <1>3, <2>1, TurnEndsTold
<1> QED BY <1>1, <1>2, <1>3, TurnFailsHow

LEMMA ToldGrows == ASSUME Inv, [Next]_vars PROVE told \subseteq told'
<1>1. ASSUME NEW s \in Scopes, Enqueue(s) PROVE told \subseteq told'
  <2>1. PICK D \in Drained(Arrived(s)) : Become(D)
    BY <1>1, ArrivedSound
  <2>2. Sound(Arrived(s)) /\ Arrived(s).told = told
    BY <1>1, ArrivedSound
  <2>3. told \subseteq D.told
    BY <2>2, DrainedTold
  <2> QED BY <2>1, <2>3 DEF Become
<1>2. ASSUME NEW w \in Workers, TurnStep(w) PROVE told \subseteq told'
  <2>1. CASE BeginFails(w) \/ OpenFails(w) \/ PromptFails(w)
    <3>1. refused \in BOOLEAN
      BY DEF Inv, Bookkeeping
    <3>2. turns[w] # NoTurn /\ \E r \in BOOLEAN : TurnFails(w, r)
      BY <2>1, <3>1 DEF BeginFails, OpenFails, PromptFails
    <3> QED BY <3>2, TurnFailsTold
  <2>2. CASE turns[w] # NoTurn /\ TurnEnds(w, Now, FALSE)
    BY <2>2, TurnEndsNowTold
  <2>3. CASE Answer(w)
    <3>1. told \subseteq Said(Now, turns[w].batch).told
      BY DEF Said, Now
    <3> QED BY <2>3, <3>1, SaidSound, TurnEndsTold DEF Answer
  <2>4. CASE UNCHANGED told \/ Stall(w)
    BY <2>4 DEF Stall
  <2> QED BY <1>2, <2>1, <2>2, <2>3, <2>4 DEF TurnStep, Begin, BeginNothing, Opened, Prompt
<1>3. ASSUME NEW w \in Workers, WorkerStep(w) PROVE told \subseteq told'
  <2>1. ASSUME NEW S, Sound(S), S.told = told,
               \/ Become(S) \/ Become(NotedIfNothingLeft(S))
               \/ \E D \in Drained(S) : Become(D)
               \/ \E D \in Drained(NotedIfNothingLeft(S)) : Become(D)
        PROVE  told \subseteq told'
    BY <2>1, NotedSound, NotedTold, DrainedTold DEF Become
  <2>2. CASE StartOk(w)
    <3> DEFINE S == [Now EXCEPT !.status = [status EXCEPT ![w] = "up"]]
    <3>1. Sound(S) /\ S.told = told
      BY <2>2, OneLifeSound DEF StartOk, Now
    <3>2. Become(S) \/ \E D \in Drained(S) : Become(D)
      BY <2>2 DEF StartOk
    <3> HIDE DEF S
    <3> QED BY <2>1, <3>1, <3>2
  <2>3. CASE StartFails(w)
    <3> DEFINE S == [Now EXCEPT !.status = [status EXCEPT ![w] = "dead"]]
    <3>1. Sound(S) /\ S.told = told
      BY <2>3, OneLifeSound DEF StartFails, Now
    <3>2. Become(S) \/ \E D \in Drained(NotedIfNothingLeft(S)) : Become(D)
      BY <2>3 DEF StartFails
    <3> HIDE DEF S
    <3> QED BY <2>1, <3>1, <3>2
  <2>4. CASE Crash(w)
    <3>1. PICK st, ts : LET S == [Now EXCEPT !.status = st, !.turns = ts]
                        IN Become(S) \/ Become(NotedIfNothingLeft(S))
      BY <2>4 DEF Crash
    <3> DEFINE S == [Now EXCEPT !.status = st, !.turns = ts]
    <3>2. S.told = told /\ Refused(S).told = S.told \cup UNION {MsgsOf(S.queue[s]) : s \in Scopes \ BanterScopes}
      BY DEF Now, Refused
    <3> QED BY <3>1, <3>2 DEF Become, NotedIfNothingLeft
  <2> QED BY <1>3, <2>2, <2>3, <2>4 DEF WorkerStep
<1>4. CASE \/ \E s \in Scopes : Cancel(s)
           \/ Reload \/ Drop \/ Redial \/ Rejoined \/ Stop \/ UNCHANGED vars
  BY <1>4 DEF Cancel, Reload, Drop, Redial, Rejoined, Stop, vars, engine
<1> QED BY <1>1, <1>2, <1>3, <1>4 DEF Next

\* Whoever counts as told of the refusal was told.
Heard == \A s \in refusalSaid : \E n \in 1..sent : n \in told /\ asked[n] = s

LEMMA RefusalIsSaid ==
  ASSUME Inv, [Next]_vars, NEW s \in refusalSaid' \ refusalSaid
  PROVE  \E w \in Workers : /\ turns[w] # NoTurn /\ turns[w].scope = s
                            /\ TurnEnds(w, Said(Now, turns[w].batch), FALSE)
<1>1. PICK w \in Workers : TurnStep(w)
  BY DEF Next, Enqueue, Cancel, WorkerStep, StartOk, StartFails, Crash, Reload, Drop, Redial,
     Rejoined, Stop, vars, Unchanged2
<1>2. turns[w] # NoTurn /\ \E r : TurnFails(w, r)
  BY <1>1 DEF TurnStep, Begin, BeginNothing, BeginFails, Opened, OpenFails, Prompt, Answer,
     PromptFails, Stall, Unchanged1
<1>3. turns[w].scope = s /\ TurnEnds(w, Said(Now, turns[w].batch), FALSE)
  BY <1>2 DEF TurnFails
<1> QED BY <1>2, <1>3

LEMMA HeardStep == Inv /\ Orderly(Now, asked) /\ Heard /\ [Next]_vars => Heard'
<1> SUFFICES ASSUME Inv, Orderly(Now, asked), Heard, [Next]_vars, NEW s \in refusalSaid'
             PROVE  \E n \in 1..sent' : n \in told' /\ asked'[n] = s
  BY DEF Heard
<1>1. 1..sent \subseteq 1..sent' /\ told \subseteq told' /\ \A m \in 1..sent : asked'[m] = asked[m]
  BY GhostsGrow, ToldGrows
<1>2. CASE s \in refusalSaid
  BY <1>1, <1>2 DEF Heard
<1>3. CASE s \notin refusalSaid
  <2>1. PICK w \in Workers : /\ turns[w] # NoTurn /\ turns[w].scope = s
                             /\ TurnEnds(w, Said(Now, turns[w].batch), FALSE)
    BY <1>3, RefusalIsSaid
  <2>2. turns[w].batch \in Seq(Msgs) /\ turns[w].batch # <<>>
    BY <2>1, TurnFields DEF Turn
  <2>3. PICK m : m \in MsgsOf(turns[w].batch)
    <3>1. 1 \in DOMAIN turns[w].batch
      BY <2>2
    <3> QED BY <3>1 DEF MsgsOf
  <2>4. m \in 1..sent /\ asked[m] = s
    BY <2>1, <2>3, HeldWasAsked
  <2>5. m \in Said(Now, turns[w].batch).told
    BY <2>3 DEF Said, Now
  <2>6. m \in told'
    BY <2>1, <2>5, SaidSound, TurnEndsTold
  <2> QED BY <1>1, <2>4, <2>6
<1> QED BY <1>2, <1>3

\* Until the socket drops, a message that is neither waiting nor being answered
\* had a line said for it, or was called off, or is banter, or came where the
\* refusal of the model had been said: no failure, retry, crash or reload
\* loses one silently (#turnFailed, #onWorkerExit).
THEOREM NobodyIsLeftSilently == Spec => []NeverSilent
<1>1. Inv /\ Voiced /\ Heard => NeverSilent
  <2> SUFFICES ASSUME Inv, Heard, Kept(Now, sent, Settled), NEW m \in Done
               PROVE  m \in told \cup excused \cup ToldBefore
    BY DEF Voiced, NeverSilent, Undropped
  <2>1. Now.queue = queue /\ Now.turns = turns /\ Now.told = told /\ BusyIn(Now) = Busy
    BY DEF Now, BusyIn, Busy
  <2>2. m \in 1..sent /\ ~Waits(Now, m) /\ ~Runs(Now, m)
    BY <2>1 DEF Done, Queued, Running, Waits, Runs
  <2>3. m \in told \cup Settled
    BY <2>1, <2>2 DEF Kept
  <2>4. asked[m] \in refusalSaid => m \in ToldBefore
    BY DEF Heard, ToldBefore
  <2> QED BY <2>3, <2>4 DEF Settled
<1>2. Init => Heard
  BY DEF Init, Heard
<1>3. Inv /\ Orderly(Now, asked) /\ Heard /\ [Next]_vars => Heard'
  BY HeardStep
<1> QED BY <1>1, <1>2, <1>3, SpecOrderly, VoicedInit, VoicedStep, PTL DEF Spec

-----------------------------------------------------------------------------
(* Work conserving.  A worker may die without a drain: of its first start, *)
(* while a turn waits for it, or given up on after a crash.  What makes it *)
(* inductive is that the first has that turn, and that an idle worker that *)
(* is given up on leaves nobody waiting.                                   *)

Spread(S) == Waiting(S) # {} => Idle(S) = {} /\ Cardinality(Live(S)) = MaxLive
AllAlive(S) == \A w \in BusyIn(S) : S.status[w] # "dead"
Conserving(S) == AllAlive(S) => Spread(S)

\* A first start has the turn that asked for it.
FirstStarts(S, R, L) ==
  \A w \in Workers :
    S.status[w] = "starting" /\ R[w] = 0 /\ w \notin L
      => S.turns[w] # NoTurn /\ S.turns[w].phase = "starting"

LEMMA StartedSpread ==
  ASSUME NEW S, Sound(S), NEW c \in Claims(S)
  PROVE  Spread(Started(S, c))
<1> DEFINE taken == {c[s] : s \in DOMAIN c}
           made == taken \cap Unmade(S)
           T == Started(S, c)
<1>1. /\ DOMAIN c \in SUBSET Waiting(S)
      /\ DOMAIN c # Waiting(S) =>
           Idle(S) \subseteq taken /\ Cardinality(Live(S)) + Cardinality(made) = MaxLive
  <2>1. PICK D \in SUBSET Waiting(S) :
          /\ c \in Injection(D, Idle(S) \cup Unmade(S))
          /\ LET tk == {c[s] : s \in D}
                 md == tk \cap Unmade(S)
             IN /\ md # {} \/ D # Waiting(S) => Idle(S) \subseteq tk
                /\ D # Waiting(S) => Cardinality(Live(S)) + Cardinality(md) = MaxLive
    BY DEF Claims
  <2>2. DOMAIN c = D
    BY <2>1 DEF Injection
  <2> QED BY <2>1, <2>2
<1>2. taken \subseteq Workers /\ \A w \in taken : w \in Idle(S) \/ w \in Unmade(S)
  BY ClaimsShape DEF Idle, Live, Unmade
<1>3. /\ T.inFlight = S.inFlight \cup DOMAIN c
      /\ \A s \in Scopes \ DOMAIN c : T.queue[s] = S.queue[s]
      /\ \A w \in Workers : T.status[w] = IF w \in taken /\ S.status[w] = "unmade"
                                          THEN "starting" ELSE S.status[w]
      /\ \A w \in Workers \ taken : T.turns[w] = S.turns[w]
  BY DEF Started
<1>4. \A w \in taken : T.turns[w] # NoTurn
  <2>1. Sound(T)
    BY StartedSound
  <2> DEFINE who(w) == CHOOSE s \in DOMAIN c : c[s] = w
             new(w) == NewTurn(who(w), Batch(S.queue[who(w)]), who(w) \in S.steer)
  <2>2. \A w \in taken : T.turns[w] = new(w)
    BY <1>2 DEF Started
  <2> SUFFICES ASSUME NEW w \in taken PROVE new(w) \in Turn
    BY <2>2, NoTurnAssumption
  <2>3. who(w) \in DOMAIN c
    OBVIOUS
  <2>4. who(w) \in Scopes /\ S.queue[who(w)] # <<>> BY <1>1, <2>3, ClaimsShape DEF Waiting
  <2>5. Batch(S.queue[who(w)]) \in Seq(Msgs) \ {<<>>} BY <2>4, BatchOfWaiting DEF Sound, Typed
  <2>6. (who(w) \in S.steer) \in BOOLEAN OBVIOUS
  <2> HIDE DEF who
  <2> QED BY <2>4, <2>5, <2>6, NewTurnType
<1> HIDE DEF T
<1>5. SUFFICES ASSUME Waiting(T) # {}
               PROVE  Idle(T) = {} /\ Cardinality(Live(T)) = MaxLive
  BY DEF Spread, T
<1>6. Waiting(T) \subseteq Waiting(S) \ DOMAIN c
  BY <1>3 DEF Waiting
<1>7. Idle(S) \subseteq taken /\ Cardinality(Live(S)) + Cardinality(made) = MaxLive
  BY <1>1, <1>5, <1>6
<1>8. Live(T) = Live(S) \cup made /\ Live(S) \cap made = {}
  <2>1. \A w \in Workers : w \in Live(T) <=> w \in Live(S) \/ w \in made
    BY <1>3 DEF Live, Unmade
  <2>2. Live(T) \subseteq Workers /\ Live(S) \subseteq Workers /\ made \subseteq Workers
    BY <1>2 DEF Live
  <2> QED BY <2>1, <2>2 DEF Live, Unmade
<1>9. Idle(T) = {}
  BY <1>3, <1>4, <1>7, <1>8 DEF Idle, Live
<1>10. Cardinality(Live(T)) = MaxLive
  <2>1. IsFiniteSet(Live(S)) /\ IsFiniteSet(made)
    BY <1>2, PoolAssumption, FS_Subset DEF Live
  <2>2. Cardinality(Live(S) \cap made) = 0
    BY <1>8, FS_EmptySet
  <2>3. Cardinality(Live(S)) \in Nat /\ Cardinality(made) \in Nat
    BY <2>1, FS_CardinalityType
  <2> HIDE DEF made
  <2>4. Cardinality(Live(T)) =
          Cardinality(Live(S)) + Cardinality(made) - Cardinality(Live(S) \cap made)
    BY <1>8, <2>1, FS_Union
  <2> QED BY <1>7, <2>2, <2>3, <2>4
<1> QED BY <1>9, <1>10

LEMMA RefusedSpread == ASSUME NEW S PROVE Spread(Refused(S))
<1>1. \A s \in Scopes : Refused(S).queue[s] = <<>>
  BY DEF Refused
<1> QED BY <1>1 DEF Spread, Waiting

LEMMA DrainedSpread ==
  ASSUME ~stopping, NEW S, Sound(S), NEW D \in Drained(S)
  PROVE  Spread(D)
BY StartedSpread, RefusedSpread DEF Drained

LEMMA RefusedStarts ==
  ASSUME NEW S, Sound(S), NEW R, NEW L, FirstStarts(S, R, L)
  PROVE  FirstStarts(Refused(S), R, L)
<1> DEFINE T == Refused(S)
<1>1. T.turns = S.turns /\ T.status = S.status
  BY DEF Refused, Sound, Typed
<1> HIDE DEF T
<1> QED BY <1>1 DEF FirstStarts, T

\* A drain starts turns at their beginning, and workers that have one.
LEMMA DrainedStarts ==
  ASSUME NEW S, Sound(S), NEW D \in Drained(S), NEW R, NEW L, FirstStarts(S, R, L)
  PROVE  FirstStarts(D, R, L)
<1>1. CASE D = S \/ D = Refused(S)
  BY <1>1, RefusedStarts
<1>2. ASSUME NEW c \in Claims(S), D = Started(S, c)
      PROVE  FirstStarts(D, R, L)
  <2> DEFINE taken == {c[s] : s \in DOMAIN c}
             who(w) == CHOOSE s \in DOMAIN c : c[s] = w
             new(w) == NewTurn(who(w), Batch(S.queue[who(w)]), who(w) \in S.steer)
  <2>1. \A w \in Workers :
          /\ D.turns[w] = IF w \in taken THEN new(w) ELSE S.turns[w]
          /\ D.status[w] = IF w \in taken /\ S.status[w] = "unmade" THEN "starting"
                                                                  ELSE S.status[w]
    BY <1>2 DEF Started
  <2>2. \A w : new(w).phase = "starting"
    BY DEF NewTurn
  <2>3. \A w \in taken : w \in Workers => new(w) # NoTurn
    <3> SUFFICES ASSUME NEW w \in taken PROVE new(w) \in Turn
      BY NoTurnAssumption
    <3>1. who(w) \in DOMAIN c
      OBVIOUS
    <3>2. who(w) \in Scopes /\ S.queue[who(w)] # <<>> BY <3>1, ClaimsShape DEF Waiting
    <3>3. Batch(S.queue[who(w)]) \in Seq(Msgs) \ {<<>>} BY <3>2, BatchOfWaiting DEF Sound, Typed
    <3>4. (who(w) \in S.steer) \in BOOLEAN OBVIOUS
    <3> HIDE DEF who
    <3> QED BY <3>2, <3>3, <3>4, NewTurnType
  <2> HIDE DEF taken, new
  <2> QED BY <2>1, <2>2, <2>3 DEF FirstStarts
<1> QED BY <1>1, <1>2 DEF Drained

\* A turn ends on a worker that is up or gone, or it was past its start.
LEMMA ClosedStarts ==
  ASSUME NEW S, Sound(S), NEW w \in Workers, S.turns[w] # NoTurn, NEW r \in BOOLEAN,
         FirstStarts(S, restarts, reloading), pending \subseteq reloading,
         S.status[w] = "starting" => S.turns[w].phase # "starting", NEW L,
         L = IF w \in pending /\ S.status[w] = "dead" THEN reloading \ {w} ELSE reloading
  PROVE  FirstStarts(Closed(w, S, r), restarts, L)
<1> DEFINE C == Closed(w, S, r)
<1>1. /\ C.turns = [S.turns EXCEPT ![w] = NoTurn]
      /\ \A v \in Workers \ {w} : C.turns[v] = S.turns[v] /\ C.status[v] = S.status[v]
      /\ C.status[w] = IF w \in pending /\ S.status[w] = "up" THEN "starting" ELSE S.status[w]
  BY DEF Closed, Sound, Typed
<1> HIDE DEF C
<1>2. ASSUME NEW v \in Workers, C.status[v] = "starting", restarts[v] = 0, v \notin L
      PROVE  C.turns[v] # NoTurn /\ C.turns[v].phase = "starting"
  <2>1. v # w
    BY <1>1, <1>2 DEF FirstStarts
  <2> QED BY <1>1, <1>2, <2>1 DEF FirstStarts
<1> QED BY <1>2 DEF FirstStarts, C

-----------------------------------------------------------------------------
(* Work conserving, of the variables.                                      *)

Thrifty ==
  /\ Conserving(Now)
  /\ FirstStarts(Now, restarts, reloading)
  /\ pending \subseteq reloading

ThriftStep ==
  /\ Conserving(Now')
  /\ FirstStarts(Now', restarts', reloading')
  /\ pending' \subseteq reloading'

\* A picture that is drained leaves nobody waiting beside an idle worker.
LEMMA DrainedThrifty ==
  ASSUME ~stopping, NEW S, Sound(S), NEW D \in Drained(S), Become(D),
         FirstStarts(S, restarts', reloading'), pending' \subseteq reloading'
  PROVE  ThriftStep
<1>1. Spread(D) /\ FirstStarts(D, restarts', reloading')
  BY DrainedSpread, DrainedStarts
<1>2. Now' = D
  BY DrainedSound, BecomeNow
<1> QED BY <1>1, <1>2 DEF ThriftStep, Conserving

LEMMA TurnEndsThrifty ==
  ASSUME ~stopping, Thrifty, restarts' = restarts, NEW S, Sound(S), NEW w \in Workers,
         S.turns = turns, S.status = status, turns[w] # NoTurn, NEW r \in BOOLEAN,
         TurnEnds(w, S, r), status[w] = "starting" => turns[w].phase # "starting"
  PROVE  ThriftStep
<1>1. FirstStarts(S, restarts, reloading)
  <2>1. Now.turns = turns /\ Now.status = status
    BY DEF Now
  <2> QED BY <2>1 DEF FirstStarts, Thrifty
<1>2. FirstStarts(Closed(w, S, r), restarts, reloading')
  BY <1>1, ClosedStarts DEF Thrifty, TurnEnds
<1>3. pending' \subseteq reloading'
  BY DEF Thrifty, TurnEnds
<1>4. Sound(Closed(w, S, r))
  BY ClosedSound
<1>5. PICK D \in Drained(Closed(w, S, r)) : Become(D)
  BY DEF TurnEnds
<1> QED BY <1>2, <1>3, <1>4, <1>5, DrainedThrifty

\* A picture where the same workers live and idle, and nobody new waits.
LEMMA SameSpread ==
  ASSUME NEW S, NEW T, T.inFlight = S.inFlight,
         \A s \in Scopes : T.queue[s] = S.queue[s] \/ T.queue[s] = <<>>,
         \A w \in Workers :
           /\ T.turns[w] = NoTurn <=> S.turns[w] = NoTurn
           /\ T.status[w] \in {"starting", "up"} <=> S.status[w] \in {"starting", "up"}
           /\ S.status[w] = "dead" => T.status[w] = "dead",
         Conserving(S)
  PROVE  Conserving(T)
<1>1. BusyIn(T) = BusyIn(S) /\ (AllAlive(T) => AllAlive(S))
  BY DEF BusyIn, AllAlive
<1>2. Live(T) = Live(S) /\ Idle(T) = Idle(S)
  BY DEF Live, Idle
<1>3. Waiting(T) \subseteq Waiting(S)
  BY DEF Waiting
<1> QED BY <1>1, <1>2, <1>3 DEF Conserving, Spread

LEMMA InPlaceThrifty ==
  ASSUME Thrifty, UNCHANGED <<inFlight, status, restarts, pending, reloading>>,
         \A s \in Scopes : queue'[s] = queue[s] \/ queue'[s] = <<>>,
         \A w \in Workers :
           /\ turns'[w] = NoTurn <=> turns[w] = NoTurn
           /\ status[w] = "starting" /\ turns[w] # NoTurn /\ turns[w].phase = "starting"
                => turns'[w].phase = "starting"
  PROVE  ThriftStep
<1>1. /\ Now.queue = queue /\ Now.turns = turns /\ Now.status = status
      /\ Now.inFlight = inFlight
      /\ Now'.queue = queue' /\ Now'.turns = turns' /\ Now'.status = status'
      /\ Now'.inFlight = inFlight'
  BY DEF Now
<1> HIDE DEF Now
<1>2. Conserving(Now')
  BY <1>1, SameSpread DEF Thrifty
<1>3. FirstStarts(Now', restarts', reloading')
  BY <1>1 DEF Thrifty, FirstStarts
<1> QED BY <1>2, <1>3 DEF Thrifty, ThriftStep

LEMMA EnqueueThrifty ==
  ASSUME Inv, Thrifty, NEW s \in Scopes, Enqueue(s)
  PROVE  ThriftStep
<1> DEFINE S == Arrived(s)
<1>1. Sound(S) /\ S.turns = turns /\ S.status = status
  BY ArrivedSound
<1>2. PICK D \in Drained(S) : Become(D)
  BY ArrivedSound
<1>3. Now.turns = turns /\ Now.status = status
  BY DEF Now
<1> HIDE DEF S
<1>4. FirstStarts(S, restarts, reloading)
  BY <1>1, <1>3 DEF FirstStarts, Thrifty
<1>5. /\ UNCHANGED <<restarts, pending, reloading>> /\ ~stopping
  BY DEF Enqueue
<1> QED BY <1>1, <1>2, <1>4, <1>5, DrainedThrifty DEF Thrifty

LEMMA TurnFailsThrifty ==
  ASSUME Inv, Thrifty, ~stopping, restarts' = restarts, NEW w \in Workers,
         turns[w] # NoTurn, NEW r \in BOOLEAN, TurnFails(w, r),
         status[w] = "starting" => turns[w].phase # "starting"
  PROVE  ThriftStep
<1>1. CASE TurnEnds(w, Now, FALSE)
  <2>1. Sound(Now) /\ Now.turns = turns /\ Now.status = status
    BY DEF Inv, Now
  <2> QED BY <1>1, <2>1, TurnEndsThrifty
<1>2. CASE TurnEnds(w, Said(Now, turns[w].batch), FALSE)
  <2> DEFINE S == Said(Now, turns[w].batch)
  <2>1. Sound(S) /\ S.turns = turns /\ S.status = status
    BY SaidSound DEF Said, Now
  <2> HIDE DEF S
  <2> QED BY <1>2, <2>1, TurnEndsThrifty DEF S
<1>3. CASE TurnEnds(w, Retried(w), TRUE)
  <2>1. Sound(Retried(w)) /\ Retried(w).turns = turns /\ Retried(w).status = status
    BY RetriedSound
  <2> QED BY <1>3, <2>1, TurnEndsThrifty
<1> QED BY <1>1, <1>2, <1>3, TurnFailsHow

LEMMA TurnStepThrifty ==
  ASSUME Inv, Thrifty, ~stopping, NEW w \in Workers, TurnStep(w)
  PROVE  ThriftStep
<1>1. refused \in BOOLEAN /\ turns \in [Workers -> Turn \cup {NoTurn}]
  BY NowTyped DEF Inv, Bookkeeping
<1>2. Sound(Now) /\ Now.turns = turns /\ Now.status = status
  BY DEF Inv, Now
<1>3. CASE BeginNothing(w)
  BY <1>2, <1>3, TurnEndsThrifty DEF BeginNothing, Unchanged1
<1>4. CASE BeginFails(w) \/ OpenFails(w) \/ PromptFails(w)
  <2>1. PICK r \in BOOLEAN : TurnFails(w, r)
    BY <1>1, <1>4 DEF BeginFails, OpenFails, PromptFails
  <2>2. /\ turns[w] # NoTurn /\ restarts' = restarts
        /\ status[w] = "starting" => turns[w].phase # "starting"
    BY <1>4 DEF BeginFails, OpenFails, PromptFails, Unchanged1
  <2> QED BY <2>1, <2>2, TurnFailsThrifty
<1>5. CASE Answer(w)
  <2> DEFINE S == Said(Now, turns[w].batch)
  <2>1. Sound(S) /\ S.turns = turns /\ S.status = status
    BY <1>5, SaidSound DEF Said, Now, Answer
  <2>2. TurnEnds(w, S, FALSE)
    BY <1>5 DEF Answer
  <2> HIDE DEF S
  <2> QED BY <1>5, <2>1, <2>2, TurnEndsThrifty DEF Answer, Unchanged1
<1>6. CASE Opened(w) /\ TurnEnds(w, Now, FALSE)
  BY <1>2, <1>6, TurnEndsThrifty DEF Opened, Unchanged1
<1>7. ASSUME NEW t \in Turn, turns' = [turns EXCEPT ![w] = t], turns[w] # NoTurn,
             queue' = queue, UNCHANGED <<inFlight, status, restarts, pending, reloading>>,
             status[w] # "starting" \/ turns[w].phase # "starting"
      PROVE  ThriftStep
  <2>1. \A v \in Workers : /\ turns'[v] = NoTurn <=> turns[v] = NoTurn
                           /\ v # w => turns'[v] = turns[v]
    BY <1>1, <1>7, NoTurnAssumption
  <2> QED BY <1>7, <2>1, InPlaceThrifty
<1>8. CASE Begin(w) \/ Prompt(w) \/ Stall(w) \/ (Opened(w) /\ ~TurnEnds(w, Now, FALSE))
  <2> DEFINE opening == [turns[w] EXCEPT !.phase = "opening"]
             priming == [turns[w] EXCEPT !.phase = "priming"]
             prompted == [turns[w] EXCEPT !.phase = "prompted", !.prompted = TRUE]
             stalled == [turns[w] EXCEPT !.cancelled = TRUE, !.stopSent = TRUE]
  <2>1. turns[w] # NoTurn /\ turns[w] \in Turn
    BY <1>1, <1>8 DEF Begin, Prompt, Stall, Opened
  <2>2. opening \in Turn /\ priming \in Turn /\ prompted \in Turn /\ stalled \in Turn
    BY <2>1 DEF Turn, Phases
  <2>3. \E t \in {opening, priming, prompted, stalled} : turns' = [turns EXCEPT ![w] = t]
    BY <1>1, <1>8 DEF Begin, Prompt, Stall, Opened
  <2>4. /\ queue' = queue /\ UNCHANGED <<inFlight, status, restarts, pending, reloading>>
        /\ status[w] # "starting" \/ turns[w].phase # "starting"
    BY <1>8 DEF Begin, Prompt, Stall, Opened, Unchanged1
  <2> HIDE DEF opening, priming, prompted, stalled
  <2> QED BY <1>7, <2>1, <2>2, <2>3, <2>4
<1> QED BY <1>3, <1>4, <1>5, <1>6, <1>8 DEF TurnStep

\* A worker's life moves and its picture is left as it is.
LEMMA BecomeThrifty ==
  ASSUME NEW S, Sound(S), Become(S), Conserving(S),
         FirstStarts(S, restarts', reloading'), pending' \subseteq reloading'
  PROVE  ThriftStep
BY BecomeNow DEF ThriftStep

\* ... or refused first, when it was the last one that lived.
LEMMA NotedThrifty ==
  ASSUME NEW S, Sound(S), FirstStarts(S, restarts', reloading')
  PROVE  /\ Sound(NotedIfNothingLeft(S))
         /\ FirstStarts(NotedIfNothingLeft(S), restarts', reloading')
         /\ Conserving(S) => Conserving(NotedIfNothingLeft(S))
BY RefusedSound, RefusedStarts, RefusedSpread DEF NotedIfNothingLeft, Conserving

LEMMA StartOkThrifty ==
  ASSUME Inv, Thrifty, NEW w \in Workers, StartOk(w)
  PROVE  ThriftStep
<1> DEFINE S == [Now EXCEPT !.status = [status EXCEPT ![w] = "up"]]
<1>1. Sound(S)
  BY OneLifeSound DEF StartOk
<1>2. /\ S.queue = queue /\ S.inFlight = inFlight /\ S.turns = turns
      /\ S.status = [status EXCEPT ![w] = "up"]
      /\ Now.queue = queue /\ Now.inFlight = inFlight /\ Now.turns = turns
      /\ Now.status = status
  BY DEF Now
<1>3. Become(S) \/ \E D \in Drained(S) : Become(D)
  BY DEF StartOk
<1> HIDE DEF S
<1>4. /\ status[w] = "starting" /\ ~stopping /\ S.status[w] = "up"
      /\ \A v \in Workers \ {w} : S.status[v] = status[v]
  BY <1>2, NowTyped DEF Inv, StartOk
<1>5. /\ restarts' = restarts /\ pending' = pending
      /\ reloading' = IF w \in pending THEN reloading ELSE reloading \ {w}
  BY DEF StartOk
<1>6. FirstStarts(S, restarts', reloading') /\ pending' \subseteq reloading'
  BY <1>2, <1>4, <1>5 DEF Thrifty, FirstStarts
<1>7. Conserving(S)
  <2>1. \A v \in Workers :
          /\ S.status[v] \in {"starting", "up"} <=> Now.status[v] \in {"starting", "up"}
          /\ Now.status[v] = "dead" => S.status[v] = "dead"
    BY <1>2, <1>4
  <2> QED BY <1>2, <2>1, SameSpread DEF Thrifty
<1> QED BY <1>1, <1>3, <1>4, <1>6, <1>7, BecomeThrifty, DrainedThrifty

LEMMA StartFailsThrifty ==
  ASSUME Inv, Thrifty, NEW w \in Workers, StartFails(w)
  PROVE  ThriftStep
<1> DEFINE S == [Now EXCEPT !.status = [status EXCEPT ![w] = "dead"]]
<1>1. Sound(S)
  BY OneLifeSound DEF StartFails
<1>2. /\ S.turns = turns /\ S.status = [status EXCEPT ![w] = "dead"]
      /\ Now.turns = turns /\ Now.status = status
  BY DEF Now
<1>3. \/ restarts[w] = 0 /\ w \notin reloading /\ Become(S)
      \/ \E D \in Drained(NotedIfNothingLeft(S)) : Become(D)
  <2>1. restarts[w] \in {0, 1}
    BY DEF Inv, Bookkeeping
  <2> QED BY <2>1 DEF StartFails
<1> HIDE DEF S
<1>4. /\ status[w] = "starting" /\ ~stopping /\ S.status[w] = "dead"
      /\ \A v \in Workers \ {w} : S.status[v] = status[v]
  BY <1>2, NowTyped DEF Inv, StartFails
<1>5. /\ restarts' = restarts /\ pending' = pending
      /\ reloading' = IF w \in pending THEN reloading ELSE reloading \ {w}
  BY DEF StartFails
<1>6. FirstStarts(S, restarts', reloading') /\ pending' \subseteq reloading'
  BY <1>2, <1>4, <1>5 DEF Thrifty, FirstStarts
<1>7. CASE restarts[w] = 0 /\ w \notin reloading /\ Become(S)
  <2>1. turns[w] # NoTurn
    BY <1>2, <1>4, <1>7 DEF Thrifty, FirstStarts
  <2>2. ~AllAlive(S)
    BY <1>2, <1>4, <2>1 DEF AllAlive, BusyIn
  <2> QED BY <1>1, <1>6, <1>7, <2>2, BecomeThrifty DEF Conserving
<1>8. CASE \E D \in Drained(NotedIfNothingLeft(S)) : Become(D)
  BY <1>1, <1>4, <1>6, <1>8, NotedThrifty, DrainedThrifty
<1> QED BY <1>3, <1>7, <1>8

LEMMA CrashThrifty ==
  ASSUME Inv, Thrifty, NEW w \in Workers, Crash(w)
  PROVE  ThriftStep
<1> DEFINE broken == IF turns[w] # NoTurn /\ turns[w].phase # "starting"
                     THEN [turns EXCEPT ![w].lost = TRUE] ELSE turns
           again == [status EXCEPT ![w] = "starting"]
           gone == [status EXCEPT ![w] = "dead"]
<1>1. /\ broken \in [Workers -> Turn \cup {NoTurn}]
      /\ \A v \in Workers :
           /\ broken[v] = NoTurn <=> turns[v] = NoTurn
           /\ turns[v] # NoTurn => /\ broken[v].scope = turns[v].scope
                                   /\ broken[v].batch = turns[v].batch
                                   /\ broken[v].phase = turns[v].phase
  <2>1. CASE turns[w] = NoTurn
    BY <2>1, NowTyped DEF Inv
  <2>2. CASE turns[w] # NoTurn
    <3> DEFINE t == [turns[w] EXCEPT !.lost = TRUE]
    <3>1. turns[w] \in Turn
      BY <2>2, TurnFields
    <3>2. /\ t \in Turn /\ t.scope = turns[w].scope /\ t.batch = turns[w].batch
          /\ t.phase = turns[w].phase
      BY <3>1 DEF Turn
    <3> QED BY <3>2, NowTyped, NoTurnAssumption DEF Inv
  <2> QED BY <2>1, <2>2
<1>2. /\ again \in [Workers -> {"unmade", "starting", "up", "dead"}] /\ again[w] = "starting"
      /\ gone \in [Workers -> {"unmade", "starting", "up", "dead"}] /\ gone[w] = "dead"
      /\ \A v \in Workers \ {w} : again[v] = status[v] /\ gone[v] = status[v]
      /\ status[w] = "up"
  BY NowTyped DEF Inv, Crash
<1>3. \/ /\ restarts[w] = 0
         /\ Become([Now EXCEPT !.status = again, !.turns = broken])
      \/ Become(NotedIfNothingLeft([Now EXCEPT !.status = gone, !.turns = broken]))
  BY DEF Crash
<1>4. /\ restarts' = [restarts EXCEPT ![w] = IF restarts[w] = 0 THEN 1 ELSE restarts[w]]
      /\ restarts \in [Workers -> {0, 1}]
      /\ pending' = pending /\ reloading' = reloading
  BY DEF Crash, Inv, Bookkeeping
<1>5. /\ Now.queue = queue /\ Now.inFlight = inFlight /\ Now.turns = turns
      /\ Now.status = status
  BY DEF Now
<1>6. restarts'[w] = 1 /\ \A v \in Workers \ {w} : restarts'[v] = restarts[v]
  BY <1>4
<1> HIDE DEF broken, again, gone
<1>7. ASSUME NEW st \in {again, gone}, NEW S,
             S = [Now EXCEPT !.status = st, !.turns = broken]
      PROVE  /\ Sound(S) /\ FirstStarts(S, restarts', reloading')
             /\ S.status = st /\ S.turns = broken /\ S.queue = queue /\ S.inFlight = inFlight
  <2>1. Sound(S)
    <3>1. /\ st \in [Workers -> {"unmade", "starting", "up", "dead"}]
          /\ \A v \in Workers : st[v] = "unmade" => status[v] = "unmade"
      BY <1>2
    <3> QED BY <1>1, <1>7, <3>1, LifeSound
  <2>2. S.status = st /\ S.turns = broken /\ S.queue = queue /\ S.inFlight = inFlight
    BY <1>7 DEF Now
  <2>3. FirstStarts(S, restarts', reloading')
    BY <1>1, <1>2, <1>4, <1>5, <1>6, <2>2 DEF FirstStarts, Thrifty
  <2> QED BY <2>1, <2>2, <2>3
<1>8. CASE Become([Now EXCEPT !.status = again, !.turns = broken])
  <2> DEFINE S == [Now EXCEPT !.status = again, !.turns = broken]
  <2>1. /\ Sound(S) /\ FirstStarts(S, restarts', reloading') /\ S.status = again
        /\ S.turns = broken /\ S.queue = queue /\ S.inFlight = inFlight /\ Become(S)
    BY <1>7, <1>8
  <2> HIDE DEF S
  <2>2. Conserving(S)
    BY <1>1, <1>2, <1>5, <2>1, SameSpread DEF Thrifty
  <2> QED BY <1>4, <2>1, <2>2, BecomeThrifty DEF Thrifty
<1>9. CASE Become(NotedIfNothingLeft([Now EXCEPT !.status = gone, !.turns = broken]))
  <2> DEFINE S == [Now EXCEPT !.status = gone, !.turns = broken]
  <2>1. /\ Sound(S) /\ FirstStarts(S, restarts', reloading') /\ S.status = gone
        /\ S.turns = broken /\ S.queue = queue /\ S.inFlight = inFlight
        /\ Become(NotedIfNothingLeft(S))
    BY <1>7, <1>9
  <2> HIDE DEF S
  <2>2. ASSUME AllAlive(S) PROVE Spread(S)
    <3>1. turns[w] = NoTurn
      BY <1>1, <1>2, <2>1, <2>2 DEF AllAlive, BusyIn
    <3>2. AllAlive(Now)
      BY <1>1, <1>2, <1>5, <2>1, <2>2 DEF AllAlive, BusyIn
    <3>3. w \in Idle(Now)
      BY <1>2, <1>5, <3>1 DEF Idle, Live
    <3>4. Waiting(Now) = {} /\ Waiting(S) = Waiting(Now)
      BY <1>5, <2>1, <3>2, <3>3 DEF Thrifty, Conserving, Spread, Waiting
    <3> QED BY <3>4 DEF Spread
  <2>3. Conserving(S)
    BY <2>2 DEF Conserving
  <2> QED BY <1>4, <2>1, <2>3, NotedThrifty, BecomeThrifty DEF Thrifty
<1> QED BY <1>3, <1>8, <1>9

LEMMA CancelThrifty ==
  ASSUME Inv, Thrifty, NEW s \in Scopes, Cancel(s)
  PROVE  ThriftStep
<1> DEFINE here == {w \in Workers : turns[w] # NoTurn /\ turns[w].scope = s}
           all == {w \in Workers : turns[w] # NoTurn}
           hit == IF here # {} THEN here ELSE all
           dropped == IF here # {} THEN activity \cap {s} ELSE activity
           t(w) == [turns[w] EXCEPT !.cancelled = TRUE,
                      !.stopSent = @ \/ turns[w].phase = "prompted"]
<1>1. /\ queue' = [q \in Scopes |-> IF q \in dropped THEN <<>> ELSE queue[q]]
      /\ turns' = [w \in Workers |-> IF w \in hit THEN t(w) ELSE turns[w]]
      /\ UNCHANGED <<inFlight, status, restarts, pending, reloading>>
  BY DEF Cancel
<1>2. \A w \in hit : w \in Workers /\ turns[w] # NoTurn
  OBVIOUS
<1>3. \A w \in Workers : turns[w] # NoTurn => t(w) \in Turn /\ t(w).phase = turns[w].phase
  <2> TAKE w \in Workers
  <2> HAVE turns[w] # NoTurn
  <2>1. turns[w] \in Turn /\ (turns[w].stopSent \/ turns[w].phase = "prompted") \in BOOLEAN
    BY TurnFields
  <2> QED BY <2>1 DEF Turn
<1> HIDE DEF hit, dropped, t
<1>4. \A w \in Workers :
        /\ turns'[w] = NoTurn <=> turns[w] = NoTurn
        /\ turns[w] # NoTurn => turns'[w].phase = turns[w].phase
  <2> TAKE w \in Workers
  <2>1. CASE w \in hit
    BY <1>1, <1>2, <1>3, <2>1, NoTurnAssumption
  <2>2. CASE w \notin hit
    BY <1>1, <2>2
  <2> QED BY <2>1, <2>2
<1> QED BY <1>1, <1>4, InPlaceThrifty

\* A reload starts the idle workers again: they live, and are idle, as before.
LEMMA ReloadThrifty ==
  ASSUME Inv, Thrifty, Reload
  PROVE  ThriftStep
<1>1. /\ Now.queue = queue /\ Now.turns = turns /\ Now.status = status
      /\ Now.inFlight = inFlight
      /\ Now'.queue = queue /\ Now'.turns = turns /\ Now'.status = status'
      /\ Now'.inFlight = inFlight
  BY DEF Now, Reload
<1>2. /\ \A w \in Workers : status'[w] = IF w \in Idle(Now) THEN "starting" ELSE status[w]
      /\ \A w \in Idle(Now) : w \in Live(Now) /\ status[w] \in {"starting", "up"}
      /\ reloading' = Live(Now) /\ pending' \subseteq Live(Now) /\ restarts' = restarts
      /\ reloading = {}
  BY <1>1 DEF Reload, Idle, Live
<1> HIDE DEF Now
<1>3. Conserving(Now')
  <2>1. \A w \in Workers :
          /\ Now'.turns[w] = NoTurn <=> Now.turns[w] = NoTurn
          /\ Now'.status[w] \in {"starting", "up"} <=> Now.status[w] \in {"starting", "up"}
          /\ Now.status[w] = "dead" => Now'.status[w] = "dead"
    BY <1>1, <1>2
  <2> QED BY <1>1, <2>1, SameSpread DEF Thrifty
<1>4. FirstStarts(Now', restarts', reloading')
  BY <1>1, <1>2 DEF Thrifty, FirstStarts
<1> QED BY <1>2, <1>3, <1>4 DEF ThriftStep

LEMMA ThriftyStep ==
  Inv /\ (~stopping => Thrifty) /\ [Next]_vars => (~stopping' => ThriftStep)
<1> SUFFICES ASSUME Inv, ~stopping => Thrifty, [Next]_vars, ~stopping' PROVE ThriftStep
  OBVIOUS
<1>1. CASE Stop
  BY <1>1 DEF Stop
<1>2. CASE Drop \/ Redial \/ Rejoined \/ UNCHANGED vars
  <2>1. /\ UNCHANGED <<queue, inFlight, turns, status, restarts, pending, reloading>>
        /\ Thrifty
    BY <1>2 DEF Drop, Redial, Rejoined, vars, engine
  <2> QED BY <2>1, InPlaceThrifty
<1>3. CASE Reload
  BY <1>3, ReloadThrifty DEF Reload
<1>4. CASE \E s \in Scopes : Enqueue(s) \/ Cancel(s)
  BY <1>4, EnqueueThrifty, CancelThrifty DEF Enqueue, Cancel
<1>5. ASSUME NEW w \in Workers, TurnStep(w) PROVE ThriftStep
  <2>1. stopping' = stopping
    BY <1>5 DEF TurnStep, Begin, BeginNothing, BeginFails, Opened, OpenFails, Prompt,
       Answer, PromptFails, Stall, Unchanged1
  <2> QED BY <1>5, <2>1, TurnStepThrifty
<1>6. ASSUME NEW w \in Workers, WorkerStep(w) PROVE ThriftStep
  BY <1>6, StartOkThrifty, StartFailsThrifty, CrashThrifty
     DEF WorkerStep, StartOk, StartFails, Crash
<1> QED BY <1>1, <1>2, <1>3, <1>4, <1>5, <1>6 DEF Next

LEMMA ThriftyInit == Init => Thrifty
<1> SUFFICES ASSUME Init PROVE Thrifty
  OBVIOUS
<1>1. \A s \in Scopes : Now.queue[s] = <<>>
  BY DEF Init, Now
<1>2. \A w \in Workers : Now.status[w] # "starting"
  BY DEF Init, Now
<1>3. pending \subseteq reloading
  BY DEF Init
<1> QED BY <1>1, <1>2, <1>3 DEF Thrifty, Conserving, Spread, Waiting, FirstStarts

\* Nobody waits while a worker is idle or one more may be made, through every
\* crash, failed start, retry, reload and reconnect (#drain, claim): the drains
\* the handlers end with are enough.
THEOREM NobodyWaitsBesideAnIdleWorker == Spec => []WorkConserving
<1>1. Thrifty' <=> ThriftStep
  BY DEF Thrifty, ThriftStep
<1>2. Inv /\ (~stopping => Thrifty) /\ [Next]_vars => (~stopping' => Thrifty')
  BY <1>1, ThriftyStep
<1>3. (~stopping => Thrifty) => WorkConserving
  <2>1. BusyIn(Now) = Busy /\ Now.status = status
    BY DEF BusyIn, Busy, Now
  <2> QED BY <2>1 DEF WorkConserving, Thrifty, Conserving, Spread, AllAlive
<1> QED BY <1>2, <1>3, InitInv, NextInv, ThriftyInit, PTL DEF Spec

-----------------------------------------------------------------------------
(* The ceiling, and how far a turn is: of a picture.                       *)

Lives(S, w) == S.status[w] \in {"starting", "up"}
Modest(S) == Cardinality(Live(S)) <= MaxLive
\* What was put to the runtime is of a turn that got that far.
Phased(S) == \A w \in BusyIn(S) : S.turns[w].prompted => S.turns[w].phase = "prompted"
Fit(S) == Modest(S) /\ Phased(S)

\* No more workers live, and every turn there is was there or fits.
LEMMA SmallerFit ==
  ASSUME NEW S, NEW T, Fit(S),
         \A w \in Workers : Lives(T, w) => Lives(S, w),
         \A w \in Workers :
           \/ T.turns[w] \in {S.turns[w], NoTurn}
           \/ T.turns[w].prompted => T.turns[w].phase = "prompted"
  PROVE  Fit(T)
<1>1. Live(T) \subseteq Live(S) /\ IsFiniteSet(Live(S))
  BY PoolAssumption, FS_Subset DEF Live, Lives
<1>2. IsFiniteSet(Live(T)) /\ Cardinality(Live(T)) <= Cardinality(Live(S))
  BY <1>1, FS_Subset
<1>3. Cardinality(Live(T)) \in Nat /\ Cardinality(Live(S)) \in Nat /\ MaxLive \in Nat
  BY <1>1, <1>2, FS_CardinalityType, PoolAssumption
<1>4. Modest(T)
  BY <1>2, <1>3 DEF Fit, Modest
<1>5. Phased(T)
  BY DEF Fit, Phased, BusyIn
<1> QED BY <1>4, <1>5 DEF Fit

LEMMA StartedFit ==
  ASSUME NEW S, Sound(S), Fit(S), NEW c \in Claims(S)
  PROVE  Fit(Started(S, c))
<1> DEFINE taken == {c[s] : s \in DOMAIN c}
           made == taken \cap Unmade(S)
           T == Started(S, c)
<1>1. Cardinality(Live(S)) + Cardinality(made) <= MaxLive
  <2>1. PICK D \in SUBSET Waiting(S) :
          /\ c \in Injection(D, Idle(S) \cup Unmade(S))
          /\ LET tk == {c[s] : s \in D}
                 md == tk \cap Unmade(S)
             IN Cardinality(Live(S)) + Cardinality(md) <= MaxLive
    BY DEF Claims
  <2>2. DOMAIN c = D
    BY <2>1 DEF Injection
  <2> QED BY <2>1, <2>2
<1>2. taken \subseteq Workers
  BY ClaimsShape DEF Idle, Live, Unmade
<1>3. \A w \in Workers : T.status[w] = IF w \in taken /\ S.status[w] = "unmade"
                                       THEN "starting" ELSE S.status[w]
  BY DEF Started
<1>4. Starts(S, T)
  BY StartedStarts
<1> HIDE DEF T
<1>5. Live(T) = Live(S) \cup made
  <2>1. \A w \in Workers : w \in Live(T) <=> w \in Live(S) \/ w \in made
    BY <1>3 DEF Live, Unmade
  <2>2. Live(T) \subseteq Workers /\ Live(S) \subseteq Workers /\ made \subseteq Workers
    BY <1>2 DEF Live
  <2> QED BY <2>1, <2>2
<1>6. Modest(T)
  <2>1. IsFiniteSet(Live(S)) /\ IsFiniteSet(made)
    BY <1>2, PoolAssumption, FS_Subset DEF Live
  <2> HIDE DEF made
  <2>2. Cardinality(Live(T)) =
          Cardinality(Live(S)) + Cardinality(made) - Cardinality(Live(S) \cap made)
    BY <1>5, <2>1, FS_Union
  <2>3. IsFiniteSet(Live(S) \cap made)
    BY <2>1, FS_Intersection
  <2>4. {Cardinality(Live(S)), Cardinality(made), Cardinality(Live(S) \cap made)} \subseteq Nat
    BY <2>1, <2>3, FS_CardinalityType
  <2> QED BY <1>1, <2>2, <2>4, PoolAssumption DEF Modest
<1>7. Phased(T)
  <2> SUFFICES ASSUME NEW w \in BusyIn(T), T.turns[w].prompted
               PROVE  T.turns[w].phase = "prompted"
    BY DEF Phased
  <2>1. w \in BusyIn(S) /\ T.turns[w] = S.turns[w]
    BY <1>4 DEF Starts
  <2> QED BY <2>1 DEF Fit, Phased
<1> QED BY <1>6, <1>7 DEF Fit, T

LEMMA RefusedFit == ASSUME NEW S, Fit(S) PROVE Fit(Refused(S))
<1>1. Refused(S).status = S.status /\ Refused(S).turns = S.turns
  BY DEF Refused
<1> QED BY <1>1 DEF Fit, Modest, Live, Phased, BusyIn

LEMMA DrainedFit ==
  ASSUME NEW S, Sound(S), Fit(S), NEW D \in Drained(S)
  PROVE  Fit(D)
BY StartedFit, RefusedFit DEF Drained

LEMMA NotedFit == ASSUME NEW S, Fit(S) PROVE Fit(NotedIfNothingLeft(S))
BY RefusedFit DEF NotedIfNothingLeft

LEMMA ClosedFit ==
  ASSUME NEW S, Sound(S), Fit(S), NEW w \in Workers, NEW r \in BOOLEAN
  PROVE  Fit(Closed(w, S, r))
<1> DEFINE C == Closed(w, S, r)
<1>1. C.turns = [S.turns EXCEPT ![w] = NoTurn]
      /\ \A v \in Workers : C.status[v] = S.status[v] \/ (C.status[v] = "starting" /\ S.status[v] = "up")
  BY DEF Closed, Sound, Typed
<1>2. \A v \in Workers : C.turns[v] \in {S.turns[v], NoTurn} /\ (Lives(C, v) => Lives(S, v))
  BY <1>1 DEF Lives, Sound, Typed
<1> HIDE DEF C
<1>3. Fit(C)
  BY <1>2, SmallerFit
<1> QED BY <1>3 DEF C

-----------------------------------------------------------------------------
(* ... and of the variables.                                               *)

\* The picture that comes to be, with what was done to it on the way.
LEMMA BecomeFit ==
  ASSUME NEW S, Sound(S), Fit(S),
         \/ Become(S) \/ Become(NotedIfNothingLeft(S))
         \/ \E D \in Drained(S) : Become(D)
         \/ \E D \in Drained(NotedIfNothingLeft(S)) : Become(D)
  PROVE  Fit(Now')
<1>1. Sound(NotedIfNothingLeft(S)) /\ Fit(NotedIfNothingLeft(S))
  BY NotedSound, NotedFit
<1>2. \A D \in Drained(S) \cup Drained(NotedIfNothingLeft(S)) : Sound(D) /\ Fit(D)
  BY <1>1, DrainedSound, DrainedFit
<1> QED BY <1>1, <1>2, BecomeNow

LEMMA TurnEndsFit ==
  ASSUME Fit(Now), NEW S, Sound(S), S.turns = turns, S.status = status,
         NEW w \in Workers, turns[w] # NoTurn, NEW r \in BOOLEAN, TurnEnds(w, S, r)
  PROVE  Fit(Now')
<1>1. Now.turns = turns /\ Now.status = status
  BY DEF Now
<1>2. Fit(S)
  BY <1>1 DEF Fit, Modest, Live, Phased, BusyIn
<1>3. Sound(Closed(w, S, r)) /\ Fit(Closed(w, S, r))
  BY <1>2, ClosedSound, ClosedFit
<1> QED BY <1>3, BecomeFit DEF TurnEnds

LEMMA TurnFailsFit ==
  ASSUME Inv, Fit(Now), NEW w \in Workers, turns[w] # NoTurn, NEW r \in BOOLEAN, TurnFails(w, r)
  PROVE  Fit(Now')
<1>1. Sound(Now) /\ Now.turns = turns /\ Now.status = status
  BY DEF Inv, Now
<1>2. CASE TurnEnds(w, Now, FALSE)
  BY <1>1, <1>2, TurnEndsFit
<1>3. CASE TurnEnds(w, Said(Now, turns[w].batch), FALSE)
  <2> PICK S : S = Said(Now, turns[w].batch)
    OBVIOUS
  <2>1. Sound(S) /\ S.turns = turns /\ S.status = status
    BY SaidSound DEF Said, Now
  <2> QED BY <1>3, <2>1, TurnEndsFit
<1>4. CASE TurnEnds(w, Retried(w), TRUE)
  BY <1>4, RetriedSound, TurnEndsFit
<1> QED BY <1>2, <1>3, <1>4, TurnFailsHow

\* Turns are rewritten where they are, and none is put to the runtime that is
\* not at its prompt; no worker comes to live.
LEMMA InPlaceFit ==
  ASSUME Fit(Now),
         \A w \in Workers : status'[w] \in {"starting", "up"} => status[w] \in {"starting", "up"},
         \A w \in Workers : \/ turns'[w] \in {turns[w], NoTurn}
                            \/ turns'[w].prompted => turns'[w].phase = "prompted"
  PROVE  Fit(Now')
<1>1. Now.turns = turns /\ Now.status = status /\ Now'.turns = turns' /\ Now'.status = status'
  BY DEF Now
<1> HIDE DEF Now
<1> QED BY <1>1, SmallerFit DEF Lives

LEMMA TurnStepFit ==
  ASSUME Inv, Fit(Now), NEW w \in Workers, TurnStep(w)
  PROVE  Fit(Now')
<1>1. /\ refused \in BOOLEAN /\ turns \in [Workers -> Turn \cup {NoTurn}]
      /\ turns[w] # NoTurn /\ turns[w] \in Turn
  BY NowTyped, TurnFields DEF Inv, Bookkeeping, TurnStep, Begin, BeginNothing, BeginFails, Opened,
     OpenFails, Prompt, Answer, PromptFails, Stall
<1>2. Sound(Now) /\ Now.turns = turns /\ Now.status = status
  BY DEF Inv, Now
<1>3. CASE BeginNothing(w) \/ (Opened(w) /\ TurnEnds(w, Now, FALSE))
  BY <1>1, <1>2, <1>3, TurnEndsFit DEF BeginNothing
<1>4. CASE BeginFails(w) \/ OpenFails(w) \/ PromptFails(w)
  <2>1. PICK r \in BOOLEAN : TurnFails(w, r)
    BY <1>1, <1>4 DEF BeginFails, OpenFails, PromptFails
  <2> QED BY <1>1, <2>1, TurnFailsFit
<1>5. CASE Answer(w)
  <2> PICK S : S = Said(Now, turns[w].batch)
    OBVIOUS
  <2>1. Sound(S) /\ S.turns = turns /\ S.status = status
    BY <1>1, SaidSound DEF Said, Now
  <2>2. TurnEnds(w, S, FALSE)
    BY <1>5 DEF Answer
  <2> QED BY <1>1, <2>1, <2>2, TurnEndsFit
<1>6. turns[w].prompted => turns[w].phase = "prompted"
  BY <1>1, <1>2 DEF Fit, Phased, BusyIn
<1>7. ASSUME NEW t \in Turn, turns' = [turns EXCEPT ![w] = t], status' = status,
             t.prompted => t.phase = "prompted"
      PROVE  Fit(Now')
  BY <1>1, <1>7, InPlaceFit
<1>8. CASE Begin(w) \/ (Opened(w) /\ ~TurnEnds(w, Now, FALSE))
  <2>1. PICK ph \in {"opening", "priming"} : turns' = [turns EXCEPT ![w] = [turns[w] EXCEPT !.phase = ph]]
    BY <1>1, <1>8 DEF Begin, Opened
  <2>2. turns[w].phase # "prompted" /\ status' = status
    BY <1>8 DEF Begin, Opened
  <2> PICK t : t = [turns[w] EXCEPT !.phase = ph]
    OBVIOUS
  <2>3. t \in Turn /\ t.prompted = turns[w].prompted
    BY <1>1 DEF Turn, Phases
  <2> QED BY <1>6, <1>7, <2>1, <2>2, <2>3
<1>9. CASE Prompt(w) \/ Stall(w)
  <2> DEFINE prompted == [turns[w] EXCEPT !.phase = "prompted", !.prompted = TRUE]
             stalled == [turns[w] EXCEPT !.cancelled = TRUE, !.stopSent = TRUE]
  <2>1. prompted \in Turn /\ prompted.phase = "prompted"
    BY <1>1 DEF Turn, Phases
  <2>2. stalled \in Turn /\ stalled.phase = turns[w].phase
    BY <1>1 DEF Turn, Phases
  <2>3. Prompt(w) => turns' = [turns EXCEPT ![w] = prompted] /\ status' = status
    BY DEF Prompt
  <2>4. Stall(w) => turns' = [turns EXCEPT ![w] = stalled] /\ status' = status /\ turns[w].phase = "prompted"
    BY DEF Stall
  <2> HIDE DEF prompted, stalled
  <2> QED BY <1>7, <1>9, <2>1, <2>2, <2>3, <2>4
<1> QED BY <1>3, <1>4, <1>5, <1>8, <1>9 DEF TurnStep

LEMMA LifeFit ==
  ASSUME Fit(Now), NEW st, NEW ts,
         \A v \in Workers : st[v] \in {"starting", "up"} => status[v] \in {"starting", "up"},
         \A v \in Workers : ts[v] = NoTurn \/ (ts[v].prompted => ts[v].phase = "prompted")
  PROVE  Fit([Now EXCEPT !.status = st, !.turns = ts])
<1>0. PICK S : S = [Now EXCEPT !.status = st, !.turns = ts]
  OBVIOUS
<1>1. S.turns = ts /\ S.status = st /\ Now.status = status
  BY <1>0 DEF Now
<1>2. \A v \in Workers : Lives(S, v) => Lives(Now, v)
  BY <1>1 DEF Lives
<1>3. \A v \in Workers : S.turns[v] \in {Now.turns[v], NoTurn}
                        \/ (S.turns[v].prompted => S.turns[v].phase = "prompted")
  BY <1>1
<1>4. Fit(S)
  BY <1>2, <1>3, SmallerFit
<1> QED BY <1>0, <1>4

LEMMA WorkerStepFit ==
  ASSUME Inv, Fit(Now), NEW w \in Workers, WorkerStep(w)
  PROVE  Fit(Now')
<1>1. /\ status \in [Workers -> {"unmade", "starting", "up", "dead"}]
      /\ turns \in [Workers -> Turn \cup {NoTurn}] /\ Now.turns = turns /\ Now.status = status
  BY NowTyped DEF Inv, Now
<1>2. CASE StartOk(w)
  <2> PICK st : st = [status EXCEPT ![w] = "up"]
    OBVIOUS
  <2> PICK S : S = [Now EXCEPT !.status = st]
    OBVIOUS
  <2>1. Sound(S) /\ S.turns = turns /\ S.status = st
    BY <1>2, OneLifeSound DEF StartOk, Now
  <2>2. \A v \in Workers : st[v] \in {"starting", "up"} => status[v] \in {"starting", "up"}
    BY <1>1, <1>2 DEF StartOk
  <2>3. Fit(S)
    BY <1>1, <2>1, <2>2, SmallerFit DEF Lives
  <2>4. Become(S) \/ \E D \in Drained(S) : Become(D)
    BY <1>2 DEF StartOk
  <2> QED BY <2>1, <2>3, <2>4, BecomeFit
<1>3. CASE StartFails(w)
  <2> PICK st : st = [status EXCEPT ![w] = "dead"]
    OBVIOUS
  <2> PICK S : S = [Now EXCEPT !.status = st]
    OBVIOUS
  <2>1. Sound(S) /\ S.turns = turns /\ S.status = st
    BY <1>3, OneLifeSound DEF StartFails, Now
  <2>2. \A v \in Workers : st[v] \in {"starting", "up"} => status[v] \in {"starting", "up"}
    BY <1>1
  <2>3. Fit(S)
    BY <1>1, <2>1, <2>2, SmallerFit DEF Lives
  <2>4. Become(S) \/ \E D \in Drained(NotedIfNothingLeft(S)) : Become(D)
    BY <1>3 DEF StartFails
  <2> QED BY <2>1, <2>3, <2>4, BecomeFit
<1>4. CASE Crash(w)
  <2> DEFINE broken == IF turns[w] # NoTurn /\ turns[w].phase # "starting"
                       THEN [turns EXCEPT ![w].lost = TRUE] ELSE turns
  <2>1. /\ broken \in [Workers -> Turn \cup {NoTurn}]
        /\ \A v \in Workers : /\ broken[v] = NoTurn <=> turns[v] = NoTurn
                              /\ turns[v] # NoTurn => /\ broken[v].scope = turns[v].scope
                                                      /\ broken[v].phase = turns[v].phase
                                                      /\ broken[v].prompted = turns[v].prompted
    <3>1. CASE broken = turns
      BY <1>1, <3>1
    <3>2. CASE turns[w] # NoTurn
      <4>1. turns[w] \in Turn
        BY <1>1, <3>2
      <4>2. /\ [turns[w] EXCEPT !.lost = TRUE] \in Turn
            /\ [turns[w] EXCEPT !.lost = TRUE].scope = turns[w].scope
            /\ [turns[w] EXCEPT !.lost = TRUE].phase = turns[w].phase
            /\ [turns[w] EXCEPT !.lost = TRUE].prompted = turns[w].prompted
        BY <4>1 DEF Turn
      <4> QED BY <1>1, <3>2, <4>2, NoTurnAssumption
    <3> QED BY <3>1, <3>2
  <2> DEFINE again == [status EXCEPT ![w] = "starting"]
             gone == [status EXCEPT ![w] = "dead"]
  <2>2. \/ Become([Now EXCEPT !.status = again, !.turns = broken])
        \/ Become(NotedIfNothingLeft([Now EXCEPT !.status = gone, !.turns = broken]))
    BY <1>4 DEF Crash
  <2>3. \A st \in {again, gone} :
          /\ st \in [Workers -> {"unmade", "starting", "up", "dead"}]
          /\ \A v \in Workers : st[v] = "unmade" => status[v] = "unmade"
          /\ \A v \in Workers : st[v] \in {"starting", "up"} => status[v] \in {"starting", "up"}
    BY <1>1, <1>4 DEF Crash
  <2> HIDE DEF broken, again, gone
  <2>4. /\ Sound([Now EXCEPT !.status = again, !.turns = broken])
        /\ Sound([Now EXCEPT !.status = gone, !.turns = broken])
    BY <2>1, <2>3, LifeSound, Zenon
  <2>5. \A v \in Workers : broken[v] = NoTurn \/ (broken[v].prompted => broken[v].phase = "prompted")
    BY <1>1, <2>1 DEF Fit, Phased, BusyIn
  <2>6. /\ Fit([Now EXCEPT !.status = again, !.turns = broken])
        /\ Fit([Now EXCEPT !.status = gone, !.turns = broken])
    BY <2>3, <2>5, LifeFit, Zenon
  <2> QED BY <2>2, <2>4, <2>6, BecomeFit
<1> QED BY <1>2, <1>3, <1>4 DEF WorkerStep

LEMMA NextFit == ASSUME Inv, Fit(Now), [Next]_vars PROVE Fit(Now')
<1>1. Sound(Now) /\ Now.turns = turns /\ Now.status = status
  BY DEF Inv, Now
<1>2. CASE UNCHANGED <<status, turns>>
  BY <1>2, InPlaceFit
<1>3. CASE Drop \/ Redial \/ Rejoined \/ UNCHANGED vars
  <2>1. UNCHANGED <<status, turns>>
    BY <1>3 DEF Drop, Redial, Rejoined, vars, engine
  <2> QED BY <1>2, <2>1
<1>4. CASE Reload
  <2>1. turns' = turns /\ \A w \in Workers : status'[w] \in {"starting", "up"} => status[w] \in {"starting", "up"}
    BY <1>1, <1>4 DEF Reload, Idle, Live
  <2> QED BY <2>1, InPlaceFit
<1>5. ASSUME NEW s \in Scopes, Enqueue(s) PROVE Fit(Now')
  <2> PICK S : S = Arrived(s)
    OBVIOUS
  <2>1. Sound(S) /\ S.turns = turns /\ S.status = status /\ \E D \in Drained(S) : Become(D)
    BY <1>5, ArrivedSound
  <2>2. Fit(S)
    BY <1>1, <2>1 DEF Fit, Modest, Live, Phased, BusyIn
  <2> QED BY <2>1, <2>2, BecomeFit
<1>6. ASSUME \A w \in Workers :
               \/ turns'[w] = turns[w]
               \/ turns[w] # NoTurn /\ turns'[w].phase = turns[w].phase /\ turns'[w].prompted = turns[w].prompted,
             status' = status
      PROVE  Fit(Now')
  <2>1. \A w \in Workers : turns[w] # NoTurn => (turns[w].prompted => turns[w].phase = "prompted")
    BY <1>1 DEF Fit, Phased, BusyIn
  <2> QED BY <1>6, <2>1, InPlaceFit
<1>7. \A w \in Workers : turns[w] # NoTurn => turns[w] \in Turn
  BY TurnFields
<1>8. CASE Stop
  <2> DEFINE off(w) == [turns[w] EXCEPT !.cancelled = TRUE, !.lost = TRUE]
  <2>1. \A w \in Workers : turns'[w] = IF turns[w] = NoTurn THEN NoTurn ELSE off(w)
    BY <1>8, Zenon DEF Stop
  <2>2. \A w \in Workers : turns[w] # NoTurn =>
          off(w).phase = turns[w].phase /\ off(w).prompted = turns[w].prompted
    BY <1>7 DEF Turn
  <2>3. status' = status
    BY <1>8, Zenon DEF Stop
  <2> HIDE DEF off
  <2> QED BY <1>6, <2>1, <2>2, <2>3
<1>9. ASSUME NEW s \in Scopes, Cancel(s) PROVE Fit(Now')
  <2> DEFINE off(w) == [turns[w] EXCEPT !.cancelled = TRUE,
                          !.stopSent = @ \/ turns[w].phase = "prompted"]
  <2>1. \A w \in Workers : turns'[w] = turns[w] \/ (turns[w] # NoTurn /\ turns'[w] = off(w))
    BY <1>9, Zenon DEF Cancel
  <2>2. \A w \in Workers : turns[w] # NoTurn =>
          off(w).phase = turns[w].phase /\ off(w).prompted = turns[w].prompted
    BY <1>7 DEF Turn
  <2>3. status' = status
    BY <1>9, Zenon DEF Cancel
  <2> HIDE DEF off
  <2> QED BY <1>6, <2>1, <2>2, <2>3
<1> QED BY <1>3, <1>4, <1>5, <1>8, <1>9, TurnStepFit, WorkerStepFit DEF Next

LEMMA InitFit == Init => Fit(Now)
<1> SUFFICES ASSUME Init PROVE Fit(Now)
  OBVIOUS
<1>1. PICK w \in Workers : status = [v \in Workers |-> IF v = w THEN "up" ELSE "unmade"]
  BY DEF Init
<1>2. Live(Now) = {w}
  BY <1>1 DEF Live, Now
<1>3. Cardinality(Live(Now)) = 1
  BY <1>2, FS_Singleton
<1>4. Modest(Now)
  BY <1>3, PoolAssumption DEF Modest
<1>5. Phased(Now)
  BY DEF Init, Now, Phased, BusyIn
<1> QED BY <1>4, <1>5 DEF Fit

AllFit == Fit(Now)

LEMMA SpecFit == Spec => []AllFit
<1>1. Inv /\ AllFit /\ [Next]_vars => AllFit'
  <2>1. Fit(Now') => AllFit'
    BY DEF AllFit, Fit, Modest, Live, Phased, BusyIn
  <2> QED BY <2>1, NextFit DEF AllFit
<1>2. Init => AllFit
  BY InitFit DEF AllFit
<1> QED BY <1>1, <1>2, InitInv, NextInv, PTL DEF Spec

\* However often workers die, restart, fail to start or are replaced, no more
\* of them live than the agent's parallelism (pool.ts claim).
THEOREM NoMoreWorkersThanAllowed == Spec => []LiveWithinCeiling
<1>1. AllFit => LiveWithinCeiling
  <2>1. Live(Now) = {w \in Workers : status[w] \in {"starting", "up"}}
    BY DEF Live, Now
  <2> QED BY <2>1 DEF AllFit, Fit, Modest, LiveWithinCeiling
<1> QED BY <1>1, SpecFit, PTL

-----------------------------------------------------------------------------
(* What the runtime was shown.                                             *)

\* What was shown is of no turn that is still to show it, and waits nowhere.
Spent(S, n, sh) ==
  \A m \in Msgs : /\ sh[m] \in {0, 1}
                  /\ sh[m] = 1 => m <= n /\ ~Waits(S, m) /\ ~Holds(S, m, FALSE)

LEMMA UnshownStep ==
  ASSUME Inv, Spent(Now, sent, shown), MailStep, sent' \in {sent, sent + 1}, shown' = shown
  PROVE  Spent(Now', sent', shown')
<1>1. sent \in Nat
  BY BoundAssumption DEF Inv, Bookkeeping
<1>2. \A m \in Msgs : m <= sent => m \in 1..sent /\ m <= sent'
  BY <1>1 DEF Msgs
<1>3. ASSUME NEW m \in Msgs
      PROVE  /\ shown[m] \in {0, 1}
             /\ shown[m] = 1 => m <= sent' /\ ~Waits(Now', m) /\ ~Holds(Now', m, FALSE)
  <2>1. shown[m] \in {0, 1} /\ (shown[m] = 1 => m <= sent /\ ~Waits(Now, m) /\ ~Holds(Now, m, FALSE))
    BY DEF Spent
  <2>2. m \in 1..sent =>
          (Waits(Now', m) \/ Holds(Now', m, FALSE) => Waits(Now, m) \/ Holds(Now, m, FALSE))
    BY DEF MailStep
  <2> QED BY <1>2, <2>1, <2>2
<1> QED BY <1>3 DEF Spent

\* A prompt shows the messages of a turn that has shown none.
LEMMA PromptShows ==
  ASSUME Inv, Orderly(Now, asked), AllFit, Spent(Now, sent, shown), NEW w \in Workers, Prompt(w)
  PROVE  Spent(Now', sent', shown')
<1>1. /\ turns[w] # NoTurn /\ turns[w].phase # "prompted" /\ sent' = sent /\ queue' = queue
      /\ turns' = [turns EXCEPT ![w] = [turns[w] EXCEPT !.phase = "prompted", !.prompted = TRUE]]
      /\ turns \in [Workers -> Turn \cup {NoTurn}] /\ turns[w] \in Turn
  BY NowTyped, TurnFields DEF Inv, Prompt, Unchanged1
<1>2. Now.turns = turns /\ Now.queue = queue /\ Now'.turns = turns' /\ Now'.queue = queue'
  BY DEF Now
<1>3. w \in BusyIn(Now) /\ turns[w].prompted = FALSE
  <2>1. w \in BusyIn(Now)
    BY <1>1, <1>2 DEF BusyIn
  <2>2. turns[w].prompted => turns[w].phase = "prompted"
    BY <1>2, <2>1 DEF AllFit, Fit, Phased
  <2> QED BY <1>1, <2>1, <2>2 DEF Turn
<1>4. MailStep /\ Orderly(Now', asked') /\ sent \in Nat
  BY PromptOrderly, BoundAssumption DEF OrderStep, Inv, Bookkeeping
<1>5. ASSUME NEW m \in MsgsOf(turns[w].batch), m \in Msgs
      PROVE  /\ shown[m] = 0 /\ m <= sent
             /\ ~Waits(Now', m) /\ ~Holds(Now', m, FALSE)
  <2>1. Holds(Now, m, FALSE)
    BY <1>2, <1>3 DEF Holds
  <2>2. shown[m] = 0 /\ m <= sent
    <3>1. m \in 1..sent
      BY <1>5, <2>1, HeldIsSent, Zenon
    <3>2. shown[m] \in {0, 1} /\ (shown[m] = 1 => ~Holds(Now, m, FALSE))
      BY <1>5, Zenon DEF Spent
    <3>3. sent \in Nat
      BY <1>4
    <3>4. m <= sent
      BY <3>1, <3>3
    <3>5. shown[m] = 0
      BY <2>1, <3>2, Zenon
    <3> QED BY <3>4, <3>5, Zenon
  <2>3. Holds(Now', m, TRUE)
    <3> DEFINE t == [turns[w] EXCEPT !.phase = "prompted", !.prompted = TRUE]
    <3>1. t \in Turn /\ t.batch = turns[w].batch /\ t.prompted = TRUE
      BY <1>1 DEF Turn, Phases
    <3>2. turns'[w] = t
      BY <1>1
    <3> HIDE DEF t
    <3>3. w \in BusyIn(Now')
      BY <1>2, <3>1, <3>2, NoTurnAssumption DEF BusyIn
    <3> QED BY <1>2, <3>1, <3>2, <3>3 DEF Holds
  <2>4. OnePlace(Now', m)
    <3>1. Sound(Now')
      BY PromptInv DEF Inv, Sound, Typed, Exclusive, UnmadeIsIdle, BusyIn
    <3> QED BY <1>4, <1>5, <3>1, OrderlyOnePlace
  <2> QED BY <2>2, <2>3, <2>4 DEF OnePlace
<1>6. ASSUME NEW m \in Msgs
      PROVE  /\ shown'[m] \in {0, 1}
             /\ shown'[m] = 1 => m <= sent /\ ~Waits(Now', m) /\ ~Holds(Now', m, FALSE)
  <2>1. shown'[m] = shown[m] \/ (m \in MsgsOf(turns[w].batch) /\ shown'[m] = shown[m] + 1)
    BY <1>6 DEF Prompt
  <2>2. CASE shown'[m] = shown[m]
    <3>1. shown[m] \in {0, 1} /\ (shown[m] = 1 => m <= sent /\ ~Waits(Now, m) /\ ~Holds(Now, m, FALSE))
      BY <1>6 DEF Spent
    <3>2. m <= sent => (Waits(Now', m) \/ Holds(Now', m, FALSE) => Waits(Now, m) \/ Holds(Now, m, FALSE))
      <4>1. m <= sent => m \in 1..sent
        BY <1>4, <1>6 DEF Msgs
      <4> QED BY <1>4, <4>1 DEF MailStep
    <3> QED BY <2>2, <3>1, <3>2
  <2>3. CASE m \in MsgsOf(turns[w].batch) /\ shown'[m] = shown[m] + 1
    <3>1. shown[m] = 0 /\ m <= sent /\ ~Waits(Now', m) /\ ~Holds(Now', m, FALSE)
      BY <1>5, <1>6, <2>3
    <3>2. shown'[m] = shown[m] + 1 /\ shown[m] = 0
      BY <2>3, <3>1, Zenon
    <3>3. shown'[m] \in {0, 1}
      BY <3>2
    <3> QED BY <3>1, <3>3, Zenon
  <2> QED BY <2>1, <2>2, <2>3
<1> QED BY <1>1, <1>6 DEF Spent

AllSpent == Spent(Now, sent, shown)

\* No message is ever put to the runtime twice, through every crash, failed
\* start, reload and retry (#turnFailed): a turn that goes back was not prompted.
THEOREM NothingIsShownTwice == Spec => []ShownOnce
<1>1. ASSUME Inv, Orderly(Now, asked), AllFit, AllSpent, [Next]_vars
      PROVE  AllSpent'
  <2>1. Spent(Now', sent', shown') => AllSpent'
    BY DEF AllSpent, Spent, Waits, Holds, BusyIn
  <2>2. MailStep /\ sent' \in {sent, sent + 1}
    BY <1>1, NextOrderly, SentGrows DEF OrderStep
  <2>3. CASE shown' = shown
    BY <1>1, <2>1, <2>2, <2>3, UnshownStep DEF AllSpent
  <2>4. ASSUME NEW w \in Workers, Prompt(w) PROVE AllSpent'
    BY <1>1, <2>1, <2>4, PromptShows DEF AllSpent
  <2>5. ASSUME NEW w \in Workers, TurnStep(w), ~Prompt(w) PROVE shown' = shown
    BY <2>5 DEF TurnStep, Begin, BeginNothing, BeginFails, Opened, OpenFails, Answer, PromptFails, Stall
  <2>6. ASSUME NEW w \in Workers, WorkerStep(w) PROVE shown' = shown
    BY <2>6 DEF WorkerStep, StartOk, StartFails, Crash, Unchanged2
  <2>7. ASSUME NEW s \in Scopes, Enqueue(s) \/ Cancel(s) PROVE shown' = shown
    <3>1. Enqueue(s) => shown' = shown
      BY DEF Enqueue
    <3>2. Cancel(s) => shown' = shown
      BY Zenon DEF Cancel
    <3> QED BY <2>7, <3>1, <3>2
  <2>8. Reload \/ Drop \/ Redial \/ Rejoined \/ Stop \/ UNCHANGED vars => shown' = shown
    <3>1. Reload \/ Stop => shown' = shown
      BY Zenon DEF Reload, Stop, Unchanged2
    <3>2. Drop \/ Redial \/ Rejoined => shown' = shown
      BY DEF Drop, Redial, Rejoined
    <3>3. UNCHANGED vars => shown' = shown
      BY DEF vars
    <3> QED BY <3>1, <3>2, <3>3
  <2> QED BY <1>1, <2>3, <2>4, <2>5, <2>6, <2>7, <2>8 DEF Next
<1>2. Init => AllSpent
  BY DEF Init, AllSpent, Spent
<1>3. AllSpent => ShownOnce
  <2>1. AllSpent => \A m \in Msgs : shown[m] \in {0, 1}
    BY DEF AllSpent, Spent
  <2> QED BY <2>1 DEF ShownOnce
<1> QED BY <1>1, <1>2, <1>3, SpecOrderly, SpecFit, PTL DEF Spec
=============================================================================
