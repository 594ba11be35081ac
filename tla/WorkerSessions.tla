--------------------------- MODULE WorkerSessions ---------------------------
(***************************************************************************)
(* The sessions of one worker: which conversations its runtime process     *)
(* holds, which of them have been told what the agent stands for, and what *)
(* a crash, a reload, a rotation, a move to another directory and a change *)
(* of the agent's memory do to them.  packages/acp-harness/src/runner:     *)
(* worker.ts (sessionFor, reload), AgentRunner.ts (#runTurn, #reprimeAll,  *)
(* prewarm), sessions.ts.                                                  *)
(*                                                                         *)
(* A session is opened by the first caller that finds none -- a turn, or a *)
(* prewarm nobody awaits -- and others join that creation.  The open takes *)
(* a round trip to the process (and another to set its model or permission *)
(* mode), during which the process may be replaced.  A process that was    *)
(* told to stop lives on for up to three seconds and may still answer.     *)
(*                                                                         *)
(* Abstracted: the cap of four sessions (nothing is evicted for room), the *)
(* start and death of processes (module WorkerLife), the retry of a failed *)
(* turn (module TurnLoop).                                                 *)
(***************************************************************************)
EXTENDS Integers, FiniteSets

CONSTANTS
  Scopes,       \* conversations
  Roots,        \* directories the agent may work in
  MaxProcs, MaxSessions, MaxOpens,  \* bounds: ever made
  Limits        \* bounds, one of which holds: how often each of these may happen,
                \* and whether sessions have a model or mode to set ("mode")

Happenings == {"warm", "crash", "reload", "rotate", "move", "owner", "tool", "fault", "mode"}

Procs == 1..MaxProcs
Sessions == 1..MaxSessions
Opens == 1..MaxOpens
Memories == UNION {1..(1 + limit["owner"] + limit["tool"]) : limit \in Limits}

ASSUME BoundsAssumption ==
  /\ MaxProcs \in Nat \ {0} /\ MaxSessions \in Nat /\ MaxOpens \in Nat
  /\ Limits \subseteq [Happenings -> Nat]

VARIABLES
  proc,      \* #process
  up,        \* its start is over (#starting)
  replaced,  \* processes a reload told to stop
  root,      \* where the agent works: cwd()
  book,      \* sessions: the session of each scope (0: none)
  cwdOf,     \* SessionRecord.cwd: where the book says a session is rooted
  unprimed,  \* scopes whose session is to be told the standing instructions
  resumable, \* #resumable
  creating,  \* #creating: the open in flight for a scope (0: none)
  opens,     \* session creations in flight, by number
  warming,   \* scopes a prewarm waits to open
  turn,      \* worker.turn
  home,      \* ghost: the processes that know a session
  rootOf,    \* ghost: the directory a session is rooted in
  made,      \* sessions ever made
  memory,    \* the office's version of the agent's core memory
  write,     \* a memory write the office has made and not yet answered
  knows,     \* ghost: the version a session was last told (0: nothing)
  spoken,    \* ghost: sessions something was said in
  kept,      \* ghost: per scope, the session the last reload is to keep
  ended,     \* ghost: sessions !rotate was to put an end to
  dropped,   \* ghost: those of them it found in the book or saved
  left       \* happenings still allowed

vars == <<proc, up, replaced, root, book, cwdOf, unprimed, resumable, creating, opens, warming,
          turn, home, rootOf, made, memory, write, knows, spoken, kept, ended, dropped, left>>
memoryVars == <<memory, write, knows>>
sessionVars == <<home, rootOf, made, cwdOf>>

NoOpen == [at |-> "none"]
Idle == [at |-> "idle"]
Active == {o \in Opens : opens[o] # NoOpen}
Spend(kind) == left[kind] > 0 /\ left' = [left EXCEPT ![kind] = @ - 1]

Init ==
  /\ proc = 1 /\ up = TRUE /\ replaced = {}
  /\ root \in Roots /\ cwdOf = [x \in Sessions |-> root]
  /\ book = [s \in Scopes |-> 0] /\ resumable = [s \in Scopes |-> 0]
  /\ creating = [s \in Scopes |-> 0] /\ kept = [s \in Scopes |-> 0]
  /\ unprimed = {} /\ opens = [o \in Opens |-> NoOpen]
  /\ warming = {} /\ turn = Idle
  /\ home = [x \in Sessions |-> {}] /\ rootOf = [x \in Sessions |-> root] /\ made = 0
  /\ memory = 1 /\ write = "none" /\ knows = [x \in Sessions |-> 0]
  /\ spoken = {} /\ ended = {} /\ dropped = {} /\ left \in Limits

-----------------------------------------------------------------------------
(* Opening a session.                                                      *)

\* The scope has a session, rooted where the agent works now.
Found(s) == book[s] # 0 /\ cwdOf[book[s]] = root

\* The session a reload saved is resumed if it is rooted where the agent
\* works; otherwise a new one is opened.
StartsOpen(s, o) ==
  LET saved == IF resumable[s] # 0 /\ cwdOf[resumable[s]] = root THEN resumable[s] ELSE 0
  IN /\ resumable' = [resumable EXCEPT ![s] = 0]
     /\ creating' = [creating EXCEPT ![s] = o]
     /\ opens' = [opens EXCEPT ![o] = [at |-> "opening", scope |-> s, proc |-> proc,
                                       saved |-> saved, root |-> root, session |-> 0]]

\* Mutant: every caller that finds no session opens one.
SessionForAlone(s, o) ==
  /\ ~Found(s)
  /\ book' = [book EXCEPT ![s] = 0]
  /\ o \notin Active /\ StartsOpen(s, o)

\* sessionFor, when there is no session to use: one rooted elsewhere is
\* dropped, a creation in flight is joined, else one is started.
SessionFor(s, o) ==
  /\ ~Found(s)
  /\ book' = [book EXCEPT ![s] = 0]
  /\ \/ creating[s] # 0 /\ o = creating[s] /\ UNCHANGED <<resumable, creating, opens>>
     \/ creating[s] = 0 /\ o \notin Active /\ StartsOpen(s, o)

\* The turn has its session.  If nobody has told that session what the agent
\* stands for, the turn reads the instructions before it prompts.
HasSession(t, x, untold) ==
  [at |-> IF untold THEN "priming" ELSE "prompted", scope |-> t.scope, root |-> t.root,
   session |-> x, proc |-> proc, priming |-> untold, fresh |-> TRUE, read |-> 0]

\* A drain hands the worker a turn.
Claim(s) ==
  /\ turn = Idle
  /\ turn' = [at |-> "waiting", scope |-> s]
  /\ UNCHANGED <<proc, up, replaced, root, book, unprimed, resumable, creating, opens,
                 warming, spoken, kept, ended, dropped, left>>
  /\ UNCHANGED memoryVars /\ UNCHANGED sessionVars

\* The worker is ready; the turn asks for its session.
TurnOpens ==
  LET s == turn.scope
      t == [scope |-> s, root |-> root]
  IN /\ turn.at = "waiting" /\ up
     /\ \/ /\ Found(s)
           /\ turn' = HasSession(t, book[s], s \in unprimed)
           /\ UNCHANGED <<book, resumable, creating, opens>>
        \/ \E o \in Opens :
             /\ SessionFor(s, o)
             /\ turn' = [at |-> "opening", scope |-> s, root |-> root, open |-> o]
     /\ UNCHANGED <<proc, up, replaced, root, unprimed, warming, spoken, kept, ended,
                    dropped, left>>
     /\ UNCHANGED memoryVars /\ UNCHANGED sessionVars

\* prewarm: an idle worker is asked for a session nobody waits for.
Warm(s) ==
  /\ turn = Idle /\ s \notin warming
  /\ Spend("warm")
  /\ warming' = warming \cup {s}
  /\ UNCHANGED <<proc, up, replaced, root, book, unprimed, resumable, creating, opens,
                 turn, spoken, kept, ended, dropped>>
  /\ UNCHANGED memoryVars /\ UNCHANGED sessionVars

WarmOpens(s) ==
  /\ s \in warming /\ up
  /\ warming' = warming \ {s}
  /\ \/ Found(s) /\ UNCHANGED <<book, resumable, creating, opens>>
     \/ \E o \in Opens : SessionFor(s, o)
  /\ UNCHANGED <<proc, up, replaced, root, unprimed, turn, spoken, kept, ended,
                 dropped, left>>
  /\ UNCHANGED memoryVars /\ UNCHANGED sessionVars

\* The session is open and its model and mode are set: it is put in the book
\* -- whatever process the worker has by now -- and whoever waited goes on.  A
\* new one as rooted where it was asked for, a resumed one as rooted where the
\* agent works by now.
Lands(o, x) ==
  LET s == opens[o].scope
      new == opens[o].saved = 0
      untold == IF new THEN unprimed \cup {s} ELSE unprimed
  IN /\ book' = [book EXCEPT ![s] = x]
     /\ cwdOf' = [cwdOf EXCEPT ![x] = IF new THEN opens[o].root ELSE root]
     /\ unprimed' = untold
     /\ creating' = [creating EXCEPT ![s] = 0]
     /\ opens' = [opens EXCEPT ![o] = NoOpen]
     /\ turn' = IF turn.at = "opening" /\ turn.open = o
                THEN HasSession(turn, x, s \in untold) ELSE turn

AnsweredByOurs(o) == opens[o].proc = proc

\* session/new or session/resume is answered, by the process the worker
\* still has.
Opened(o) ==
  /\ o \in Active /\ opens[o].at = "opening" /\ AnsweredByOurs(o)
  /\ LET new == opens[o].saved = 0
         x == IF new THEN made + 1 ELSE opens[o].saved
     IN /\ x \in Sessions
        /\ made' = IF new THEN made + 1 ELSE made
        /\ home' = [home EXCEPT ![x] = @ \cup {opens[o].proc}]
        /\ rootOf' = [rootOf EXCEPT ![x] = opens[o].root]
        /\ IF left["mode"] > 0
           THEN /\ opens' = [opens EXCEPT ![o].at = "setting", ![o].session = x]
                /\ UNCHANGED <<book, cwdOf, unprimed, creating, turn>>
           ELSE Lands(o, x)
  /\ UNCHANGED <<proc, up, replaced, root, resumable, warming, spoken, kept, ended,
                 dropped, left>>
  /\ UNCHANGED memoryVars

\* The mode is set, or could not be: a failure is logged, not thrown.
ModeSet(o) ==
  /\ o \in Active /\ opens[o].at = "setting"
  /\ Lands(o, opens[o].session)
  /\ UNCHANGED <<proc, up, replaced, root, resumable, warming, spoken, kept, ended,
                 dropped, left>>
  /\ UNCHANGED memoryVars /\ UNCHANGED <<home, rootOf, made>>

\* The open fails: its process is no longer the worker's, or the runtime
\* refused.  One that was to resume opens a new session instead, in the
\* process and the directory of now.  Its `finally' forgets the scope's
\* creation, whoever's that is by now.
OpenFails(o) ==
  /\ o \in Active
  /\ \/ opens[o].proc # proc /\ UNCHANGED <<left, kept>>
     \/ /\ opens[o].proc = proc /\ Spend("fault")
        /\ kept' = [kept EXCEPT ![opens[o].scope] = 0]
  /\ \/ /\ opens[o].saved # 0
        /\ opens' = [opens EXCEPT ![o] = [@ EXCEPT !.at = "opening", !.saved = 0,
                                            !.proc = proc, !.root = root, !.session = 0]]
        /\ turn' = IF turn.at = "opening" /\ turn.open = o
                   THEN [turn EXCEPT !.root = root] ELSE turn
        /\ UNCHANGED creating
     \/ /\ opens[o].saved = 0
        /\ opens' = [opens EXCEPT ![o] = NoOpen]
        /\ creating' = [creating EXCEPT ![opens[o].scope] = 0]
        /\ turn' = IF turn.at = "opening" /\ turn.open = o THEN Idle ELSE turn
  /\ UNCHANGED <<proc, up, replaced, root, book, unprimed, resumable, warming, spoken,
                 ended, dropped>>
  /\ UNCHANGED memoryVars /\ UNCHANGED sessionVars

-----------------------------------------------------------------------------
(* The turn in its session.                                                *)

\* The instructions are read from the office, then sent with the prompt to
\* the process the worker has at that moment.
ReadsMemory ==
  /\ turn.at = "priming"
  /\ turn' = [turn EXCEPT !.at = "read", !.read = memory]
  /\ UNCHANGED <<proc, up, replaced, root, book, unprimed, resumable, creating, opens,
                 warming, spoken, kept, ended, dropped, left>>
  /\ UNCHANGED memoryVars /\ UNCHANGED sessionVars

Prompt ==
  /\ turn.at = "read"
  /\ turn' = [turn EXCEPT !.at = "prompted", !.proc = proc]
  /\ UNCHANGED <<proc, up, replaced, root, book, unprimed, resumable, creating, opens,
                 warming, spoken, kept, ended, dropped, left>>
  /\ UNCHANGED memoryVars /\ UNCHANGED sessionVars

Reaches == turn.proc = proc /\ proc \in home[turn.session]

\* What a session was told stands beside what it wrote itself meanwhile.
Learns(x, version) == [knows EXCEPT ![x] = IF @ < version THEN version ELSE @]

\* Mutant: a session is counted as told although the memory moved meanwhile.
AnswerStale ==
  /\ turn.at = "prompted" /\ Reaches
  /\ turn' = Idle
  /\ spoken' = spoken \cup {turn.session}
  /\ knows' = IF turn.priming THEN Learns(turn.session, turn.read) ELSE knows
  /\ unprimed' = IF turn.priming THEN unprimed \ {turn.scope} ELSE unprimed
  /\ UNCHANGED <<proc, up, replaced, root, book, resumable, creating, opens, warming,
                 kept, ended, dropped, left, memory, write>>
  /\ UNCHANGED sessionVars

\* The prompt returned.  Only now, and only if the memory did not move since,
\* has the session been told.
Answer ==
  /\ turn.at = "prompted" /\ Reaches
  /\ turn' = Idle
  /\ spoken' = spoken \cup {turn.session}
  /\ knows' = IF turn.priming THEN Learns(turn.session, turn.read) ELSE knows
  /\ unprimed' = IF turn.priming /\ turn.fresh THEN unprimed \ {turn.scope} ELSE unprimed
  /\ UNCHANGED <<proc, up, replaced, root, book, resumable, creating, opens, warming,
                 kept, ended, dropped, left, memory, write>>
  /\ UNCHANGED sessionVars

\* The process died, does not know the session, or the prompt failed.
PromptFails ==
  /\ turn.at = "prompted"
  /\ \/ ~Reaches /\ UNCHANGED left
     \/ Reaches /\ Spend("fault")
  /\ turn' = Idle
  /\ UNCHANGED <<proc, up, replaced, root, book, unprimed, resumable, creating, opens,
                 warming, spoken, kept, ended, dropped>>
  /\ UNCHANGED memoryVars /\ UNCHANGED sessionVars

-----------------------------------------------------------------------------
(* What happens to the sessions.                                           *)

Cleared == book' = [s \in Scopes |-> 0] /\ unprimed' = {} /\ creating' = [s \in Scopes |-> 0]

\* The process dies; its exit clears the sessions and a new one is started.
Crash ==
  /\ up /\ proc < MaxProcs /\ Spend("crash")
  /\ Cleared
  /\ proc' = proc + 1 /\ up' = FALSE
  /\ kept' = [s \in Scopes |-> 0]
  /\ UNCHANGED <<replaced, root, resumable, opens, warming, turn, spoken, ended, dropped>>
  /\ UNCHANGED memoryVars /\ UNCHANGED sessionVars

\* The new process is ready.  The requests of one that crashed were rejected
\* long ago, with its pipes; those of one a reload stopped may not be.
Up ==
  /\ ~up
  /\ \A o \in Active : opens[o].proc = proc \/ opens[o].proc \in replaced
  /\ Cleared
  /\ up' = TRUE
  /\ UNCHANGED <<proc, replaced, root, resumable, opens, warming, turn, spoken, kept, ended, dropped,
                 left>>
  /\ UNCHANGED memoryVars /\ UNCHANGED sessionVars

\* A conversation a reload is to keep: spoken in, and where the agent works.
Spoken(s) == Found(s) /\ book[s] \in spoken

\* Mutant: a reload that saves nothing.
ReloadForgetting ==
  /\ turn = Idle /\ up /\ proc < MaxProcs /\ Spend("reload")
  /\ kept' = [s \in Scopes |-> IF Spoken(s) THEN book[s] ELSE kept[s]]
  /\ Cleared
  /\ replaced' = replaced \cup {proc}
  /\ proc' = proc + 1 /\ up' = FALSE
  /\ UNCHANGED <<root, resumable, opens, warming, turn, spoken, ended, dropped>>
  /\ UNCHANGED memoryVars /\ UNCHANGED sessionVars

\* Worker.reload, of an idle worker: the sessions that were told are saved
\* to be resumed.
Reload ==
  /\ turn = Idle /\ up /\ proc < MaxProcs /\ Spend("reload")
  /\ resumable' = [s \in Scopes |-> IF book[s] # 0 /\ s \notin unprimed
                                    THEN book[s] ELSE resumable[s]]
  /\ kept' = [s \in Scopes |-> IF Spoken(s) THEN book[s] ELSE kept[s]]
  /\ Cleared
  /\ replaced' = replaced \cup {proc}
  /\ proc' = proc + 1 /\ up' = FALSE
  /\ UNCHANGED <<root, opens, warming, turn, spoken, ended, dropped>>
  /\ UNCHANGED memoryVars /\ UNCHANGED sessionVars

\* Mutant: the session a reload saved is left to be resumed.
RotateKeepingSaved(s) ==
  /\ Spend("rotate")
  /\ ended' = ended \cup {x \in spoken : x \in {book[s], resumable[s]}}
  /\ dropped' = dropped \cup ({book[s], resumable[s]} \ {0})
  /\ book' = [book EXCEPT ![s] = 0]
  /\ unprimed' = unprimed \ {s}
  /\ kept' = [kept EXCEPT ![s] = 0]
  /\ warming' = IF turn = Idle THEN warming \cup {s} ELSE warming
  /\ UNCHANGED <<proc, up, replaced, root, resumable, creating, opens, turn, spoken>>
  /\ UNCHANGED memoryVars /\ UNCHANGED sessionVars

\* `!rotate': the scope's session is dropped, also one a reload saved, and
\* the next one is warmed.
Rotate(s) ==
  /\ Spend("rotate")
  /\ ended' = ended \cup {x \in spoken : \/ x \in {book[s], resumable[s]}
                                         \/ \E o \in Active : /\ opens[o].scope = s
                                                              /\ opens[o].saved = x}
  /\ dropped' = dropped \cup ({book[s], resumable[s]} \ {0})
  /\ book' = [book EXCEPT ![s] = 0]
  /\ resumable' = [resumable EXCEPT ![s] = 0]
  /\ unprimed' = unprimed \ {s}
  /\ kept' = [kept EXCEPT ![s] = 0]
  /\ warming' = IF turn = Idle THEN warming \cup {s} ELSE warming
  /\ UNCHANGED <<proc, up, replaced, root, creating, opens, turn, spoken>>
  /\ UNCHANGED memoryVars /\ UNCHANGED sessionVars

\* A task begins or ends: the agent works somewhere else.
Move(r) ==
  /\ r # root /\ Spend("move")
  /\ root' = r
  /\ kept' = [s \in Scopes |-> 0]
  /\ UNCHANGED <<proc, up, replaced, book, unprimed, resumable, creating, opens, warming,
                 turn, spoken, ended, dropped>>
  /\ UNCHANGED memoryVars /\ UNCHANGED sessionVars

\* The office writes the core memory: for the owner (`!remember', `!forget'),
\* or for the model's own `memory_set', whose session knows what it wrote.
WriteMade(by) ==
  /\ write = "none" /\ Spend(by)
  /\ by = "tool" => turn.at = "prompted" /\ Reaches
  /\ memory' = memory + 1 /\ write' = by
  /\ knows' = IF by = "tool" THEN [knows EXCEPT ![turn.session] = memory + 1] ELSE knows
  /\ UNCHANGED <<proc, up, replaced, root, book, unprimed, resumable, creating, opens,
                 warming, turn, spoken, kept, ended, dropped>>
  /\ UNCHANGED sessionVars

\* #reprimeAll: every session of the book but the one that made the change is
\* to be told again, and a turn that is telling now has told the old version.
ReprimeAll(except) ==
  /\ unprimed' = unprimed \cup {s \in Scopes : book[s] # 0 /\ s \notin except}
  /\ turn' = IF turn.at \in {"priming", "read", "prompted"}
             THEN [turn EXCEPT !.fresh = FALSE] ELSE turn

\* The office's answer: the session of the turn the worker runs now -- if it
\* was the model that wrote -- is not told again.
WriteAnswered ==
  /\ write # "none"
  /\ write' = "none"
  /\ ReprimeAll(IF write = "tool" /\ turn # Idle THEN {turn.scope} ELSE {})
  /\ UNCHANGED <<proc, up, replaced, root, book, resumable, creating, opens, warming,
                 memory, knows, spoken, kept, ended, dropped, left>>
  /\ UNCHANGED sessionVars

-----------------------------------------------------------------------------
Handler ==
  \/ \E s \in Scopes : Claim(s) \/ Warm(s) \/ Rotate(s)
  \/ \E o \in Opens : Opened(o) \/ ModeSet(o) \/ OpenFails(o)
  \/ TurnOpens \/ ReadsMemory \/ Prompt \/ Answer \/ PromptFails
  \/ Crash \/ Up \/ Reload \/ WriteAnswered
  \/ \E r \in Roots : Move(r)
  \/ \E by \in {"owner", "tool"} : WriteMade(by)

\* A prewarm that only waits for a worker that is up goes on before any
\* other handler runs: it is a continuation of a promise that has resolved.
Next ==
  \/ \E s \in Scopes : WarmOpens(s)
  \/ (up => warming = {}) /\ Handler

Spec == Init /\ [][Next]_vars

-----------------------------------------------------------------------------
(* Properties.                                                             *)

\* Type invariant of the worker's session state.
TypeOK ==
  /\ proc \in Procs /\ up \in BOOLEAN /\ replaced \subseteq Procs /\ root \in Roots
  /\ book \in [Scopes -> 0..MaxSessions] /\ resumable \in [Scopes -> 0..MaxSessions]
  /\ kept \in [Scopes -> 0..MaxSessions] /\ creating \in [Scopes -> 0..MaxOpens]
  /\ unprimed \subseteq Scopes /\ warming \subseteq Scopes
  /\ \A o \in Active : /\ opens[o].scope \in Scopes /\ opens[o].proc \in Procs
                       /\ opens[o].at \in {"opening", "setting"}
  /\ turn.at \in {"idle", "waiting", "opening", "priming", "read", "prompted"}
  /\ turn.at = "opening" => turn.open \in Active  \* a turn waits for an open in flight
  /\ home \in [Sessions -> SUBSET Procs] /\ {rootOf, cwdOf} \subseteq [Sessions -> Roots]
  /\ made \in 0..MaxSessions /\ memory \in Memories
  /\ write \in {"none", "owner", "tool"} /\ knows \in [Sessions -> Memories \cup {0}]
  /\ spoken \subseteq Sessions /\ ended \subseteq Sessions /\ dropped \subseteq Sessions

\* "A session of the old process is no use to anyone" (#createSession): every
\* session in the book is one the process of now knows.
BookIsCurrent ==
  up => \A s \in Scopes : book[s] # 0 => proc \in home[book[s]]

\* "One session per conversation per runtime process" (README.md); two
\* callers that both find no session "must not both make one" (#creating).
OneOpenEver ==
  \A o, p \in Active :
    opens[o].scope = opens[p].scope /\ opens[o].proc = opens[p].proc => o = p

\* A reload can break that (an open it overtook forgets the scope's creation,
\* whoever's it is by now); no crash, move, rotation or failed open does.
OneOpenPerScope == replaced = {} => OneOpenEver

\* What a session not marked to be told again was told is what the agent
\* carries now, as soon as no write is under way: a change of the core memory
\* reaches "every session, not just this one" (#writeCoreMemory).
MemoryKnownEver ==
  up /\ write = "none" =>
    \A s \in Scopes : book[s] # 0 /\ s \notin unprimed => knows[book[s]] = memory

\* A reload can break that too: it keeps conversations and not what they were told.
SessionsKnowTheMemory == replaced = {} => MemoryKnownEver

\* "Every session that was spoken in is reattached on its next use instead of
\* opened afresh" (Worker.reload), unless it was rotated, the agent moved,
\* its process crashed or the runtime refused to resume it.
ReloadKeepsConversations ==
  \A s \in Scopes : kept[s] # 0 /\ book[s] # 0 => book[s] = kept[s]

\* "`!rotate' means start over" (dropSession): a session that was ended is
\* neither in the book nor saved to be resumed.
RotateStartsOver ==
  \A s \in Scopes : book[s] \notin ended /\ resumable[s] \notin ended

\* A session !rotate found in the book or saved for later is never used again:
\* no reload, resume or open under way brings it back.
DroppedStaysDropped ==
  \A s \in Scopes : book[s] \notin dropped /\ resumable[s] \notin dropped

\* A turn runs in a session rooted where the agent worked when one was asked
\* for on its behalf: "a session left rooted in the old place would edit the wrong
\* tree" (sessionFor).
RootedWhereItWorks ==
  turn.at \in {"priming", "read", "prompted"} => rootOf[turn.session] = turn.root

=============================================================================
