------------------------------ MODULE Promise -------------------------------
(***************************************************************************)
(* The promises of the Lua scripts: module/lua/yaos/promise.c, and the      *)
(* timers that settle them, module/lua/yaos/time.c and main.c.             *)
(*                                                                         *)
(* Callbacks are called at once, from within resolve and reject: a callback *)
(* may chain, settle or create promises while lists further up the C stack *)
(* are being walked.  stack is that C stack: the walks of finale and the    *)
(* callbacks under lua_pcall.  While a callback is on top the script runs,  *)
(* and may do anything; when the stack is empty the poll loop does.        *)
(*                                                                         *)
(* The handler table of Handler() has a promise of its own, so it is named *)
(* by it: deferreds holds promises, and their fields f and r say whether    *)
(* onFulfilled and onRejected were given.                                  *)
(***************************************************************************)
EXTENDS Integers, Sequences, FiniteSets, SequencesExt

CONSTANTS
    NP,        \* promises that can be created
    MaxRoots,  \* those of them not made by next
    Handlers,  \* the pairs of callbacks given to next, <<"fn" or "nil", "fn" or "nil">>
    MaxLost,   \* throws of callbacks that are not answered
    MaxStack   \* frames on the C stack

ASSUME PromiseAssumption ==
    /\ NP \in Nat \ {0} /\ MaxRoots \in Nat /\ MaxLost \in Nat /\ MaxStack \in Nat
    /\ Handlers \subseteq {"fn", "nil"} \X {"fn", "nil"}

Ids == 1 .. NP
Plain == 0     \* any value that is no promise

PENDING == "PENDING"
RESOLVED == "RESOLVED"
REJECTED == "REJECTED"
RESOLVING == "RESOLVING"

VARIABLES
    pr,       \* the promises, in the order of _id
    stack,    \* the C stack, the top last
    held,     \* the promises the scripts have got
    damage,   \* what the code has no answer to has happened; the model ends there
    lost      \* history: the promises for which a callback was called that threw
              \* without the promise chained to it, and only that, hearing of it

vars == <<pr, stack, held, damage, lost>>

(* hung: handle follows promises that are resolved by one another for ever; *)
(* freed: resolve or reject uses references that were given back;          *)
(* error: a Lua error out of finale or handle themselves.                  *)
Damages == {"none", "hung", "freed", "error"}

Created == DOMAIN pr

(* from: what settles it, a timer, a script's function or another promise;  *)
(* done: the flag that resolve and reject share, until it is given back;    *)
(* ran: history, how often its callbacks were called.                      *)
NewPromise(from, parent, h) ==
    [state |-> PENDING, value |-> Plain, dstate |-> 0, deferreds |-> <<>>,
     from |-> from, parent |-> parent, f |-> h[1], r |-> h[2], done |-> "no",
     ran |-> [fulfilled |-> 0, rejected |-> 0]]

Finale(p, list, todo) == [op |-> "finale", self |-> p, list |-> list, todo |-> todo]
Clean(p) == [op |-> "clean", self |-> p]
Call(p, q) == [op |-> "call", self |-> p, of |-> q]

(* What a piece of C code leaves behind. *)
Effect(P, S) == [pr |-> P, stack |-> S, damage |-> "none"]

-----------------------------------------------------------------------------
(* finale, resolve and reject *)

(* Mutant: a list is not walked. *)
finale_one(P, S, p) ==
    IF P[p].dstate # 1 THEN Effect(P, S)
    ELSE IF P[p].deferreds = <<>> THEN [Effect(P, S) EXCEPT !.damage = "error"]
    ELSE Effect(P, Append(S, Finale(p, FALSE, P[p].deferreds)))

(* finale begins.  _deferredState stays what it was: a promise that is      *)
(* settled again walks its list again, or, when _deferreds is nil, indexes  *)
(* nil.                                                                    *)
finale(P, S, p) ==
    IF P[p].dstate = 0 THEN Effect(P, S)
    ELSE IF P[p].deferreds = <<>> THEN [Effect(P, S) EXCEPT !.damage = "error"]
    ELSE Effect(P, Append(S, Finale(p, P[p].dstate = 2, P[p].deferreds)))

resolve(P, S, p, v) ==
    finale([P EXCEPT ![p].state = IF v = Plain THEN RESOLVED ELSE RESOLVING, ![p].value = v], S, p)

reject(P, S, p) ==
    finale([P EXCEPT ![p].state = REJECTED, ![p].value = Plain], S, p)

-----------------------------------------------------------------------------
(* handle *)

(* The promise at the end of the ones that are resolved by one another. *)
Target(P, p) ==
    LET t[n \in 0 .. NP] ==
            IF n = 0 THEN p
            ELSE IF P[t[n - 1]].state = RESOLVING THEN P[t[n - 1]].value ELSE t[n - 1]
    IN  t[NP]

Begins(P, q, k) == [P EXCEPT ![q].ran[k] = IF @ < 2 THEN @ + 1 ELSE @]

(* Mutant: the callback is chosen by what was given, not by the state. *)
handleResolved_any(P, S, p, q) ==
    IF P[q].f = "fn" THEN Effect(Begins(P, q, "fulfilled"), Append(S, Call(p, q)))
    ELSE IF P[p].state = RESOLVED THEN resolve(P, S, q, P[p].value) ELSE reject(P, S, q)

handleResolved(P, S, p, q) ==
    CASE P[p].state = RESOLVED /\ P[q].f = "fn" ->
            Effect(Begins(P, q, "fulfilled"), Append(S, Call(p, q)))
      [] P[p].state = REJECTED /\ P[q].r = "fn" ->
            Effect(Begins(P, q, "rejected"), Append(S, Call(p, q)))
      [] P[p].state = RESOLVED /\ P[q].f = "nil" -> resolve(P, S, q, P[p].value)
      [] P[p].state = REJECTED /\ P[q].r = "nil" -> reject(P, S, q)

(* Zero, one or more handlers wait: _deferredState. *)
Defer(P, p, q) ==
    [P EXCEPT ![p].deferreds = Append(@, q), ![p].dstate = IF @ = 2 THEN 2 ELSE @ + 1]

handle(P, S, p, q) ==
    LET t == Target(P, p)
    IN  CASE P[t].state = RESOLVING -> [Effect(P, S) EXCEPT !.damage = "hung"]
          [] P[t].state = PENDING   -> Effect(Defer(P, t, q), S)
          [] OTHER                  -> handleResolved(P, S, t, q)

(* The third and every later handler leaves a value on the Lua stack. *)
LeavesOne(P, p) == P[Target(P, p)].state = PENDING /\ P[Target(P, p)].dstate = 2

-----------------------------------------------------------------------------
(* The scripts: they run when the poll loop calls them, or a callback.     *)

Running == damage = "none" /\ Len(stack) <= MaxStack
Idle == Running /\ stack = <<>>
Top == Last(stack)
TopIs(op) == Running /\ stack # <<>> /\ Top.op = op
Script == Idle \/ TopIs("call")

(* What becomes of the effect e of C code. *)
Becomes(e) == pr' = e.pr /\ stack' = e.stack /\ damage' = e.damage

MoreRoots ==
    Len(pr) < NP /\ Cardinality({p \in Created : pr[p].from # "next"}) < MaxRoots

(* lua_new_promise with doResolve, whose function keeps resolve and reject  *)
(* for later, or lua_poll_new_promise with yaos_lua_create_timer.          *)
lua_new_promise(from) ==
    /\ Script /\ MoreRoots
    /\ pr' = Append(pr, NewPromise(from, Plain, <<"nil", "nil">>))
    /\ held' = held \cup {Len(pr) + 1}
    /\ UNCHANGED <<stack, damage, lost>>

(* The function throws before it has called resolve or reject: done is set, *)
(* and reject is called for the function instead of the promise, which is   *)
(* an error in the script in turn.  The function, to which the promise is   *)
(* passed, may have kept it.  If it throws after reject nothing changes; if *)
(* it throws after resolve, done is looked up where it was given back, as   *)
(* by a second resolve.                                                    *)
ExecutorThrows ==
    /\ Script /\ MoreRoots
    /\ pr' = Append(pr, [NewPromise("fn", Plain, <<"nil", "nil">>) EXCEPT !.done = "yes"])
    /\ held' \in {held, held \cup {Len(pr) + 1}}
    /\ UNCHANGED <<stack, damage, lost>>

(* p:next(onFulfilled, onRejected).  It returns the handler and not the new *)
(* promise when handle leaves a value on the stack.  p:next() takes p for   *)
(* onFulfilled, which is no function: <<"fn", "nil">> with a callback that  *)
(* throws at once.                                                         *)
thennext(p, h) ==
    LET q == Len(pr) + 1
        P == Append(pr, NewPromise("next", p, h))
    IN  /\ Script /\ q <= NP
        /\ p \in held
        /\ held' = IF LeavesOne(pr, p) THEN held ELSE held \cup {q}
        /\ Becomes(handle(P, stack, p, q))
        /\ UNCHANGED lost

(* The value of resolve(): without an argument it is the promise itself,    *)
(* which lies where the argument would.                                    *)
Values(p) == {Plain, p} \cup held

(* After the first call the flag and the reference are given back to the    *)
(* registry: a later call finds whatever is there then.                    *)
my_resolve(p, v) ==
    CASE pr[p].done = "freed" -> damage' = "freed" /\ UNCHANGED <<pr, stack>>
      [] pr[p].done = "yes"   -> /\ pr' = [pr EXCEPT ![p].done = "freed"]
                                 /\ UNCHANGED <<stack, damage>>
      [] OTHER                -> Becomes(resolve([pr EXCEPT ![p].done = "yes"],
                                                 Append(stack, Clean(p)), p, v))

(* Mutant: done is not asked. *)
my_reject_again(p) ==
    IF pr[p].done = "freed" THEN damage' = "freed" /\ UNCHANGED <<pr, stack>>
    ELSE Becomes(reject([pr EXCEPT ![p].done = "yes"], stack, p))

my_reject(p) ==
    CASE pr[p].done = "freed" -> damage' = "freed" /\ UNCHANGED <<pr, stack>>
      [] pr[p].done = "yes"   -> UNCHANGED <<pr, stack, damage>>
      [] OTHER                -> Becomes(reject([pr EXCEPT ![p].done = "yes"], stack, p))

ScriptSettles(p) ==
    /\ Script
    /\ pr[p].from = "fn"
    /\ (\E v \in Values(p) : my_resolve(p, v)) \/ my_reject(p)
    /\ UNCHANGED <<held, lost>>

(* Mutant: a timer nobody waits for is not fired. *)
timeout_cb_unheard(p) ==
    /\ Idle
    /\ pr[p].from = "timer" /\ pr[p].done = "no" /\ pr[p].dstate # 0
    /\ my_resolve(p, Plain)
    /\ UNCHANGED <<held, lost>>

(* timeout_cb through lua_poll_fire. *)
timeout_cb(p) ==
    /\ Idle
    /\ pr[p].from = "timer" /\ pr[p].done = "no"
    /\ my_resolve(p, Plain)
    /\ UNCHANGED <<held, lost>>

-----------------------------------------------------------------------------
(* The C code goes on when what it called returns. *)

(* The label clean of my_resolve. *)
GiveBack ==
    /\ TopIs("clean")
    /\ IF pr[Top.self].done = "freed"
       THEN /\ damage' = "freed"
            /\ UNCHANGED pr
       ELSE /\ pr' = [pr EXCEPT ![Top.self].done = "freed"]
            /\ UNCHANGED damage
    /\ stack' = Front(stack)
    /\ UNCHANGED <<held, lost>>

(* finale goes to the next handler.  In a list, a value that handle leaves  *)
(* on the stack becomes the key of lua_next, which is an error.            *)
FinaleStep ==
    /\ TopIs("finale") /\ Top.todo # <<>>
    /\ LET p == Top.self
           S == [stack EXCEPT ![Len(stack)].todo = Tail(@)]
           e == handle(pr, S, p, Head(Top.todo))
       IN  Becomes([e EXCEPT !.damage = IF Top.list /\ LeavesOne(pr, p) THEN "error" ELSE @])
    /\ UNCHANGED <<held, lost>>

(* A single handler is forgotten, a list is kept. *)
FinaleEnds ==
    /\ TopIs("finale") /\ Top.todo = <<>>
    /\ pr' = IF Top.list THEN pr ELSE [pr EXCEPT ![Top.self].deferreds = <<>>]
    /\ stack' = Front(stack)
    /\ UNCHANGED <<held, damage, lost>>

(* The callback returns, and settles the promise chained to it. *)
Return(v) ==
    /\ TopIs("call")
    /\ Becomes(resolve(pr, Front(stack), Top.of, v))
    /\ UNCHANGED <<held, lost>>

(* That a callback throws is answered by error_handle, which rejects the    *)
(* promise the callback was waiting for, not the one chained to it: this    *)
(* reaches the handler once more if it is the only one in _deferreds, and   *)
(* was not called for a rejection already.                                 *)
Answered(c) ==
    /\ pr[c.self].state = RESOLVED
    /\ pr[c.self].dstate = 1 /\ pr[c.self].deferreds = <<c.of>>

(* In all other cases the rejection walks a list of handlers that have been *)
(* called before, the onRejected that has just thrown among them, or none.  *)
(* An error of the walk itself ends in the lua_pcall of the callback.      *)
error_handle ==
    /\ TopIs("call")
    /\ Answered(Top) \/ Len(lost) < MaxLost
    /\ LET e == reject(pr, Front(stack), Top.self)
       IN  Becomes([e EXCEPT !.damage = IF @ = "error" THEN "none" ELSE @])
    /\ lost' = IF Answered(Top) THEN lost ELSE Append(lost, Top.self)
    /\ UNCHANGED held

Init ==
    /\ pr = <<>>
    /\ stack = <<>>
    /\ held = {}
    /\ damage = "none"
    /\ lost = <<>>

CStep == GiveBack \/ FinaleStep \/ FinaleEnds

CallbackEnds == (\E v \in {Plain} \cup held : Return(v)) \/ error_handle

Next ==
    \/ \E from \in {"timer", "fn"} : lua_new_promise(from)
    \/ ExecutorThrows
    \/ \E p \in Created : \E h \in Handlers : thennext(p, h)
    \/ \E p \in Created : ScriptSettles(p) \/ timeout_cb(p)
    \/ CallbackEnds
    \/ CStep

(* The C code goes on, callbacks end, and timers fire. *)
Spec ==
    /\ Init /\ [][Next]_vars
    /\ WF_vars(CStep) /\ WF_vars(CallbackEnds)
    /\ \A p \in Ids : WF_vars(p \in Created /\ timeout_cb(p))

-----------------------------------------------------------------------------
(* Properties *)

(* The promises, the frames and their contents are what the code makes. *)
TypeOK ==
    /\ Len(pr) <= NP
    /\ \A p \in Created :
           /\ pr[p].state \in {PENDING, RESOLVED, REJECTED, RESOLVING}
           /\ pr[p].value \in Created \cup {Plain}
           /\ pr[p].value # Plain <=> pr[p].state = RESOLVING
           /\ pr[p].dstate \in 0 .. 2
           /\ Range(pr[p].deferreds) \subseteq Created
           /\ pr[p].done \in {"no", "yes", "freed"}
    /\ \A i \in DOMAIN stack : stack[i].self \in Created
    /\ held \subseteq Created
    /\ damage \in Damages
    /\ Range(lost) \subseteq Created /\ Len(lost) <= MaxLost

(* The promises p was made from by next or resolved with, and those before  *)
(* them.                                                                   *)
Before(p) ==
    LET f[n \in 0 .. NP] ==
            IF n = 0 THEN {p}
            ELSE f[n - 1] \cup ({pr[o].parent : o \in f[n - 1]} \ {Plain})
                          \cup ({pr[o].value : o \in f[n - 1]} \ {Plain})
    IN  f[NP]

(* A throw that was not answered goes before p: what comes of it, no        *)
(* property says.                                                          *)
Astray(p) == Before(p) \cap Range(lost) # {}

(* Between two calls from the poll loop, a chained promise that is not      *)
(* settled waits in the list of exactly one promise, once, and that one is  *)
(* pending too: nobody is forgotten when lists are handed on to the promise *)
(* that resolves their owner, unless a throw before it was not answered.    *)
NobodyForgotten ==
    Idle =>
        \A q \in Created : (pr[q].from = "next" /\ pr[q].state = PENDING /\ ~Astray(q)) =>
            \E p \in Created :
                /\ pr[p].state = PENDING /\ p = Target(pr, pr[q].parent)
                /\ \A o \in Created :
                      Cardinality({i \in DOMAIN pr[o].deferreds :
                                       pr[o].deferreds[i] = q /\ pr[o].state = PENDING})
                          = IF o = p THEN 1 ELSE 0

(* A callback is called once at most, however the lists were handed on and  *)
(* whatever other promises are settled from within callbacks; onRejected    *)
(* after onFulfilled only if that has thrown.  It is called again only when *)
(* a throw was not answered, by a callback called for the same promise or   *)
(* for one before it: the rejection walks all handlers of that promise once *)
(* more, and an onRejected that throws is called again itself.             *)
CalledOnce ==
    Running => \A q \in Created :
        (pr[q].ran.fulfilled <= 1 /\ pr[q].ran.rejected <= 1) \/ Astray(q)

(* The step leaves p as it was settled, except that it is rejected when a   *)
(* callback called for it throws.                                          *)
StaysSettled(p) ==
    \/ pr'[p].state = pr[p].state /\ pr'[p].value = pr[p].value
    \/ damage' # "none"
    \/ error_handle /\ Top.self = p

(* A settled promise stays settled, with its value, except that it is       *)
(* rejected when a callback called for it throws, and unless a throw before *)
(* it was not answered.                                                    *)
SettledStays ==
    [][\A p \in Created : pr[p].state # PENDING => StaysSettled(p) \/ Astray(p)]_vars

(* Where the wait of a promise ends. *)
Root(p) ==
    LET f[n \in 0 .. 2 * NP] ==
            IF n = 0 THEN p
            ELSE LET o == f[n - 1]
                 IN  IF pr[o].state = RESOLVING THEN pr[o].value
                     ELSE IF pr[o].state = PENDING /\ pr[o].from = "next" THEN pr[o].parent
                     ELSE o
    IN  f[2 * NP]

(* A promise that waits in the end for a timer, or for one that is settled, *)
(* is settled some time; only a script that never calls resolve or reject,  *)
(* promises that wait for one another in a circle, or a throw that was not  *)
(* answered leave it waiting.                                              *)
ChainsSettle ==
    []<>(\/ ~Running
         \/ \A q \in Created : pr[q].state = PENDING /\ ~Astray(q) =>
                pr[Root(q)].state \in {PENDING, RESOLVING} /\ pr[Root(q)].from # "timer")
=============================================================================
