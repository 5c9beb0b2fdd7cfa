----------------------------- MODULE RequestScopes -----------------------------
(***************************************************************************)
(* Stopping a generation: the registry of provider requests and of         *)
(* cancelled scopes (electron/providers/providerRequestRegistry.cts) under *)
(* the IPC handlers that use it (greenfield:generate, greenfield:setup in  *)
(* main.cts, runGreenfieldGenerate in greenfield/generate.cts).            *)
(*                                                                         *)
(* A handler enters its scope on a stack that is global to the process and *)
(* stays there over its awaits; a request takes the scope at the top of    *)
(* the stack as its own.                                                   *)
(***************************************************************************)
EXTENDS Naturals, Sequences, SequencesExt

CONSTANTS
  Calls,           \* handler invocations
  Scopes,          \* generation ids
  NoScope,         \* a handler called without one, an empty stack
  MaxRequests,     \* bound: requests of one handler
  MaxCancelled,    \* MAX_CANCELLED_SCOPES
  MaxStops         \* bound: times the user stops something

ASSUME ScopeAssumption ==
  /\ NoScope \notin Scopes
  /\ MaxRequests \in Nat
  /\ MaxCancelled \in Nat \ {0}
  /\ MaxStops \in Nat

VARIABLES
  status,           \* [Calls -> Status]
  scopeOf,          \* [Calls -> Scopes \cup {NoScope}]: the generation it serves
  requests,         \* [Calls -> Nat]: requests made
  scopeStack,       \* Seq(Scopes)
  active,           \* requests on their way: [call, scope]
  cancelledScopes,  \* Seq(Scopes), oldest first
  stopped,          \* history: scopes the user stopped, in order, once each
  abortedBy,        \* history: what the user had stopped when a call was aborted
  stops,            \* times the user stopped something
  overlapped        \* history: calls that were not alone all the time

vars == <<status, scopeOf, requests, scopeStack, active, cancelledScopes,
          stopped, abortedBy, stops, overlapped>>

\* idle, between awaits, about to send, waiting for an answer, answered, ended
Status == {"idle", "running", "sending", "waiting", "aborted", "done",
           "cancelled"}

Overlapping == {c \in Calls : status[c] \notin {"idle", "done", "cancelled"}}

\* currentProviderRequestScope
Current == IF scopeStack = <<>> THEN NoScope ELSE Last(scopeStack)

IsCancelled(s) == s \in Range(cancelledScopes)

Init ==
  /\ status = [c \in Calls |-> "idle"]
  /\ scopeOf \in [Calls -> Scopes \cup {NoScope}]
  /\ requests = [c \in Calls |-> 0]
  /\ scopeStack = <<>>
  /\ active = {}
  /\ cancelledScopes = <<>>
  /\ stopped = <<>>
  /\ abortedBy = [c \in Calls |-> NoScope]
  /\ stops = 0
  /\ overlapped = {}

\* Who runs already and who comes are not alone any more.
Overlap(c) ==
  overlapped' = IF Overlapping = {} THEN overlapped
                                    ELSE overlapped \cup Overlapping \cup {c}

\* Seeded fault: a handler without a scope pushes the empty one.
Enter_pushesAny(c) ==
  /\ status[c] = "idle"
  /\ status' = [status EXCEPT ![c] = "running"]
  /\ scopeStack' = Append(scopeStack, scopeOf[c])
  /\ Overlap(c)
  /\ UNCHANGED <<scopeOf, requests, active, cancelledScopes, stopped, abortedBy,
                 stops>>

\* enterProviderRequestScope
Enter(c) ==
  /\ status[c] = "idle"
  /\ status' = [status EXCEPT ![c] = "running"]
  /\ scopeStack' = IF scopeOf[c] = NoScope THEN scopeStack
                                           ELSE Append(scopeStack, scopeOf[c])
  /\ Overlap(c)
  /\ UNCHANGED <<scopeOf, requests, active, cancelledScopes, stopped, abortedBy,
                 stops>>

\* Seeded faults: leaving removes every entry of the scope, or none.
WithoutLast_never(s) == scopeStack

WithoutLast_all(s) == SelectSeq(scopeStack, LAMBDA t : t # s)

\* leaveProviderRequestScope removes the newest entry of the scope.
WithoutLast(s) ==
  IF \E i \in DOMAIN scopeStack : scopeStack[i] = s
  THEN RemoveAt(scopeStack, SelectLastInSeq(scopeStack, LAMBDA t : t = s))
  ELSE scopeStack

\* The handler ends, cancelled or with an answer, and leaves its scope.
Leave(c, how) ==
  /\ status' = [status EXCEPT ![c] = how]
  /\ scopeStack' = WithoutLast(scopeOf[c])
  /\ UNCHANGED <<scopeOf, requests, active, cancelledScopes, stopped, abortedBy,
                 stops, overlapped>>

\* Seeded fault: the handler looks at the scope only before it sends.
SeesCancel_beforeSending(c) == requests[c] = 0 /\ IsCancelled(Current)

\* isCurrentProviderScopeCancelled, before a request and after it.
SeesCancel(c) == IsCancelled(Current)

GiveUp(c) ==
  /\ \/ status[c] = "running" /\ SeesCancel(c)
     \/ status[c] = "aborted"
  /\ Leave(c, "cancelled")

Answer(c) ==
  /\ status[c] = "running"
  /\ requests[c] > 0
  /\ ~SeesCancel(c)
  /\ Leave(c, "done")

\* Settings are read and the request is built after the look at the scope.
Prepare(c) ==
  /\ status[c] = "running"
  /\ requests[c] < MaxRequests
  /\ ~SeesCancel(c)
  /\ status' = [status EXCEPT ![c] = "sending"]
  /\ UNCHANGED <<scopeOf, requests, scopeStack, active, cancelledScopes, stopped,
                 abortedBy, stops, overlapped>>

\* Seeded fault: the request belongs to no scope.
Send_unscoped(c) ==
  /\ status[c] = "sending"
  /\ status' = [status EXCEPT ![c] = "waiting"]
  /\ requests' = [requests EXCEPT ![c] = @ + 1]
  /\ active' = active \cup {[call |-> c, scope |-> NoScope]}
  /\ UNCHANGED <<scopeOf, scopeStack, cancelledScopes, stopped, abortedBy, stops,
                 overlapped>>

\* registerHttpProviderRequest: beginProviderRequest without a scope of its own.
Send(c) ==
  /\ status[c] = "sending"
  /\ status' = [status EXCEPT ![c] = "waiting"]
  /\ requests' = [requests EXCEPT ![c] = @ + 1]
  /\ active' = active \cup {[call |-> c, scope |-> Current]}
  /\ UNCHANGED <<scopeOf, scopeStack, cancelledScopes, stopped, abortedBy, stops,
                 overlapped>>

\* endProviderRequest, with an answer or an error of the provider.
Settle(c) ==
  /\ status[c] = "waiting"
  /\ status' = [status EXCEPT ![c] = "running"]
  /\ active' = {r \in active : r.call # c}
  /\ UNCHANGED <<scopeOf, requests, scopeStack, cancelledScopes, stopped,
                 abortedBy, stops, overlapped>>

-----------------------------------------------------------------------------
(* The user stops one generation, or everything.                           *)

\* Seeded fault: the list holds one scope less than it may.
Marked_offByOne(s) ==
  IF IsCancelled(s) THEN cancelledScopes
  ELSE LET longer == Append(cancelledScopes, s)
       IN  IF Len(longer) >= MaxCancelled THEN Tail(longer) ELSE longer

\* markScopeCancelled: a bounded list that drops its oldest entry.
Marked(s) ==
  IF IsCancelled(s) THEN cancelledScopes
  ELSE LET longer == Append(cancelledScopes, s)
       IN  IF Len(longer) > MaxCancelled THEN Tail(longer) ELSE longer

\* abortMatching: the aborted requests' promises reject with a user cancel.
Abort(matching, s) ==
  LET hit == {r.call : r \in matching}
  IN  /\ active' = active \ matching
      /\ status' = [c \in Calls |-> IF c \in hit THEN "aborted" ELSE status[c]]
      /\ abortedBy' = [c \in Calls |-> IF c \in hit THEN s ELSE abortedBy[c]]

CancelScope(s) ==
  /\ stops < MaxStops
  /\ stops' = stops + 1
  /\ cancelledScopes' = Marked(s)
  /\ stopped' = IF s \in Range(cancelledScopes) THEN stopped
                ELSE Append(RemoveFirst(stopped, s), s)
  /\ Abort({r \in active : r.scope = s}, s)
  /\ UNCHANGED <<scopeOf, requests, scopeStack, overlapped>>

CancelAll ==
  /\ stops < MaxStops
  /\ stops' = stops + 1
  /\ Abort(active, NoScope)
  /\ UNCHANGED <<scopeOf, requests, scopeStack, cancelledScopes, stopped, overlapped>>

Next ==
  \/ \E c \in Calls :
       \/ Enter(c)
       \/ Prepare(c)
       \/ Send(c)
       \/ Settle(c)
       \/ GiveUp(c)
       \/ Answer(c)
  \/ \E s \in Scopes : CancelScope(s)
  \/ CancelAll

Spec == Init /\ [][Next]_vars
-----------------------------------------------------------------------------
(* Properties.                                                             *)

TypeOK ==
  /\ status \in [Calls -> Status]
  /\ scopeOf \in [Calls -> Scopes \cup {NoScope}]
  /\ requests \in [Calls -> 0..MaxRequests]
  /\ scopeStack \in Seq(Scopes)
  /\ active \subseteq [call : Calls, scope : Scopes \cup {NoScope}]
  /\ cancelledScopes \in Seq(Scopes)
  /\ stopped \in Seq(Scopes)
  /\ abortedBy \in [Calls -> Scopes \cup {NoScope}]
  /\ stops \in 0..MaxStops
  /\ overlapped \subseteq Calls

(* The stack holds the scopes of the handlers that are running, each as    *)
(* often as handlers serve it: whatever the order they leave in, none      *)
(* leaves an entry behind or takes another's away (enter and leave).       *)
StackIsWhoIsRunning ==
  \A s \in Scopes :
    Cardinality({i \in DOMAIN scopeStack : scopeStack[i] = s})
      = Cardinality({c \in Overlapping : scopeOf[c] = s})

(* The most recently stopped generations are remembered as stopped, so a   *)
(* handler that looks late still finds its own (markScopeCancelled).       *)
RecentStopsAreMarked ==
  \A i \in DOMAIN stopped :
    i > Len(stopped) - MaxCancelled => IsCancelled(stopped[i])

(* Stopping one generation aborts requests of that generation only; the    *)
(* name of a test of the registry claims it.                               *)
StopHitsOnlyItsScope ==
  \A c \in Calls : abortedBy[c] # NoScope => scopeOf[c] = abortedBy[c]

(* That is so for handlers no other overlapped, whatever came before them  *)
(* (leaveProviderRequestScope, abortMatching).                             *)
LoneStopIsExact ==
  \A c \in Calls \ overlapped : abortedBy[c] # NoScope => scopeOf[c] = abortedBy[c]

(* Stopping a generation reaches the requests it has on their way, unless  *)
(* their handler was overlapped (cancelActiveProviderRequests).            *)
LoneStopReaches ==
  [][\A s \in Scopes : CancelScope(s) =>
       \A c \in Calls \ overlapped : scopeOf[c] = s => status'[c] # "waiting"]_vars

(* A generation that has been stopped ends as cancelled, even if the Stop  *)
(* came between two looks at the scope, unless its handler was overlapped. *)
StoppedEndsCancelled ==
  [][\A c \in Calls \ overlapped : status'[c] = "done" /\ status[c] # "done" =>
       ~IsCancelled(scopeOf[c])]_vars
==============================================================================
