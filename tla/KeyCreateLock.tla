---------------------------- MODULE KeyCreateLock ----------------------------
(***************************************************************************)
(* The lock under which LiteLLMClient.create_organization_key looks for an *)
(* alias and then creates its key.  Locks are kept in a dictionary by      *)
(* alias, so that creates of one alias share one; the entry is dropped by  *)
(* whoever leaves while the lock is free.  This is the life of one entry.  *)
(*                                                                         *)
(* The creates are coroutines of one event loop: a step runs from one      *)
(* suspension to the next.  asyncio.Lock serves its waiters in order; one  *)
(* that has been woken takes the lock only when the loop resumes it.       *)
(***************************************************************************)
EXTENDS Naturals, SequencesExt

CONSTANTS
    Creates,  \* concurrent creates of one alias
    NoLock    \* the alias has no entry in the dictionary

Locks == Creates  \* at most one lock object per create is ever needed

VARIABLES
    registered,  \* _organization_key_create_locks, at the alias
    using,       \* the lock object each create has taken from it
    owner,       \* the create, if any, that holds each lock object
    waiters      \* the creates waiting for it, in order

vars == <<registered, using, owner, waiters>>

TypeOK ==
    /\ registered \in Locks \cup {NoLock}
    /\ using \in [Creates -> Locks \cup {NoLock}]
    /\ owner \in [Locks -> {{}} \cup {{c} : c \in Creates}]
    /\ waiters \in [Locks -> Seq(Creates)]

Init ==
    /\ registered = NoLock
    /\ using = [c \in Creates |-> NoLock]
    /\ owner = [l \in Locks |-> {}]
    /\ waiters = [l \in Locks |-> <<>>]

Users(l) == {c \in Creates : using[c] = l}
Fresh(l) == registered # l /\ Users(l) = {}
Creating(c) == using[c] # NoLock /\ c \in owner[using[c]]

Free(l) == owner[l] = {} /\ waiters[l] = <<>>

\* setdefault, then acquire: at once if the lock is free and not waited for.
Arrive(c, l) ==
    /\ using[c] = NoLock
    /\ IF registered = NoLock THEN Fresh(l) ELSE l = registered
    /\ registered' = l
    /\ using' = [using EXCEPT ![c] = l]
    /\ IF Free(l)
       THEN owner' = [owner EXCEPT ![l] = @ \cup {c}] /\ UNCHANGED waiters
       ELSE waiters' = [waiters EXCEPT ![l] = Append(@, c)] /\ UNCHANGED owner

\* The loop resumes the first waiter of a lock that was released.
Resume(c) ==
    LET l == using[c] IN
    /\ l # NoLock
    /\ owner[l] = {} /\ waiters[l] # <<>> /\ Head(waiters[l]) = c
    /\ owner' = [owner EXCEPT ![l] = @ \cup {c}]
    /\ waiters' = [waiters EXCEPT ![l] = Tail(@)]
    /\ UNCHANGED <<registered, using>>

\* Mutant: the lock is looked at before it is released.
DropEntryEarly(l) ==
    registered' = IF registered = l /\ owner[l] = {} THEN NoLock
                                                      ELSE registered

\* The finally clause: a free lock is taken out of the dictionary if it is
\* still the one registered, whoever is waiting for it.
DropEntry(l) ==
    registered' = IF registered = l /\ owner'[l] = {} THEN NoLock
                                                       ELSE registered

\* Mutant: a create that is cut short leaves its lock held.
ReleaseLeaked(c) ==
    /\ Creating(c)
    /\ using' = [using EXCEPT ![c] = NoLock]
    /\ UNCHANGED <<registered, owner, waiters>>

\* The lookup and the create are over, or were cancelled or failed.
Release(c) ==
    /\ Creating(c)
    /\ owner' = [owner EXCEPT ![using[c]] = {}]
    /\ using' = [using EXCEPT ![c] = NoLock]
    /\ DropEntry(using[c])
    /\ UNCHANGED waiters

\* A waiting create is cancelled: its client is gone.
Cancel(c) ==
    /\ using[c] # NoLock /\ ~Creating(c)
    /\ waiters' = [waiters EXCEPT ![using[c]] = Remove(@, c)]
    /\ using' = [using EXCEPT ![c] = NoLock]
    /\ UNCHANGED owner
    /\ DropEntry(using[c])

Next == \E c \in Creates : \/ \E l \in Locks : Arrive(c, l)
                           \/ Resume(c) \/ Release(c) \/ Cancel(c)

Spec == Init /\ [][Next]_vars

\* The loop resumes what is ready, and the requests to the proxy time out.
FairSpec == Spec /\ \A c \in Creates : WF_vars(Resume(c)) /\ WF_vars(Release(c))

-----------------------------------------------------------------------------

\* The dictionary does not grow: whatever order creates end or are cancelled
\* in, an alias keeps its entry only while a create holds that very lock.
EntriesAreDropped == registered # NoLock => owner[registered] # {}

\* A waiting create is served or gives up: dropping the entry loses no one.
WaitersProceed ==
    \A c \in Creates : using[c] # NoLock ~> Creating(c) \/ using[c] = NoLock

\* litellm_client.py:644: creates are serialized by alias in this process.  A
\* create that arrives after a release, while another still waits for the
\* lock just dropped, gets a lock of its own.
CreatesAreSerialized ==
    \A c, d \in Creates : Creating(c) /\ Creating(d) => c = d

=============================================================================
