---------------------------- MODULE BackofficeProofs ----------------------------
(***************************************************************************)
(* What is proved of the rest of the back office: the replacement of a     *)
(* personal key and what a leader is shown of the keys of a team, orders,  *)
(* adoption, the pilot's reconciliation and the demonstration store; and,  *)
(* with the theorems of AccountProofs and ProjectionProofs, of the office  *)
(* as a whole.                                                             *)
(***************************************************************************)
EXTENDS MCBackoffice, AccountProofs, ProjectionProofs

-----------------------------------------------------------------------------
(* The rotation of a key.                                                  *)

KeyStates == {"none", "active", "blocked", "deleted"}
SomeKey == Secrets \union {NoKey}
RequestSteps ==
  {"idle", "atomic", "owned", "regenerated", "creating", "created", "compensating", "stored",
   "undisabled", "disabling", "completing", "forgetting"}
KeyRequests == [pc : RequestSteps, old : SomeKey, new : SomeKey]

RotationTyped ==
  /\ keys \in [Secrets -> KeyStates] /\ vault \subseteq Secrets
  /\ pending \in [Secrets -> SomeKey] /\ request \in [KeyUsers -> KeyRequests]
  /\ loose \subseteq Secrets /\ replaced \subseteq Secrets \X Secrets
  /\ keyFaults \in 0..MaxKeyFaults

\* What a request knows of its two keys at each of its steps: a key it means to
\* delete exists, the secret of one it is about to forget is of a deleted key, and
\* the replacement is safe from the moment it is stored.
RequestHolds(u) ==
  LET old == request[u].old  new == request[u].new IN
  /\ request[u].pc \in {"idle", "atomic", "owned", "creating"} => new = NoKey
  /\ request[u].pc # "idle" => old \in Secrets
  /\ request[u].pc \in {"regenerated", "created", "compensating"} => new \in Secrets
  /\ request[u].pc \in {"stored", "undisabled", "disabling", "completing"}
       => new \in Secrets /\ StoredOrGone(new)
  /\ request[u].pc = "forgetting" => new = NoKey \/ StoredOrGone(new)
  /\ request[u].pc \in {"regenerated", "completing", "forgetting"} => keys[old] = "deleted"
  /\ request[u].pc \in {"creating", "created", "compensating", "stored", "undisabled", "disabling"}
       => keys[old] # "none"

RotationInv ==
  /\ RotationTyped /\ RotationIsSafe
  /\ \A u \in KeyUsers : RequestHolds(u)
  /\ \A k \in Secrets : pending[k] # NoKey => keys[k] # "none"

LEMMA RotationStart == RotationInit => RotationInv
<1> SUFFICES ASSUME RotationInit PROVE RotationInv
  OBVIOUS
<1>1. AtDesk \in KeyRequests /\ NoKey \in SomeKey
  BY DEF AtDesk, KeyRequests, SomeKey, RequestSteps
<1>2. RotationTyped
  BY <1>1, RotationAssumption DEF RotationInit, RotationTyped, KeyStates
<1>3. RotationIsSafe /\ \A k \in Secrets : pending[k] = NoKey
  BY DEF RotationInit, RotationIsSafe, NothingForNothing, PendingIsStored, WorkingKeysAreHeld
<1>4. \A u \in KeyUsers : RequestHolds(u)
  BY DEF RotationInit, RequestHolds, AtDesk
<1> QED BY <1>2, <1>3, <1>4 DEF RotationInv

\* No step brings a key back, and the vault forgets only deleted ones.
KeysGoOn ==
  /\ \A k \in Secrets : keys[k] # "none" => keys'[k] # "none"
  /\ \A k \in Secrets : keys[k] = "deleted" => keys'[k] = "deleted"
  /\ \A k \in Secrets : keys[k] = "blocked" => keys'[k] \in {"blocked", "deleted"}
  /\ \A k \in vault : k \in vault' \/ keys[k] = "deleted"

\* A request that goes on: it knows what it must, and leaves no working key behind.
KeyUserMoves(u) ==
  /\ RequestHolds(u)'
  /\ \A k \in Secrets : keys'[k] = "active" /\ request[u].new = k
       => k \in vault' \union loose' \/ request'[u].new = k

\* What is safe stays so.
LEMMA StaysSafe ==
    ASSUME RotationTyped, KeysGoOn, NEW k \in SomeKey, StoredOrGone(k), k \in Secrets
    PROVE  StoredOrGone(k)'
  BY DEF RotationTyped, KeysGoOn, StoredOrGone, KeyStates

\* A step is safe where the requests it moves are.
LEMMA RotationMoves ==
    ASSUME RotationInv, RotationTyped', KeysGoOn, loose \subseteq loose',
           \A u \in KeyUsers : request'[u] = request[u] \/ KeyUserMoves(u),
           \A p \in replaced' : p \in replaced \/ StoredOrGone(p[2])',
           \A k \in Secrets : \/ pending'[k] \in {NoKey, pending[k]}
                              \/ \E n \in Secrets : pending'[k] = n /\ StoredOrGone(n)' /\ keys'[k] # "none",
           \A k \in Secrets : keys'[k] = "active"
             => keys[k] = "active" \/ k \in loose' \/ \E u \in KeyUsers : request'[u].new = k
    PROVE  RotationInv'
<1>0. RotationTyped /\ RotationIsSafe
      /\ (\A u \in KeyUsers : RequestHolds(u)) /\ \A k \in Secrets : pending[k] # NoKey => keys[k] # "none"
  BY DEF RotationInv
<1>1. \A k \in Secrets : StoredOrGone(k) => StoredOrGone(k)'
  BY <1>0, StaysSafe DEF SomeKey
<1>2. NoKey \notin Secrets
  BY RotationAssumption
<1>3. ASSUME NEW u \in KeyUsers PROVE RequestHolds(u)'
  <2>1. CASE request'[u] = request[u]
    <3>1. request[u] \in KeyRequests
      BY <1>0 DEF RotationTyped
    <3>2. PICK old \in SomeKey, new \in SomeKey : old = request[u].old /\ new = request[u].new
      BY <3>1 DEF KeyRequests
    <3>3. new \in Secrets => (StoredOrGone(new) => StoredOrGone(new)')
      BY <1>1
    <3>4. old \in Secrets => /\ keys[old] # "none" => keys'[old] # "none"
                             /\ keys[old] = "deleted" => keys'[old] = "deleted"
      BY DEF KeysGoOn
    <3>5. RequestHolds(u)
      BY <1>0
    <3> QED BY <2>1, <3>1, <3>2, <3>3, <3>4, <3>5 DEF RequestHolds, KeyRequests, SomeKey
  <2>2. CASE KeyUserMoves(u)
    BY <2>2 DEF KeyUserMoves
  <2> QED BY <2>1, <2>2
<1>4. ASSUME NEW k \in Secrets, pending'[k] # NoKey
      PROVE  keys'[k] # "none" /\ StoredOrGone(pending[k])'
  <2>1. CASE pending'[k] = pending[k]
    <3>1. PICK n \in Secrets : n = pending[k]
      BY <1>0, <1>4, <2>1 DEF RotationTyped, SomeKey
    <3>2. StoredOrGone(n) /\ keys[k] # "none"
      BY <1>0, <1>2, <3>1 DEF RotationIsSafe, PendingIsStored
    <3>3. StoredOrGone(n)'
      BY <1>1, <3>2
    <3> QED BY <2>1, <3>1, <3>2, <3>3 DEF KeysGoOn, StoredOrGone
  <2>2. CASE \E n \in Secrets : pending'[k] = n /\ StoredOrGone(n)' /\ keys'[k] # "none"
    BY <2>2 DEF StoredOrGone
  <2> QED BY <1>4, <2>1, <2>2
<1>5. NothingForNothing'
  BY <1>0, <1>1 DEF NothingForNothing, RotationIsSafe, RotationTyped, StoredOrGone
<1>6. PendingIsStored'
  BY <1>4 DEF PendingIsStored, StoredOrGone
<1>7. ASSUME NEW k \in Secrets, keys'[k] = "active"
      PROVE  k \in vault' \union loose' \union {request'[u].new : u \in KeyUsers}
  <2>1. CASE keys[k] = "active"
    <3>1. CASE k \in vault
      BY <2>1, <3>1 DEF KeysGoOn
    <3>2. CASE k \in loose
      BY <3>2
    <3>3. CASE \E u \in KeyUsers : request[u].new = k
      <4>1. PICK u \in KeyUsers : request[u].new = k
        BY <3>3
      <4> QED BY <1>7, <4>1 DEF KeyUserMoves
    <3> QED BY <1>0, <2>1, <3>1, <3>2, <3>3 DEF RotationIsSafe, WorkingKeysAreHeld
  <2>2. CASE k \in loose' \/ \E u \in KeyUsers : request'[u].new = k
    BY <2>2
  <2> QED BY <1>7, <2>1, <2>2
<1>8. WorkingKeysAreHeld'
  BY <1>7 DEF WorkingKeysAreHeld
<1> QED BY <1>3, <1>4, <1>5, <1>6, <1>8 DEF RotationInv, RotationIsSafe

LEMMA RequestEdits ==
  \A q \in KeyRequests, s \in RequestSteps, n \in SomeKey :
    /\ [q EXCEPT !.pc = s] \in KeyRequests /\ [q EXCEPT !.pc = s].pc = s
    /\ [q EXCEPT !.pc = s].old = q.old /\ [q EXCEPT !.pc = s].new = q.new
    /\ [q EXCEPT !.pc = s, !.new = n] \in KeyRequests /\ [q EXCEPT !.pc = s, !.new = n].pc = s
    /\ [q EXCEPT !.pc = s, !.new = n].old = q.old /\ [q EXCEPT !.pc = s, !.new = n].new = n
  BY DEF KeyRequests

LEMMA RequestTypes ==
    ASSUME RotationInv
    PROVE  /\ RotationTyped /\ AtDesk \in KeyRequests /\ NoKey \in SomeKey /\ NoKey \notin Secrets
           /\ (\A k \in Secrets : k \in SomeKey)
           /\ (\A u \in KeyUsers : request[u] \in KeyRequests)
           /\ (\A u \in KeyUsers : RequestHolds(u))
<1>1. AtDesk \in KeyRequests /\ NoKey \in SomeKey /\ (\A k \in Secrets : k \in SomeKey)
  BY DEF AtDesk, KeyRequests, SomeKey, RequestSteps
<1>2. \A u \in KeyUsers : request[u] \in KeyRequests
  BY DEF RotationInv, RotationTyped
<1> QED BY <1>1, <1>2, RotationAssumption DEF RotationInv

\* A request that ends, and holds no working key but those it has shown or stored.
LEMMA RequestEnding ==
    ASSUME RotationInv, NEW u \in KeyUsers, RequestEnds(u),
           \A k \in Secrets : keys'[k] = "active" /\ request[u].new = k => k \in vault' \union loose'
    PROVE  /\ request' \in [KeyUsers -> KeyRequests]
           /\ \A w \in KeyUsers : request'[w] = request[w] \/ KeyUserMoves(w)
<1>1. request' \in [KeyUsers -> KeyRequests] /\ request'[u] = AtDesk
      /\ \A w \in KeyUsers : w # u => request'[w] = request[w]
  BY RequestTypes DEF RequestEnds, RotationTyped
<1>2. RequestHolds(u)'
  BY <1>1 DEF RequestHolds, AtDesk
<1> QED BY <1>1, <1>2 DEF KeyUserMoves

\* A request that goes on with its keys.
LEMMA RequestGoing ==
    ASSUME RotationInv, NEW u \in KeyUsers,
           NEW s \in RequestSteps,
           RequestGoes(u, s)
    PROVE  /\ request' \in [KeyUsers -> KeyRequests]
           /\ \A w \in KeyUsers : w # u => request'[w] = request[w]
           /\ request'[u].pc = s /\ request'[u].old = request[u].old /\ request'[u].new = request[u].new
<1>1. PICK q : q = [request[u] EXCEPT !.pc = s]
  OBVIOUS
<1>2. q \in KeyRequests /\ q.pc = s /\ q.old = request[u].old /\ q.new = request[u].new
  BY <1>1, RequestTypes, RequestEdits
<1>3. request' = [request EXCEPT ![u] = q]
  BY <1>1 DEF RequestGoes
<1> QED BY <1>2, <1>3, RequestTypes DEF RotationTyped

\* A request that gets a replacement for its key.
LEMMA RequestRenewed ==
    ASSUME RotationInv, NEW u \in KeyUsers, NEW s \in RequestSteps, NEW n \in SomeKey,
           request' = [request EXCEPT ![u].pc = s, ![u].new = n]
    PROVE  /\ request' \in [KeyUsers -> KeyRequests]
           /\ \A w \in KeyUsers : w # u => request'[w] = request[w]
           /\ request'[u].pc = s /\ request'[u].old = request[u].old /\ request'[u].new = n
<1>0. PICK r \in KeyRequests : r = request[u]
  BY RequestTypes
<1>1. PICK q : q = [r EXCEPT !.pc = s, !.new = n]
  OBVIOUS
<1>2. q \in KeyRequests /\ q.pc = s /\ q.old = r.old /\ q.new = n
  <2>1. q \in KeyRequests
    BY <1>1, RequestEdits
  <2>2. q.pc = s /\ q.old = r.old /\ q.new = n
    BY <1>1 DEF KeyRequests
  <2> QED BY <2>1, <2>2
<1>3. request' = [request EXCEPT ![u] = q]
  BY <1>0, <1>1
<1> QED BY <1>0, <1>2, <1>3, RequestTypes, ZenonT(60) DEF RotationTyped

\* A new request, or the replacement of its key.
LEMMA RequestTaking ==
    ASSUME RotationInv, NEW u \in KeyUsers, NEW q \in KeyRequests, request' = [request EXCEPT ![u] = q]
    PROVE  /\ request' \in [KeyUsers -> KeyRequests] /\ request'[u] = q
           /\ \A w \in KeyUsers : w # u => request'[w] = request[w]
  BY RequestTypes DEF RotationTyped


\* What a call to delete a key may do, answered or not.
LEMMA DeletesStep ==
    ASSUME RotationTyped, NEW key \in SomeKey, key \in Secrets, NEW seen \in BOOLEAN, DeletesUpstream(key, seen)
    PROVE  /\ keys' \in [Secrets -> KeyStates] /\ keyFaults' \in 0..MaxKeyFaults
           /\ \A k \in Secrets :
                /\ keys[k] # "none" => keys'[k] # "none"
                /\ keys[k] = "deleted" => keys'[k] = "deleted"
                /\ keys[k] = "blocked" => keys'[k] \in {"blocked", "deleted"}
                /\ keys'[k] = "active" => keys[k] = "active"
           /\ seen => keys'[key] = "deleted"
<1>1. keys' = keys \/ (keys' = [keys EXCEPT ![key] = "deleted"] /\ key \in Owned)
  BY DEF DeletesUpstream
<1>2. keyFaults' \in 0..MaxKeyFaults
  BY RotationAssumption DEF DeletesUpstream, KeyFault, RotationTyped
<1>3. seen => keys' = [keys EXCEPT ![key] = "deleted"]
  BY DEF DeletesUpstream
<1> QED BY <1>1, <1>2, <1>3 DEF RotationTyped, KeyStates, Owned

LEMMA FaultStep ==
    ASSUME RotationTyped, KeyFault \/ UNCHANGED keyFaults
    PROVE  keyFaults' \in 0..MaxKeyFaults
  BY RotationAssumption DEF KeyFault, RotationTyped

LEMMA BeginRotationStep ==
    ASSUME RotationInv, NEW u \in KeyUsers, NEW old \in Secrets, BeginRotation(u, old)
    PROVE  RotationInv'
<1>1. PICK q \in KeyRequests : /\ request' = [request EXCEPT ![u] = q] /\ q.old = old /\ q.new = NoKey
                               /\ q.pc \in {"atomic", "owned"}
  <2>1. PICK mode \in {"atomic", "owned"} :
          request' = [request EXCEPT ![u] = [pc |-> mode, old |-> old, new |-> NoKey]]
    BY DEF BeginRotation
  <2>2. [pc |-> mode, old |-> old, new |-> NoKey] \in KeyRequests
    BY RequestTypes DEF KeyRequests, RequestSteps
  <2> QED BY <2>1, <2>2
<1>2. /\ request' \in [KeyUsers -> KeyRequests] /\ request'[u] = q
      /\ \A w \in KeyUsers : w # u => request'[w] = request[w]
  BY <1>1, RequestTaking
<1>3. request[u].new = NoKey /\ NoKey \notin Secrets
  BY RequestTypes DEF BeginRotation, RequestAt, RequestHolds
<1>4. KeyUserMoves(u)
  BY <1>1, <1>2, <1>3 DEF KeyUserMoves, RequestHolds
<1>5. RotationTyped' /\ KeysGoOn /\ loose \subseteq loose'
  BY <1>2, RequestTypes DEF BeginRotation, keyHistory, RotationTyped, KeysGoOn
<1> QED BY <1>2, <1>4, <1>5, RotationMoves DEF BeginRotation, keyHistory

LEMMA ReadOwnedKeyStep ==
    ASSUME RotationInv, NEW u \in KeyUsers, ReadOwnedKey(u)
    PROVE  RotationInv'
<1>1. UNCHANGED <<keys, vault, pending, loose, replaced, keyFaults>> /\ KeysGoOn
  BY DEF ReadOwnedKey, keyHistory, KeysGoOn
<1>2. RequestHolds(u) /\ request[u].pc = "owned" /\ NoKey \notin Secrets
  BY RequestTypes DEF ReadOwnedKey, RequestAt
<1>3. CASE keys[request[u].old] = "active" /\ RequestGoes(u, "creating")
  <2>1. /\ request' \in [KeyUsers -> KeyRequests]
        /\ \A w \in KeyUsers : w # u => request'[w] = request[w]
        /\ request'[u].pc = "creating" /\ request'[u].old = request[u].old /\ request'[u].new = request[u].new
    BY <1>3, RequestGoing DEF RequestSteps
  <2>2. KeyUserMoves(u)
    BY <1>1, <1>2, <1>3, <2>1 DEF KeyUserMoves, RequestHolds
  <2> QED BY <1>1, <2>1, <2>2, RotationMoves, RequestTypes DEF RotationTyped
<1>4. CASE RequestEnds(u)
  <2>1. /\ request' \in [KeyUsers -> KeyRequests]
        /\ \A w \in KeyUsers : request'[w] = request[w] \/ KeyUserMoves(w)
    BY <1>2, <1>4, RequestEnding DEF RequestHolds
  <2> QED BY <1>1, <2>1, RotationMoves, RequestTypes DEF RotationTyped
<1> QED BY <1>3, <1>4 DEF ReadOwnedKey

LEMMA StoreReplacementStep ==
    ASSUME RotationInv, NEW u \in KeyUsers, StoreReplacement(u)
    PROVE  RotationInv'
<1>1. UNCHANGED <<keys, pending, loose, replaced, keyFaults>>
  BY DEF StoreReplacement, keyHistory
<1>2. RequestHolds(u) /\ request[u].pc = "created" /\ request[u].new \in Secrets
  BY RequestTypes DEF StoreReplacement, RequestAt, RequestHolds
<1>3. PICK s \in {"stored", "compensating"} :
        /\ RequestGoes(u, s) /\ (s = "stored" => vault' = vault \union {request[u].new})
        /\ (s = "compensating" => vault' = vault)
  BY DEF StoreReplacement
<1>4. /\ request' \in [KeyUsers -> KeyRequests]
      /\ \A w \in KeyUsers : w # u => request'[w] = request[w]
      /\ request'[u].pc = s /\ request'[u].old = request[u].old /\ request'[u].new = request[u].new
  BY <1>3, RequestGoing DEF RequestSteps
<1>5. RotationTyped' /\ KeysGoOn
  BY <1>1, <1>2, <1>3, <1>4, RequestTypes DEF RotationTyped, KeysGoOn
<1>6. KeyUserMoves(u)
  BY <1>1, <1>2, <1>3, <1>4 DEF KeyUserMoves, RequestHolds, StoredOrGone
<1> QED BY <1>1, <1>4, <1>5, <1>6, RotationMoves

LEMMA RecordPendingStep ==
    ASSUME RotationInv, NEW u \in KeyUsers, RecordPending(u)
    PROVE  RotationInv'
<1>1. UNCHANGED <<keys, vault, loose, replaced, keyFaults>> /\ KeysGoOn
  BY DEF RecordPending, keyHistory, KeysGoOn
<1>2. request[u] \in KeyRequests /\ RequestHolds(u) /\ request[u].pc = "undisabled"
  BY RequestTypes DEF RecordPending, RequestAt
<1>3. PICK old \in Secrets, new \in Secrets : /\ old = request[u].old /\ new = request[u].new
        /\ StoredOrGone(new) /\ keys[old] # "none"
  BY <1>2 DEF RequestHolds
<1>4. /\ request' \in [KeyUsers -> KeyRequests]
      /\ \A w \in KeyUsers : request'[w] = request[w] \/ KeyUserMoves(w)
  BY <1>1, <1>3, RequestEnding DEF RecordPending, StoredOrGone
<1>5. pending' = pending \/ pending' = [pending EXCEPT ![old] = new]
  BY <1>3 DEF RecordPending
<1>6. StoredOrGone(new)'
  BY <1>1, <1>3 DEF StoredOrGone
<1>7. RotationTyped'
  BY <1>1, <1>4, <1>5, RequestTypes DEF RotationTyped
<1>8. \A k \in Secrets : \/ pending'[k] \in {NoKey, pending[k]}
                         \/ \E n \in Secrets : pending'[k] = n /\ StoredOrGone(n)' /\ keys'[k] # "none"
  BY <1>1, <1>3, <1>5, <1>6, RequestTypes DEF RotationTyped
<1> QED BY <1>1, <1>4, <1>7, <1>8, RotationMoves


LEMMA RegenerateStep ==
    ASSUME RotationInv, NEW u \in KeyUsers, Regenerate(u)
    PROVE  RotationInv'
<1>1. UNCHANGED <<vault, pending, replaced>>
  BY DEF Regenerate
<1>2. request[u] \in KeyRequests /\ RequestHolds(u) /\ request[u].pc = "atomic" /\ RotationTyped /\ NoKey \notin Secrets
  BY RequestTypes DEF Regenerate, RequestAt
<1>3. PICK old \in Secrets : old = request[u].old /\ request[u].new = NoKey
  BY <1>2 DEF RequestHolds
<1>4. ASSUME NEW new \in Fresh, NEW missed \in BOOLEAN, old \in Owned,
             keys' = [keys EXCEPT ![old] = "deleted", ![new] = "active"],
             loose' = IF missed THEN loose \union {new} ELSE loose,
             FaultOr(missed),
             IF missed THEN RequestEnds(u)
             ELSE request' = [request EXCEPT ![u].pc = "regenerated", ![u].new = new]
      PROVE  RotationInv'
  <2>1. /\ keys' \in [Secrets -> KeyStates] /\ keys'[old] = "deleted" /\ keys'[new] = "active"
        /\ new \in Secrets /\ new # old /\ keys[new] = "none"
        /\ \A k \in Secrets : k # old /\ k # new => keys'[k] = keys[k]
    BY <1>2, <1>4 DEF RotationTyped, Fresh, Owned, KeyStates
  <2>2. KeysGoOn /\ loose \subseteq loose' /\ loose' \subseteq Secrets
    BY <1>1, <1>2, <1>4, <2>1 DEF KeysGoOn, RotationTyped
  <2>3. keyFaults' \in 0..MaxKeyFaults
    BY <1>2, <1>4, FaultStep DEF FaultOr
  <2>4. /\ request' \in [KeyUsers -> KeyRequests]
        /\ \A w \in KeyUsers : request'[w] = request[w] \/ KeyUserMoves(w)
        /\ missed \/ request'[u].new = new
    <3>1. CASE missed
      BY <1>2, <1>3, <1>4, <3>1, RequestEnding
    <3>2. CASE ~missed
      <4>1. request' = [request EXCEPT ![u].pc = "regenerated", ![u].new = new] /\ new \in SomeKey
        BY <1>4, <2>1, <3>2, RequestTypes
      <4>2. /\ request' \in [KeyUsers -> KeyRequests]
            /\ \A w \in KeyUsers : w # u => request'[w] = request[w]
            /\ request'[u].pc = "regenerated" /\ request'[u].old = old /\ request'[u].new = new
        BY <1>3, <4>1, RequestRenewed DEF RequestSteps
      <4>3. KeyUserMoves(u)
        BY <1>2, <1>3, <2>1, <4>2 DEF KeyUserMoves, RequestHolds
      <4> QED BY <4>2, <4>3
    <3> QED BY <3>1, <3>2
  <2>5. RotationTyped'
    BY <1>1, <1>2, <2>1, <2>2, <2>3, <2>4 DEF RotationTyped
  <2>6. \A k \in Secrets : keys'[k] = "active"
             => keys[k] = "active" \/ k \in loose' \/ \E w \in KeyUsers : request'[w].new = k
    BY <1>4, <2>1, <2>4
  <2> QED BY <1>1, <2>2, <2>4, <2>5, <2>6, RotationMoves
<1>5. CASE UNCHANGED <<keys, loose>> /\ (KeyFault \/ UNCHANGED keyFaults) /\ RequestEnds(u)
  <2>1. /\ request' \in [KeyUsers -> KeyRequests]
        /\ \A w \in KeyUsers : request'[w] = request[w] \/ KeyUserMoves(w)
    BY <1>2, <1>3, <1>5, RequestEnding
  <2>2. keyFaults' \in 0..MaxKeyFaults
    BY <1>2, <1>5, FaultStep
  <2>3. RotationTyped' /\ KeysGoOn
    BY <1>1, <1>2, <1>5, <2>1, <2>2 DEF RotationTyped, KeysGoOn
  <2> QED BY <1>1, <1>5, <2>1, <2>3, RotationMoves
<1>6. CASE RequestGoes(u, "owned") /\ UNCHANGED <<keys, loose, keyFaults>>
  <2>1. /\ request' \in [KeyUsers -> KeyRequests]
        /\ \A w \in KeyUsers : w # u => request'[w] = request[w]
        /\ request'[u].pc = "owned" /\ request'[u].old = request[u].old /\ request'[u].new = request[u].new
    BY <1>6, RequestGoing DEF RequestSteps
  <2>2. KeyUserMoves(u)
    BY <1>2, <1>3, <2>1 DEF KeyUserMoves, RequestHolds
  <2>3. RotationTyped' /\ KeysGoOn
    BY <1>1, <1>2, <1>6, <2>1 DEF RotationTyped, KeysGoOn
  <2> QED BY <1>1, <1>6, <2>1, <2>2, <2>3, RotationMoves
<1>7. \/ /\ old \in Owned
         /\ \E new \in Fresh, missed \in BOOLEAN :
              /\ keys' = [keys EXCEPT ![old] = "deleted", ![new] = "active"]
              /\ loose' = IF missed THEN loose \union {new} ELSE loose
              /\ FaultOr(missed)
              /\ IF missed THEN RequestEnds(u)
                 ELSE request' = [request EXCEPT ![u].pc = "regenerated", ![u].new = new]
      \/ UNCHANGED <<keys, loose>> /\ (KeyFault \/ UNCHANGED keyFaults) /\ RequestEnds(u)
      \/ RequestGoes(u, "owned") /\ UNCHANGED <<keys, loose, keyFaults>>
  BY <1>3 DEF Regenerate
<1> QED BY <1>4, <1>5, <1>6, <1>7

LEMMA ReplaceInVaultStep ==
    ASSUME RotationInv, NEW u \in KeyUsers, ReplaceInVault(u)
    PROVE  RotationInv'
<1>1. UNCHANGED <<keys, replaced, keyFaults>>
  BY DEF ReplaceInVault
<1>2. request[u] \in KeyRequests /\ RequestHolds(u) /\ request[u].pc = "regenerated" /\ RotationTyped
  BY RequestTypes DEF ReplaceInVault, RequestAt
<1>3. PICK old \in Secrets, new \in Secrets : old = request[u].old /\ new = request[u].new /\ keys[old] = "deleted"
  BY <1>2 DEF RequestHolds
<1>4. /\ loose' = loose \union {new} /\ RequestEnds(u)
      /\ \/ vault' = (vault \ {old}) \union {new} /\ pending' = [pending EXCEPT ![old] = NoKey]
         \/ UNCHANGED <<vault, pending>>
  BY <1>3 DEF ReplaceInVault
<1>5. /\ request' \in [KeyUsers -> KeyRequests]
      /\ \A w \in KeyUsers : request'[w] = request[w] \/ KeyUserMoves(w)
  BY <1>3, <1>4, RequestEnding
<1>6. RotationTyped' /\ KeysGoOn /\ loose \subseteq loose'
  BY <1>1, <1>2, <1>3, <1>4, <1>5, RequestTypes DEF RotationTyped, KeysGoOn
<1>7. \A k \in Secrets : pending'[k] \in {NoKey, pending[k]}
  BY <1>2, <1>4 DEF RotationTyped
<1> QED BY <1>1, <1>5, <1>6, <1>7, RotationMoves

LEMMA CreateReplacementStep ==
    ASSUME RotationInv, NEW u \in KeyUsers, CreateReplacement(u)
    PROVE  RotationInv'
<1>1. UNCHANGED <<vault, pending, replaced>>
  BY DEF CreateReplacement
<1>2. request[u] \in KeyRequests /\ RequestHolds(u) /\ request[u].pc = "creating" /\ RotationTyped /\ NoKey \notin Secrets
  BY RequestTypes DEF CreateReplacement, RequestAt
<1>3. PICK old \in Secrets : old = request[u].old /\ request[u].new = NoKey /\ keys[old] # "none"
  BY <1>2 DEF RequestHolds
<1>4. ASSUME NEW new \in Fresh, NEW fails \in BOOLEAN,
             keys' = [keys EXCEPT ![new] = "active"],
             loose' = IF fails THEN loose \union {new} ELSE loose,
             FaultOr(fails),
             IF fails THEN RequestEnds(u)
             ELSE request' = [request EXCEPT ![u].pc = "created", ![u].new = new]
      PROVE  RotationInv'
  <2>1. /\ keys' \in [Secrets -> KeyStates] /\ keys'[new] = "active" /\ new \in Secrets /\ keys[new] = "none"
        /\ \A k \in Secrets : k # new => keys'[k] = keys[k]
    BY <1>2, <1>4 DEF RotationTyped, Fresh, KeyStates
  <2>2. KeysGoOn /\ loose \subseteq loose' /\ loose' \subseteq Secrets
    BY <1>1, <1>2, <1>4, <2>1 DEF KeysGoOn, RotationTyped
  <2>3. keyFaults' \in 0..MaxKeyFaults
    BY <1>2, <1>4, FaultStep DEF FaultOr
  <2>4. /\ request' \in [KeyUsers -> KeyRequests]
        /\ \A w \in KeyUsers : request'[w] = request[w] \/ KeyUserMoves(w)
        /\ fails \/ request'[u].new = new
    <3>1. CASE fails
      BY <1>2, <1>3, <1>4, <3>1, RequestEnding
    <3>2. CASE ~fails
      <4>1. request' = [request EXCEPT ![u].pc = "created", ![u].new = new] /\ new \in SomeKey
        BY <1>4, <2>1, <3>2, RequestTypes
      <4>2. /\ request' \in [KeyUsers -> KeyRequests]
            /\ \A w \in KeyUsers : w # u => request'[w] = request[w]
            /\ request'[u].pc = "created" /\ request'[u].old = old /\ request'[u].new = new
        BY <1>3, <4>1, RequestRenewed DEF RequestSteps
      <4>3. KeyUserMoves(u)
        BY <1>2, <1>3, <2>1, <4>2 DEF KeyUserMoves, RequestHolds
      <4> QED BY <4>2, <4>3
    <3> QED BY <3>1, <3>2
  <2>5. RotationTyped'
    BY <1>1, <1>2, <2>1, <2>2, <2>3, <2>4 DEF RotationTyped
  <2>6. \A k \in Secrets : keys'[k] = "active"
             => keys[k] = "active" \/ k \in loose' \/ \E w \in KeyUsers : request'[w].new = k
    BY <1>4, <2>1, <2>4
  <2> QED BY <1>1, <2>2, <2>4, <2>5, <2>6, RotationMoves
<1>5. CASE KeyFault /\ RequestEnds(u) /\ UNCHANGED <<keys, loose>>
  <2>1. /\ request' \in [KeyUsers -> KeyRequests]
        /\ \A w \in KeyUsers : request'[w] = request[w] \/ KeyUserMoves(w)
    BY <1>2, <1>3, <1>5, RequestEnding
  <2>2. keyFaults' \in 0..MaxKeyFaults
    BY <1>2, <1>5, FaultStep
  <2>3. RotationTyped' /\ KeysGoOn
    BY <1>1, <1>2, <1>5, <2>1, <2>2 DEF RotationTyped, KeysGoOn
  <2> QED BY <1>1, <1>5, <2>1, <2>3, RotationMoves
<1> QED BY <1>4, <1>5 DEF CreateReplacement


LEMMA CompensateStep ==
    ASSUME RotationInv, NEW u \in KeyUsers, Compensate(u)
    PROVE  RotationInv'
<1>1. UNCHANGED <<vault, pending, replaced>>
  BY DEF Compensate
<1>2. request[u] \in KeyRequests /\ RequestHolds(u) /\ request[u].pc = "compensating" /\ RotationTyped
  BY RequestTypes DEF Compensate, RequestAt
<1>3. PICK new \in SomeKey : new = request[u].new /\ new \in Secrets
  BY <1>2 DEF RequestHolds, KeyRequests
<1>4. PICK seen \in BOOLEAN : /\ DeletesUpstream(new, seen) /\ RequestEnds(u)
        /\ loose' = IF seen THEN loose ELSE loose \union {new}
  BY <1>3 DEF Compensate
<1>5. /\ keys' \in [Secrets -> KeyStates] /\ keyFaults' \in 0..MaxKeyFaults
      /\ \A k \in Secrets :
           /\ keys[k] # "none" => keys'[k] # "none"
           /\ keys[k] = "deleted" => keys'[k] = "deleted"
           /\ keys[k] = "blocked" => keys'[k] \in {"blocked", "deleted"}
           /\ keys'[k] = "active" => keys[k] = "active"
      /\ seen => keys'[new] = "deleted"
  BY <1>2, <1>3, <1>4, DeletesStep
<1>6. /\ request' \in [KeyUsers -> KeyRequests]
      /\ \A w \in KeyUsers : request'[w] = request[w] \/ KeyUserMoves(w)
  BY <1>3, <1>4, <1>5, RequestEnding
<1>7. RotationTyped' /\ KeysGoOn /\ loose \subseteq loose'
  BY <1>1, <1>2, <1>3, <1>4, <1>5, <1>6 DEF RotationTyped, KeysGoOn
<1> QED BY <1>1, <1>5, <1>6, <1>7, RotationMoves

LEMMA DeleteOldKeyStep ==
    ASSUME RotationInv, NEW u \in KeyUsers, DeleteOldKey(u)
    PROVE  RotationInv'
<1>1. UNCHANGED <<vault, pending, loose>>
  BY DEF DeleteOldKey
<1>2. request[u] \in KeyRequests /\ RequestHolds(u) /\ request[u].pc = "stored" /\ RotationTyped
  BY RequestTypes DEF DeleteOldKey, RequestAt
<1>3. PICK old \in SomeKey, new \in SomeKey : /\ old = request[u].old /\ new = request[u].new
        /\ old \in Secrets /\ new \in Secrets /\ StoredOrGone(new) /\ keys[old] # "none"
  BY <1>2 DEF RequestHolds, KeyRequests
<1>4. PICK seen \in BOOLEAN, s \in RequestSteps :
        /\ DeletesUpstream(old, seen) /\ RequestGoes(u, s)
        /\ (seen /\ s = "forgetting") \/ (~seen /\ s = "undisabled")
  BY <1>3 DEF DeleteOldKey, RequestSteps
<1>5. /\ keys' \in [Secrets -> KeyStates] /\ keyFaults' \in 0..MaxKeyFaults
      /\ \A k \in Secrets :
           /\ keys[k] # "none" => keys'[k] # "none"
           /\ keys[k] = "deleted" => keys'[k] = "deleted"
           /\ keys[k] = "blocked" => keys'[k] \in {"blocked", "deleted"}
           /\ keys'[k] = "active" => keys[k] = "active"
      /\ seen => keys'[old] = "deleted"
  BY <1>2, <1>3, <1>4, DeletesStep
<1>6. /\ request' \in [KeyUsers -> KeyRequests]
      /\ \A w \in KeyUsers : w # u => request'[w] = request[w]
      /\ request'[u].pc = s /\ request'[u].old = old /\ request'[u].new = new
  BY <1>3, <1>4, RequestGoing
<1>7. replaced' = replaced \/ replaced' = replaced \union {<<old, new>>}
  BY <1>3 DEF DeleteOldKey
<1>8. RotationTyped' /\ KeysGoOn
  BY <1>1, <1>2, <1>3, <1>5, <1>6, <1>7 DEF RotationTyped, KeysGoOn
<1>9. StoredOrGone(new)'
  BY <1>2, <1>3, <1>8, StaysSafe
<1>10. KeyUserMoves(u)
  BY <1>3, <1>4, <1>5, <1>6, <1>9 DEF KeyUserMoves, RequestHolds, StoredOrGone
<1>11. \A p \in replaced' : p \in replaced \/ StoredOrGone(p[2])'
  BY <1>7, <1>9 DEF StoredOrGone
<1> QED BY <1>1, <1>5, <1>6, <1>8, <1>10, <1>11, RotationMoves

LEMMA DisableOldKeyStep ==
    ASSUME RotationInv, NEW u \in KeyUsers, NEW old \in Secrets, DisableOldKey(u, old)
    PROVE  RotationInv'
<1>1. UNCHANGED <<keys, vault, pending, loose, replaced, keyFaults>> /\ KeysGoOn
  BY DEF DisableOldKey, keyHistory, KeysGoOn
<1>2. request[u] \in KeyRequests /\ request[u].new = NoKey /\ RotationTyped /\ NoKey \notin Secrets
  BY RequestTypes DEF DisableOldKey, RequestAt, RequestHolds
<1>3. PICK new \in Secrets : new = pending[old]
  BY DEF DisableOldKey, Owned
<1>4. StoredOrGone(new) /\ keys[old] # "none"
  BY <1>2, <1>3 DEF RotationInv, RotationIsSafe, PendingIsStored
<1>5. PICK s \in {"disabling", "completing"} : s = IF old \in Owned THEN "disabling" ELSE "completing"
  OBVIOUS
<1>6. PICK q : q = [pc |-> s, old |-> old, new |-> new]
  OBVIOUS
<1>7. q \in KeyRequests /\ q.pc = s /\ q.old = old /\ q.new = new
  BY <1>6 DEF KeyRequests, RequestSteps, SomeKey
<1>8. request' = [request EXCEPT ![u] = q]
  BY <1>3, <1>5, <1>6 DEF DisableOldKey
<1>9. /\ request' \in [KeyUsers -> KeyRequests] /\ request'[u] = q
      /\ \A w \in KeyUsers : w # u => request'[w] = request[w]
  BY <1>7, <1>8, RequestTaking
<1>10. s = "completing" => keys[old] = "deleted"
  BY <1>2, <1>4, <1>5 DEF Owned, RotationTyped, KeyStates
<1>11. KeyUserMoves(u)
  BY <1>1, <1>2, <1>4, <1>7, <1>9, <1>10 DEF KeyUserMoves, RequestHolds, StoredOrGone
<1> QED BY <1>1, <1>2, <1>9, <1>11, RotationMoves DEF RotationTyped

LEMMA DisablePendingStep ==
    ASSUME RotationInv, NEW u \in KeyUsers, DisablePending(u)
    PROVE  RotationInv'
<1>1. UNCHANGED <<vault, pending, loose>>
  BY DEF DisablePending
<1>2. request[u] \in KeyRequests /\ RequestHolds(u) /\ request[u].pc = "disabling" /\ RotationTyped
  BY RequestTypes DEF DisablePending, RequestAt
<1>3. PICK old \in SomeKey, new \in SomeKey : /\ old = request[u].old /\ new = request[u].new
        /\ old \in Secrets /\ new \in Secrets /\ StoredOrGone(new)
  BY <1>2 DEF RequestHolds, KeyRequests
<1>4. PICK seen \in BOOLEAN :
        /\ DeletesUpstream(old, seen)
        /\ IF seen THEN RequestGoes(u, "completing") ELSE RequestEnds(u)
  BY <1>3 DEF DisablePending
<1>5. /\ keys' \in [Secrets -> KeyStates] /\ keyFaults' \in 0..MaxKeyFaults
      /\ \A k \in Secrets :
           /\ keys[k] # "none" => keys'[k] # "none"
           /\ keys[k] = "deleted" => keys'[k] = "deleted"
           /\ keys[k] = "blocked" => keys'[k] \in {"blocked", "deleted"}
           /\ keys'[k] = "active" => keys[k] = "active"
      /\ seen => keys'[old] = "deleted"
  BY <1>2, <1>3, <1>4, DeletesStep
<1>6. replaced' = replaced \/ replaced' = replaced \union {<<old, new>>}
  BY <1>3 DEF DisablePending
<1>7. KeysGoOn
  BY <1>1, <1>5 DEF KeysGoOn
<1>8. StoredOrGone(new)'
  BY <1>2, <1>3, <1>7, StaysSafe
<1>9. /\ request' \in [KeyUsers -> KeyRequests]
      /\ \A w \in KeyUsers : request'[w] = request[w] \/ KeyUserMoves(w)
  <2>1. CASE seen
    <3>1. /\ request' \in [KeyUsers -> KeyRequests]
          /\ \A w \in KeyUsers : w # u => request'[w] = request[w]
          /\ request'[u].pc = "completing" /\ request'[u].old = old /\ request'[u].new = new
      BY <1>3, <1>4, <2>1, RequestGoing DEF RequestSteps
    <3>2. KeyUserMoves(u)
      BY <1>3, <1>5, <1>8, <2>1, <3>1 DEF KeyUserMoves, RequestHolds, StoredOrGone
    <3> QED BY <3>1, <3>2
  <2>2. CASE ~seen
    BY <1>3, <1>4, <1>8, <2>2, RequestEnding DEF StoredOrGone
  <2> QED BY <2>1, <2>2
<1>10. RotationTyped'
  BY <1>1, <1>2, <1>3, <1>5, <1>6, <1>9 DEF RotationTyped
<1>11. \A p \in replaced' : p \in replaced \/ StoredOrGone(p[2])'
  BY <1>6, <1>8 DEF StoredOrGone
<1> QED BY <1>1, <1>5, <1>7, <1>9, <1>10, <1>11, RotationMoves

LEMMA CompletePendingStep ==
    ASSUME RotationInv, NEW u \in KeyUsers, CompletePending(u)
    PROVE  RotationInv'
<1>1. UNCHANGED <<keys, loose, replaced, keyFaults>>
  BY DEF CompletePending, keyHistory
<1>2. request[u] \in KeyRequests /\ RequestHolds(u) /\ request[u].pc = "completing" /\ RotationTyped
  BY RequestTypes DEF CompletePending, RequestAt
<1>3. PICK old \in SomeKey, new \in SomeKey : /\ old = request[u].old /\ new = request[u].new
        /\ old \in Secrets /\ new \in Secrets /\ StoredOrGone(new) /\ keys[old] = "deleted"
  BY <1>2 DEF RequestHolds, KeyRequests
<1>4. /\ RequestEnds(u)
      /\ \/ vault' = vault \ {old} /\ pending' = [pending EXCEPT ![old] = NoKey]
         \/ UNCHANGED <<vault, pending>>
  BY <1>3 DEF CompletePending
<1>5. KeysGoOn
  BY <1>1, <1>3, <1>4 DEF KeysGoOn
<1>6. StoredOrGone(new)'
  BY <1>2, <1>3, <1>5, StaysSafe
<1>7. /\ request' \in [KeyUsers -> KeyRequests]
      /\ \A w \in KeyUsers : request'[w] = request[w] \/ KeyUserMoves(w)
  BY <1>3, <1>4, <1>6, RequestEnding DEF StoredOrGone
<1>8. RotationTyped' /\ \A k \in Secrets : pending'[k] \in {NoKey, pending[k]}
  BY <1>1, <1>2, <1>4, <1>7, RequestTypes DEF RotationTyped
<1> QED BY <1>1, <1>5, <1>7, <1>8, RotationMoves


LEMMA RevokeTeamKeyStep ==
    ASSUME RotationInv, NEW key \in Secrets, RevokeTeamKey(key)
    PROVE  RotationInv'
<1>1. UNCHANGED <<vault, pending, request, loose, replaced, keyFaults>>
      /\ keys[key] = "active" /\ keys' = [keys EXCEPT ![key] = "blocked"]
  BY DEF RevokeTeamKey, keyHistory
<1>2. RotationTyped' /\ KeysGoOn
  BY <1>1, RequestTypes DEF RotationTyped, KeysGoOn, KeyStates
<1>3. \A k \in Secrets : keys'[k] = "active" => keys[k] = "active"
  BY <1>1, RequestTypes DEF RotationTyped
<1> QED BY <1>1, <1>2, <1>3, RotationMoves

LEMMA DeleteKeyStep ==
    ASSUME RotationInv, NEW u \in KeyUsers, NEW key \in Secrets, DeleteKey(u, key)
    PROVE  RotationInv'
<1>1. UNCHANGED <<vault, pending, loose, replaced>>
  BY DEF DeleteKey, keyHistory
<1>2. request[u] \in KeyRequests /\ request[u].new = NoKey /\ RotationTyped /\ NoKey \notin Secrets
  BY RequestTypes DEF DeleteKey, RequestAt, RequestHolds
<1>3. PICK seen \in BOOLEAN :
        /\ DeletesUpstream(key, seen)
        /\ request' = IF seen
             THEN [request EXCEPT ![u] = [pc |-> "forgetting", old |-> key, new |-> NoKey]] ELSE request
  BY DEF DeleteKey
<1>4. /\ keys' \in [Secrets -> KeyStates] /\ keyFaults' \in 0..MaxKeyFaults
      /\ \A k \in Secrets :
           /\ keys[k] # "none" => keys'[k] # "none"
           /\ keys[k] = "deleted" => keys'[k] = "deleted"
           /\ keys[k] = "blocked" => keys'[k] \in {"blocked", "deleted"}
           /\ keys'[k] = "active" => keys[k] = "active"
      /\ seen => keys'[key] = "deleted"
  BY <1>2, <1>3, DeletesStep, RequestTypes
<1>5. KeysGoOn
  BY <1>1, <1>4 DEF KeysGoOn
<1>6. /\ request' \in [KeyUsers -> KeyRequests]
      /\ \A w \in KeyUsers : request'[w] = request[w] \/ KeyUserMoves(w)
  <2>1. CASE seen
    <3>1. PICK q : q = [pc |-> "forgetting", old |-> key, new |-> NoKey]
      OBVIOUS
    <3>2. q \in KeyRequests /\ q.pc = "forgetting" /\ q.old = key /\ q.new = NoKey
      BY <3>1, RequestTypes DEF KeyRequests, RequestSteps
    <3>3. /\ request' \in [KeyUsers -> KeyRequests] /\ request'[u] = q
          /\ \A w \in KeyUsers : w # u => request'[w] = request[w]
      BY <1>3, <2>1, <3>1, <3>2, RequestTaking
    <3>4. KeyUserMoves(u)
      BY <1>2, <1>4, <2>1, <3>2, <3>3 DEF KeyUserMoves, RequestHolds
    <3> QED BY <3>3, <3>4
  <2>2. CASE ~seen
    BY <1>2, <1>3, <2>2 DEF RotationTyped
  <2> QED BY <2>1, <2>2
<1>7. RotationTyped'
  BY <1>1, <1>2, <1>4, <1>6 DEF RotationTyped
<1> QED BY <1>1, <1>4, <1>5, <1>6, <1>7, RotationMoves

LEMMA ForgetSecretStep ==
    ASSUME RotationInv, NEW u \in KeyUsers, ForgetSecret(u)
    PROVE  RotationInv'
<1>1. UNCHANGED <<keys, loose, replaced, keyFaults>>
  BY DEF ForgetSecret, keyHistory
<1>2. request[u] \in KeyRequests /\ RequestHolds(u) /\ request[u].pc = "forgetting" /\ RotationTyped
      /\ NoKey \notin Secrets
  BY RequestTypes DEF ForgetSecret, RequestAt
<1>3. PICK key \in SomeKey, new \in SomeKey : /\ key = request[u].old /\ new = request[u].new
        /\ key \in Secrets /\ keys[key] = "deleted" /\ (new = NoKey \/ StoredOrGone(new))
  BY <1>2 DEF RequestHolds, KeyRequests
<1>4. /\ RequestEnds(u)
      /\ \/ /\ vault' = vault \ {key}
            /\ pending' = [k \in Secrets |-> IF k = key \/ pending[k] = key THEN NoKey ELSE pending[k]]
         \/ UNCHANGED <<vault, pending>>
  BY <1>3 DEF ForgetSecret
<1>5. KeysGoOn
  BY <1>1, <1>3, <1>4 DEF KeysGoOn
<1>6. new \in Secrets => StoredOrGone(new)'
  BY <1>2, <1>3, <1>5, StaysSafe
<1>7. /\ request' \in [KeyUsers -> KeyRequests]
      /\ \A w \in KeyUsers : request'[w] = request[w] \/ KeyUserMoves(w)
  BY <1>3, <1>4, <1>6, RequestEnding DEF StoredOrGone
<1>8. RotationTyped' /\ \A k \in Secrets : pending'[k] \in {NoKey, pending[k]}
  BY <1>1, <1>2, <1>4, <1>7, RequestTypes DEF RotationTyped
<1> QED BY <1>1, <1>5, <1>7, <1>8, RotationMoves

LEMMA RequestDiesStep ==
    ASSUME RotationInv, NEW u \in KeyUsers, RequestDies(u)
    PROVE  RotationInv'
<1>1. UNCHANGED <<keys, vault, pending, replaced>> /\ KeyFault /\ RequestEnds(u)
      /\ loose' = loose \union ({request[u].new} \intersect Secrets)
  BY DEF RequestDies
<1>2. /\ request' \in [KeyUsers -> KeyRequests]
      /\ \A w \in KeyUsers : request'[w] = request[w] \/ KeyUserMoves(w)
  BY <1>1, RequestEnding
<1>3. keyFaults' \in 0..MaxKeyFaults
  BY <1>1, FaultStep, RequestTypes
<1>4. RotationTyped' /\ KeysGoOn /\ loose \subseteq loose'
  BY <1>1, <1>2, <1>3, RequestTypes DEF RotationTyped, KeysGoOn
<1> QED BY <1>1, <1>2, <1>4, RotationMoves

LEMMA RotationSteps == RotationInv /\ [RotationNext]_rotationVars => RotationInv'
<1> SUFFICES ASSUME RotationInv, [RotationNext]_rotationVars PROVE RotationInv'
  OBVIOUS
<1>1. CASE UNCHANGED rotationVars
  BY <1>1 DEF rotationVars, RotationInv, RotationTyped, RotationIsSafe, NothingForNothing, PendingIsStored,
     WorkingKeysAreHeld, StoredOrGone, RequestHolds
<1>2. CASE \E u \in KeyUsers, k \in Secrets : BeginRotation(u, k) \/ DisableOldKey(u, k) \/ DeleteKey(u, k)
  BY <1>2, BeginRotationStep, DisableOldKeyStep, DeleteKeyStep
<1>3. CASE \E u \in KeyUsers :
       \/ Regenerate(u) \/ ReplaceInVault(u) \/ ReadOwnedKey(u) \/ CreateReplacement(u)
       \/ StoreReplacement(u) \/ Compensate(u) \/ DeleteOldKey(u) \/ RecordPending(u)
       \/ DisablePending(u) \/ CompletePending(u) \/ ForgetSecret(u) \/ RequestDies(u)
  BY <1>3, RegenerateStep, ReplaceInVaultStep, ReadOwnedKeyStep, CreateReplacementStep, StoreReplacementStep,
     CompensateStep, DeleteOldKeyStep, RecordPendingStep, DisablePendingStep, CompletePendingStep,
     ForgetSecretStep, RequestDiesStep
<1>4. CASE \E k \in Secrets : RevokeTeamKey(k)
  BY <1>4, RevokeTeamKeyStep
<1> QED BY <1>1, <1>2, <1>3, <1>4 DEF RotationNext

\* The invariant of the rotation holds in every reachable state
\* (main.regenerate_my_key, disable_old_key and KeyVault).
THEOREM RotationInvariant == RotationSpec => []RotationInv
<1> QED BY RotationStart, RotationSteps, PTL DEF RotationSpec

\* A rotation never takes a key away for nothing, can be finished when it is left
\* pending, and leaves no working key that nobody holds, for any number of requests,
\* failing calls and dying processes.
THEOREM RotationSafe == RotationSpec => []RotationIsSafe
<1>1. RotationInv => RotationIsSafe
  BY DEF RotationInv
<1> QED BY <1>1, RotationInvariant, PTL

\* The keys, their secrets and the requests keep their types.
THEOREM RotationTypeCorrect == RotationSpec => []RotationTypeOK
<1>1. RotationInv => RotationTypeOK
  BY DEF RotationInv, RotationTyped, RotationTypeOK, KeyStates, KeyRequests, SomeKey
<1> QED BY <1>1, RotationInvariant, PTL

-----------------------------------------------------------------------------
(* Reads of the keys of a team.                                            *)

Values == Versions \union {Missing}
TeamTasks == [pc : {"none", "started", "joined", "done"}, value : Values, on : Versions]
AccountTasks == [pc : {"none", "asked", "answered"}, value : Values, on : Versions]
ReaderStates == [pc : {"idle", "waiting", "resumed", "served"}, version : Versions,
                 refresh : BOOLEAN, since : Versions, value : Values]
Caches == [version : Versions, value : Values]

ReadsTyped ==
  /\ truth \in Versions /\ told \in Versions
  /\ changing \subseteq [by : {"leader", "member"}, change : Versions]
  /\ outer \in Caches /\ inner \in Caches
  /\ outerLoads \in [Versions \X BOOLEAN -> TeamTasks]
  /\ innerLoads \in [Versions -> AccountTasks]
  /\ reader \in [Readers -> ReaderStates]

\* Every invalidation answers a change of its own, so that the versions stay
\* behind the changes, and no load is under way for a version to come.
VersionsHold ==
  /\ IsFiniteSet(changing) /\ inner.version + Cardinality(changing) <= truth
  /\ outer.version <= inner.version
  /\ \A c \in changing : c.change <= truth
  /\ \A v \in Versions : innerLoads[v].pc # "none" => v <= inner.version
  /\ \A v \in Versions, b \in BOOLEAN : outerLoads[<<v, b>>].pc # "none" => v <= outer.version
  /\ \A r \in Readers : reader[r].pc # "idle" => reader[r].version <= outer.version

\* A load that has what it asked for has nothing older than change n.
NoOlder(v, b, n) ==
  LET task == outerLoads[<<v, b>>] IN
  /\ task.pc = "done" => task.value >= n
  /\ task.pc = "joined" /\ innerLoads[task.on].pc = "answered" => innerLoads[task.on].value >= n

\* What was loaded in the present version of a cache is as new as what a leader
\* has been told, and what a reader waits for as new as when it began.
LoadsAreFresh ==
  /\ told <= truth
  /\ inner.value # Missing => inner.value >= told
  /\ \A v \in Versions : v = inner.version /\ innerLoads[v].pc = "answered" => innerLoads[v].value >= told
  /\ \A v \in Versions, b \in BOOLEAN : v = outer.version => NoOlder(v, b, told)
  /\ \A r \in Readers :
       /\ reader[r].since <= told
       /\ reader[r].pc = "waiting" => NoOlder(reader[r].version, reader[r].refresh, reader[r].since)
       /\ reader[r].pc = "resumed" =>
            /\ reader[r].value >= reader[r].since
            /\ reader[r].version = outer.version => reader[r].value >= told

ReadsInv == ReadsTyped /\ VersionsHold /\ LoadsAreFresh /\ ReadsAreFresh

LEMMA ValuesAreInts == Values \subseteq Int /\ Versions \subseteq Int
  BY DEF Values, Versions, Missing

LEMMA ReadsStart == ReadsInit => ReadsInv
<1> SUFFICES ASSUME ReadsInit PROVE ReadsInv
  OBVIOUS
<1> USE ReadsAssumption
<1>1. 0 \in Versions /\ Missing \in Values /\ NoTask \in TeamTasks /\ NoTask \in AccountTasks
      /\ NotReading \in ReaderStates /\ [version |-> 0, value |-> Missing] \in Caches
  BY DEF Versions, Values, Missing, NoTask, NotReading, TeamTasks, AccountTasks, ReaderStates, Caches
<1>2. ReadsTyped
  BY <1>1 DEF ReadsInit, ReadsTyped
<1>3. VersionsHold
  BY <1>1, FS_EmptySet DEF ReadsInit, VersionsHold, NoTask, NotReading, Versions
<1>4. LoadsAreFresh /\ ReadsAreFresh
  BY <1>1 DEF ReadsInit, LoadsAreFresh, NoOlder, ReadsAreFresh, ServedIsFresh, CachedIsFresh, NoTask,
              NotReading, Versions
<1> QED BY <1>2, <1>3, <1>4 DEF ReadsInv

\* A change is made at the proxy.
LEMMA KeysChangeStep ==
    ASSUME ReadsInv, NEW by \in {"leader", "member"}, KeysChange(by)
    PROVE  ReadsInv'
<1> USE ReadsAssumption
<1>0. ReadsTyped /\ VersionsHold /\ LoadsAreFresh /\ ReadsAreFresh
  BY DEF ReadsInv
<1>1. PICK c : c = [by |-> by, change |-> truth + 1]
  OBVIOUS
<1>2. truth' = truth + 1 /\ truth' \in Versions /\ changing' = changing \union {c}
      /\ c \in [by : {"leader", "member"}, change : Versions] /\ c \notin changing
  BY <1>0, <1>1 DEF KeysChange, ReadsTyped, VersionsHold, Versions
<1>3. IsFiniteSet(changing') /\ Cardinality(changing') = Cardinality(changing) + 1
  BY <1>0, <1>2, FS_AddElement DEF VersionsHold
<1>4. ReadsTyped'
  BY <1>0, <1>2 DEF KeysChange, ReadsTyped
<1>5. VersionsHold'
  <2>1. inner.version + Cardinality(changing) <= truth /\ Cardinality(changing) \in Nat
        /\ inner.version \in Nat /\ truth \in Nat
    BY <1>0, FS_CardinalityType DEF VersionsHold, ReadsTyped, Caches, Versions
  <2>2. \A d \in changing' : d.change <= truth'
    BY <1>0, <1>1, <1>2 DEF VersionsHold, ReadsTyped, Versions
  <2> QED BY <1>0, <1>2, <1>3, <2>1, <2>2 DEF KeysChange, VersionsHold
<1>6. (LoadsAreFresh /\ ReadsAreFresh)'
  BY <1>0, <1>2 DEF KeysChange, LoadsAreFresh, NoOlder, ReadsAreFresh, ServedIsFresh, CachedIsFresh,
     ReadsTyped, Versions
<1> QED BY <1>4, <1>5, <1>6 DEF ReadsInv

\* Its answer is gone, and with it the chance of an invalidation.
LEMMA AnswerLostStep ==
    ASSUME ReadsInv, NEW c \in changing, AnswerLost(c)
    PROVE  ReadsInv'
<1>0. ReadsTyped /\ VersionsHold /\ LoadsAreFresh /\ ReadsAreFresh
  BY DEF ReadsInv
<1>1. IsFiniteSet(changing') /\ Cardinality(changing') = Cardinality(changing) - 1
  BY <1>0, FS_RemoveElement DEF AnswerLost, VersionsHold
<1>2. ReadsTyped'
  BY <1>0 DEF AnswerLost, ReadsTyped
<1>3. VersionsHold'
  <2>1. inner.version + Cardinality(changing) <= truth /\ Cardinality(changing) \in Nat
        /\ inner.version \in Nat /\ truth \in Nat
    BY <1>0, FS_CardinalityType, ReadsAssumption DEF VersionsHold, ReadsTyped, Caches, Versions
  <2> QED BY <1>0, <1>1, <2>1 DEF AnswerLost, VersionsHold
<1>4. (LoadsAreFresh /\ ReadsAreFresh)'
  BY <1>0 DEF AnswerLost, LoadsAreFresh, NoOlder, ReadsAreFresh, ServedIsFresh, CachedIsFresh
<1> QED BY <1>2, <1>3, <1>4 DEF ReadsInv

\* It is answered: the versions move on and leave what is under way behind.
LEMMA ChangeAnsweredStep ==
    ASSUME ReadsInv, NEW c \in changing, ChangeAnswered(c)
    PROVE  ReadsInv'
<1> USE ReadsAssumption
<1>0. ReadsTyped /\ VersionsHold /\ LoadsAreFresh /\ ReadsAreFresh
  BY DEF ReadsInv
<1>1. IsFiniteSet(changing') /\ Cardinality(changing') = Cardinality(changing) - 1
      /\ Cardinality(changing) \in Nat
  BY <1>0, FS_RemoveElement, FS_CardinalityType DEF ChangeAnswered, VersionsHold
<1>2. /\ truth \in Versions /\ told \in Versions /\ c.change \in Versions /\ c.change <= truth
      /\ inner \in Caches /\ outer \in Caches /\ told <= truth
      /\ inner.version + Cardinality(changing) <= truth /\ outer.version <= inner.version
  BY <1>0 DEF ReadsTyped, VersionsHold, LoadsAreFresh
<1>3. inner.version + 1 \in Versions /\ inner.version + 1 <= truth
      /\ inner.version + 1 + Cardinality(changing') <= truth
  <2>1. Cardinality(changing) # 0
    BY <1>0, FS_EmptySet DEF VersionsHold
  <2> QED BY <1>1, <1>2, <2>1 DEF Versions, Caches
<1>4. /\ inner' \in Caches /\ inner'.version = inner.version + 1 /\ inner'.value = Missing
      /\ UNCHANGED <<truth, outerLoads, innerLoads, reader>>
      /\ changing' = changing \ {c}
  BY <1>3 DEF ChangeAnswered, Invalidated, Caches, Values
<1>5. /\ outer' \in Caches /\ told' \in Versions /\ told' <= truth /\ told <= told'
      /\ \/ outer'.version = outer.version + 1 /\ outer'.value = Missing
         \/ UNCHANGED <<outer, told>>
  <2>1. CASE c.by = "leader"
    <3>1. told' = Later(told, c.change) /\ outer' = Invalidated(outer)
      BY <2>1 DEF ChangeAnswered
    <3>2. outer.version + 1 \in Versions
      BY <1>2, <1>3 DEF Versions, Caches
    <3> QED BY <1>2, <3>1, <3>2 DEF Later, Invalidated, Caches, Values, Versions
  <2>2. CASE c.by # "leader"
    BY <1>2, <2>2 DEF ChangeAnswered, Versions
  <2> QED BY <2>1, <2>2
<1>6. outer'.version <= inner'.version /\ outer.version <= outer'.version
  BY <1>2, <1>4, <1>5 DEF Caches, Versions
<1>7. ReadsTyped'
  BY <1>0, <1>4, <1>5 DEF ReadsTyped
<1>8. VersionsHold'
  <2>1. \A v \in Versions : innerLoads[v].pc # "none" => v <= inner'.version
    BY <1>0, <1>2, <1>4 DEF VersionsHold, Versions, Caches
  <2>2. \A v \in Versions, b \in BOOLEAN : outerLoads[<<v, b>>].pc # "none" => v <= outer'.version
    BY <1>0, <1>2, <1>5, <1>6 DEF VersionsHold, Versions, Caches
  <2>3. \A r \in Readers : reader[r].pc # "idle" => reader[r].version <= outer'.version
    <3> SUFFICES ASSUME NEW r \in Readers, reader[r].pc # "idle" PROVE reader[r].version <= outer'.version
      OBVIOUS
    <3>1. reader[r].version <= outer.version /\ reader[r].version \in Versions
      BY <1>0 DEF VersionsHold, ReadsTyped, ReaderStates
    <3> QED BY <1>2, <1>5, <1>6, <3>1 DEF Versions, Caches
  <2> QED BY <1>0, <1>1, <1>3, <1>4, <1>6, <2>1, <2>2, <2>3 DEF VersionsHold
<1>9. LoadsAreFresh'
  <2>1. \A v \in Versions : v = inner'.version => innerLoads[v].pc # "answered"
    BY <1>0, <1>2, <1>4 DEF VersionsHold, Versions, Caches
  <2>2. ASSUME NEW v \in Versions, NEW b \in BOOLEAN, v = outer'.version PROVE NoOlder(v, b, told)'
    <3>1. CASE UNCHANGED <<outer, told>>
      BY <1>0, <1>4, <2>2, <3>1 DEF LoadsAreFresh, NoOlder
    <3>2. CASE outer'.version = outer.version + 1
      <4>1. outerLoads[<<v, b>>].pc = "none"
        BY <1>0, <1>2, <2>2, <3>2 DEF VersionsHold, Versions, Caches
      <4> QED BY <1>4, <4>1 DEF NoOlder
    <3> QED BY <1>5, <3>1, <3>2
  <2>3. ASSUME NEW r \in Readers
        PROVE  /\ reader[r].since <= told'
               /\ reader[r].pc = "waiting" => NoOlder(reader[r].version, reader[r].refresh, reader[r].since)'
               /\ reader[r].pc = "resumed" =>
                    /\ reader[r].value >= reader[r].since
                    /\ reader[r].version = outer'.version => reader[r].value >= told'
    <3>1. reader[r] \in ReaderStates /\ reader[r].since <= told
      BY <1>0 DEF ReadsTyped, LoadsAreFresh
    <3>2. reader[r].since <= told'
      BY <1>2, <1>5, <3>1 DEF ReaderStates, Versions
    <3>3. reader[r].pc = "waiting" => NoOlder(reader[r].version, reader[r].refresh, reader[r].since)'
      BY <1>0, <1>4 DEF LoadsAreFresh, NoOlder
    <3>4. reader[r].pc = "resumed" =>
                    /\ reader[r].value >= reader[r].since
                    /\ reader[r].version = outer'.version => reader[r].value >= told'
      <4>1. reader[r].pc = "resumed" => reader[r].version <= outer.version
        BY <1>0 DEF VersionsHold
      <4> QED BY <1>0, <1>2, <1>5, <3>1, <4>1 DEF LoadsAreFresh, ReaderStates, Caches, Versions
    <3> QED BY <3>2, <3>3, <3>4
  <2> QED BY <1>4, <1>5, <2>1, <2>2, <2>3 DEF LoadsAreFresh
<1>10. ReadsAreFresh'
  BY <1>0, <1>4, <1>5 DEF ReadsAreFresh, ServedIsFresh, CachedIsFresh
<1> QED BY <1>7, <1>8, <1>9, <1>10 DEF ReadsInv

\* A task of a team or of an account takes another state.
LEMMA TaskTakes ==
    ASSUME ReadsTyped
    PROVE  /\ \A v \in Versions, b \in BOOLEAN : outerLoads[<<v, b>>] \in TeamTasks
           /\ \A v \in Versions, b \in BOOLEAN, t \in TeamTasks :
                /\ [outerLoads EXCEPT ![<<v, b>>] = t] \in [Versions \X BOOLEAN -> TeamTasks]
                /\ \A u \in Versions, a \in BOOLEAN :
                     [outerLoads EXCEPT ![<<v, b>>] = t][<<u, a>>] =
                       IF u = v /\ a = b THEN t ELSE outerLoads[<<u, a>>]
BY DEF ReadsTyped

LEMMA TimeRunsOutStep ==
    ASSUME ReadsInv, TimeRunsOut
    PROVE  ReadsInv'
<1>0. ReadsTyped /\ VersionsHold /\ LoadsAreFresh /\ ReadsAreFresh
  BY DEF ReadsInv
<1>1. /\ UNCHANGED <<truth, changing, outerLoads, innerLoads, reader, told>>
      /\ outer' \in Caches /\ outer'.version = outer.version /\ outer'.value \in {outer.value, Missing}
      /\ inner' \in Caches /\ inner'.version = inner.version /\ inner'.value \in {inner.value, Missing}
  BY <1>0 DEF TimeRunsOut, ReadsTyped, Caches, Values
<1>2. ReadsTyped' /\ VersionsHold'
  BY <1>0, <1>1 DEF ReadsTyped, VersionsHold
<1>3. LoadsAreFresh'
  BY <1>0, <1>1 DEF LoadsAreFresh, NoOlder
<1>4. ReadsAreFresh'
  BY <1>0, <1>1 DEF ReadsAreFresh, ServedIsFresh, CachedIsFresh
<1> QED BY <1>2, <1>3, <1>4 DEF ReadsInv

LEMMA ReadStep ==
    ASSUME ReadsInv, NEW r \in Readers, NEW refresh \in BOOLEAN, Read(r, refresh)
    PROVE  ReadsInv'
<1>0. ReadsTyped /\ VersionsHold /\ LoadsAreFresh /\ ReadsAreFresh /\ outer \in Caches
      /\ told \in Versions /\ outer.version \in Versions /\ outer.value \in Values /\ Missing \in Values
  BY DEF ReadsInv, ReadsTyped, Caches, Values
<1>1. PICK v \in Versions : v = outer.version
  BY <1>0
<1>2. UNCHANGED <<truth, changing, outer, inner, innerLoads, told>>
  BY DEF Read
<1>3. CASE ~refresh /\ outer.value # Missing
  <2>1. PICK t : t = [pc |-> "served", version |-> outer.version, refresh |-> FALSE, since |-> told,
                      value |-> outer.value]
    OBVIOUS
  <2>2. t \in ReaderStates /\ reader' = [reader EXCEPT ![r] = t] /\ outerLoads' = outerLoads
    BY <1>0, <1>3, <2>1 DEF Read, ReaderStates
  <2>3. reader' \in [Readers -> ReaderStates] /\ reader'[r] = t
        /\ \A q \in Readers : q # r => reader'[q] = reader[q]
    BY <1>0, <2>2 DEF ReadsTyped
  <2>4. ReadsTyped'
    BY <1>0, <1>2, <2>2, <2>3 DEF ReadsTyped
  <2>5. VersionsHold'
    <3>1. \A q \in Readers : reader'[q].pc # "idle" => reader'[q].version <= outer.version
      BY <1>0, <2>1, <2>3 DEF VersionsHold, Versions
    <3> QED BY <1>0, <1>2, <2>2, <3>1 DEF VersionsHold
  <2>6. LoadsAreFresh'
    <3>1. \A q \in Readers :
            /\ reader'[q].since <= told
            /\ reader'[q].pc = "waiting" => NoOlder(reader'[q].version, reader'[q].refresh, reader'[q].since)
            /\ reader'[q].pc = "resumed" =>
                 /\ reader'[q].value >= reader'[q].since
                 /\ reader'[q].version = outer.version => reader'[q].value >= told
      BY <1>0, <2>1, <2>3 DEF LoadsAreFresh, Versions
    <3> QED BY <1>0, <1>2, <2>2, <3>1 DEF LoadsAreFresh, NoOlder
  <2>7. ReadsAreFresh'
    BY <1>0, <1>2, <1>3, <2>1, <2>3 DEF ReadsAreFresh, ServedIsFresh, CachedIsFresh
  <2> QED BY <2>4, <2>5, <2>6, <2>7 DEF ReadsInv
<1>4. CASE ~(~refresh /\ outer.value # Missing)
  <2>1. PICK t : t = [pc |-> "waiting", version |-> outer.version, refresh |-> refresh, since |-> told,
                      value |-> Missing]
    OBVIOUS
  <2>2. t \in ReaderStates /\ reader' = [reader EXCEPT ![r] = t]
    BY <1>0, <1>4, <2>1 DEF Read, ReaderStates
  <2>3. reader' \in [Readers -> ReaderStates] /\ reader'[r] = t
        /\ \A q \in Readers : q # r => reader'[q] = reader[q]
    BY <1>0, <2>2 DEF ReadsTyped
  <2>4. \/ outerLoads' = outerLoads
        \/ \E s \in TeamTasks : s.pc = "started" /\ outerLoads' = [outerLoads EXCEPT ![<<v, refresh>>] = s]
    <3>1. [outerLoads[<<v, refresh>>] EXCEPT !.pc = "started"] \in TeamTasks
      BY <1>0, TaskTakes, SMTT(30) DEF TeamTasks
    <3>2. outerLoads[<<v, refresh>>] \in TeamTasks
      BY <1>0, TaskTakes
    <3>3. [outerLoads[<<v, refresh>>] EXCEPT !.pc = "started"].pc = "started"
      BY <3>2 DEF TeamTasks
    <3> QED BY <1>1, <1>4, <3>1, <3>3 DEF Read
  <2>5. outerLoads' \in [Versions \X BOOLEAN -> TeamTasks]
        /\ \A u \in Versions, b \in BOOLEAN :
             \/ outerLoads'[<<u, b>>] = outerLoads[<<u, b>>]
             \/ outerLoads'[<<u, b>>].pc = "started" /\ u = v
    <3>1. CASE outerLoads' = outerLoads
      BY <1>0, <3>1 DEF ReadsTyped
    <3>2. ASSUME NEW s \in TeamTasks, s.pc = "started", outerLoads' = [outerLoads EXCEPT ![<<v, refresh>>] = s]
          PROVE  /\ outerLoads' \in [Versions \X BOOLEAN -> TeamTasks]
                 /\ \A u \in Versions, b \in BOOLEAN :
                      \/ outerLoads'[<<u, b>>] = outerLoads[<<u, b>>]
                      \/ outerLoads'[<<u, b>>].pc = "started" /\ u = v
      BY <1>0, <3>2, TaskTakes
    <3> QED BY <2>4, <3>1, <3>2
  <2>6. ReadsTyped'
    BY <1>0, <1>2, <2>3, <2>5 DEF ReadsTyped
  <2>7. VersionsHold'
    <3>1. \A q \in Readers : reader'[q].pc # "idle" => reader'[q].version <= outer.version
      BY <1>0, <2>1, <2>3 DEF VersionsHold, Versions
    <3>2. \A u \in Versions, b \in BOOLEAN : outerLoads'[<<u, b>>].pc # "none" => u <= outer.version
      BY <1>0, <1>1, <2>5 DEF VersionsHold, Versions
    <3> QED BY <1>0, <1>2, <3>1, <3>2 DEF VersionsHold
  <2>8. \A u \in Versions, b \in BOOLEAN, n \in Versions : NoOlder(u, b, n) => NoOlder(u, b, n)'
    BY <1>2, <2>5 DEF NoOlder
  <2>9. LoadsAreFresh'
    <3>1. ASSUME NEW q \in Readers
          PROVE  /\ reader'[q].since <= told
                 /\ reader'[q].pc = "waiting" => NoOlder(reader[q].version, reader[q].refresh, reader[q].since)'
                 /\ reader'[q].pc = "resumed" =>
                      /\ reader'[q].value >= reader'[q].since
                      /\ reader'[q].version = outer.version => reader'[q].value >= told
      <4>1. CASE q = r
        <5>1. NoOlder(v, refresh, told)
          BY <1>0, <1>1 DEF LoadsAreFresh
        <5>2. PICK n \in Versions : n = told
          BY <1>0
        <5>3. NoOlder(v, refresh, n)'
          BY <2>8, <5>1, <5>2
        <5>4. reader'[q].since = n /\ reader'[q].version = v /\ reader'[q].refresh = refresh
              /\ reader'[q].pc = "waiting"
          BY <1>1, <2>1, <2>3, <4>1, <5>2
        <5>5. NoOlder(reader[q].version, reader[q].refresh, reader[q].since)'
          BY <5>3, <5>4 DEF NoOlder
        <5> QED BY <1>0, <5>2, <5>4, <5>5 DEF Versions
      <4>2. CASE q # r
        <5>1. PICK u \in Versions, b \in BOOLEAN, n \in Versions :
                u = reader[q].version /\ b = reader[q].refresh /\ n = reader[q].since
          BY <1>0 DEF ReadsTyped, ReaderStates
        <5>2. reader[q].pc = "waiting" => NoOlder(u, b, n)
          BY <1>0, <5>1 DEF LoadsAreFresh
        <5>3. reader[q].pc = "waiting" => NoOlder(u, b, n)'
          BY <2>8, <5>2
        <5>4. reader'[q] = reader[q]
          BY <2>3, <4>2
        <5>5. reader[q].pc = "waiting" => NoOlder(reader[q].version, reader[q].refresh, reader[q].since)'
          BY <5>1, <5>3, <5>4 DEF NoOlder
        <5> QED BY <1>0, <5>4, <5>5 DEF LoadsAreFresh
      <4> QED BY <4>1, <4>2
    <3>2. \A u \in Versions, b \in BOOLEAN : u = outer.version => NoOlder(u, b, told)'
      <4>1. PICK n \in Versions : n = told
        BY <1>0
      <4>2. \A u \in Versions, b \in BOOLEAN : u = outer.version => NoOlder(u, b, n)'
        BY <1>0, <2>8, <4>1 DEF LoadsAreFresh
      <4> QED BY <1>2, <4>1, <4>2 DEF NoOlder
    <3> QED BY <1>0, <1>2, <3>1, <3>2 DEF LoadsAreFresh
  <2>10. ReadsAreFresh'
    BY <1>0, <1>2, <2>1, <2>3 DEF ReadsAreFresh, ServedIsFresh, CachedIsFresh
  <2> QED BY <2>6, <2>7, <2>9, <2>10 DEF ReadsInv
<1> QED BY <1>3, <1>4


\* A step of the loads leaves the versions, and what is served, as they are.
LEMMA LoadersStep ==
    ASSUME ReadsInv, UNCHANGED <<truth, changing, told>>,
           outer' \in Caches, outer'.version = outer.version,
           inner' \in Caches, inner'.version = inner.version,
           outerLoads' \in [Versions \X BOOLEAN -> TeamTasks],
           innerLoads' \in [Versions -> AccountTasks], reader' \in [Readers -> ReaderStates],
           \A v \in Versions : innerLoads'[v].pc # "none" => innerLoads[v].pc # "none" \/ v = inner.version,
           \A v \in Versions, b \in BOOLEAN :
             outerLoads'[<<v, b>>].pc # "none" => outerLoads[<<v, b>>].pc # "none",
           \A v \in Versions, b \in BOOLEAN, n \in Versions :
             n <= told /\ NoOlder(v, b, n) => NoOlder(v, b, n)',
           inner'.value # Missing => inner'.value >= told,
           \A v \in Versions : v = inner.version /\ innerLoads'[v].pc = "answered" => innerLoads'[v].value >= told,
           \A r \in Readers :
             \/ reader'[r] = reader[r]
             \/ /\ reader'[r].pc # "waiting" /\ reader'[r].since <= told
                /\ reader'[r].pc # "idle" => reader'[r].version <= outer.version
                /\ reader'[r].pc = "resumed" =>
                     /\ reader'[r].value >= reader'[r].since
                     /\ reader'[r].version = outer.version => reader'[r].value >= told,
           ReadsAreFresh'
    PROVE  ReadsInv'
<1>0. ReadsTyped /\ VersionsHold /\ LoadsAreFresh /\ told \in Versions
  BY DEF ReadsInv, ReadsTyped
<1>1. ReadsTyped'
  BY <1>0 DEF ReadsTyped
<1>2. VersionsHold'
  <2>1. \A v \in Versions : innerLoads'[v].pc # "none" => v <= inner.version
    <3>1. inner.version \in Int
      BY <1>0, ReadsAssumption DEF ReadsTyped, Caches, Versions
    <3> QED BY <1>0, <3>1 DEF VersionsHold
  <2>2. \A v \in Versions, b \in BOOLEAN : outerLoads'[<<v, b>>].pc # "none" => v <= outer.version
    BY <1>0 DEF VersionsHold
  <2>3. \A r \in Readers : reader'[r].pc # "idle" => reader'[r].version <= outer.version
    BY <1>0 DEF VersionsHold
  <2> QED BY <1>0, <2>1, <2>2, <2>3 DEF VersionsHold
<1>3. LoadsAreFresh'
  <2>1. ASSUME NEW r \in Readers
        PROVE  /\ reader'[r].since <= told
               /\ reader'[r].pc = "waiting" => NoOlder(reader[r].version, reader[r].refresh, reader[r].since)'
               /\ reader'[r].pc = "resumed" =>
                    /\ reader'[r].value >= reader'[r].since
                    /\ reader'[r].version = outer.version => reader'[r].value >= told
    <3>1. CASE reader'[r] = reader[r]
      <4>1. PICK u \in Versions, b \in BOOLEAN, n \in Versions :
              u = reader[r].version /\ b = reader[r].refresh /\ n = reader[r].since
        BY <1>0 DEF ReadsTyped, ReaderStates
      <4>2. n <= told /\ (reader[r].pc = "waiting" => NoOlder(u, b, n))
        BY <1>0, <4>1 DEF LoadsAreFresh
      <4>3. reader[r].pc = "waiting" => NoOlder(u, b, n)'
        BY <4>2
      <4>4. reader[r].pc = "waiting" => NoOlder(reader[r].version, reader[r].refresh, reader[r].since)'
        BY <3>1, <4>1, <4>3 DEF NoOlder
      <4> QED BY <1>0, <3>1, <4>4 DEF LoadsAreFresh
    <3>2. CASE reader'[r] # reader[r]
      BY <3>2
    <3> QED BY <3>1, <3>2
  <2>2. \A v \in Versions, b \in BOOLEAN : v = outer.version => NoOlder(v, b, told)'
    <3>1. PICK n \in Versions : n = told
      BY <1>0
    <3>2. n <= told
      BY <3>1 DEF Versions
    <3>3. \A v \in Versions, b \in BOOLEAN : v = outer.version => NoOlder(v, b, n)'
      BY <1>0, <3>1, <3>2 DEF LoadsAreFresh
    <3> QED BY <3>1, <3>3 DEF NoOlder
  <2> QED BY <1>0, <2>1, <2>2 DEF LoadsAreFresh
<1> QED BY <1>1, <1>2, <1>3 DEF ReadsInv

LEMMA ReaderTypes ==
    ASSUME ReadsInv
    PROVE  /\ truth \in Versions /\ told \in Versions /\ told <= truth
           /\ outer \in Caches /\ inner \in Caches
           /\ outerLoads \in [Versions \X BOOLEAN -> TeamTasks]
           /\ innerLoads \in [Versions -> AccountTasks] /\ reader \in [Readers -> ReaderStates]
           /\ NoTask \in TeamTasks /\ NoTask \in AccountTasks /\ NotReading \in ReaderStates
           /\ Missing \in Values /\ Versions \subseteq Nat /\ 0 \in Versions
           /\ VersionsHold /\ LoadsAreFresh /\ ReadsAreFresh
<1> USE ReadsAssumption
<1>1. 0 \in Versions /\ Missing \in Values /\ NoTask \in TeamTasks /\ NoTask \in AccountTasks
      /\ NotReading \in ReaderStates /\ Versions \subseteq Nat
  BY DEF Versions, Values, Missing, NoTask, NotReading, TeamTasks, AccountTasks, ReaderStates
<1> QED BY <1>1 DEF ReadsInv, ReadsTyped, LoadsAreFresh

\* A reader goes on, or leaves.
LEMMA ReaderStep ==
    ASSUME ReadsInv, NEW r \in Readers, ReaderResumes(r) \/ ReaderLeaves(r)
    PROVE  ReadsInv'
<1>0. /\ reader[r] \in ReaderStates /\ NotReading \in ReaderStates /\ outer \in Caches
      /\ reader \in [Readers -> ReaderStates] /\ VersionsHold /\ LoadsAreFresh /\ ReadsAreFresh
      /\ told \in Nat
  BY ReaderTypes
<1>1. PICK t \in ReaderStates :
        /\ reader' = [reader EXCEPT ![r] = t]
        /\ \/ /\ t.pc = "served" /\ t.version = reader[r].version
              /\ t.since = reader[r].since /\ t.value = reader[r].value
              /\ reader[r].pc = "resumed"
           \/ t = NotReading
  <2>1. CASE ReaderResumes(r)
    <3>1. PICK t : t = [reader[r] EXCEPT !.pc = "served"]
      OBVIOUS
    <3>2. t \in ReaderStates /\ t.pc = "served" /\ t.version = reader[r].version
          /\ t.since = reader[r].since /\ t.value = reader[r].value
      BY <1>0, <3>1 DEF ReaderStates
    <3> QED BY <2>1, <3>1, <3>2 DEF ReaderResumes
  <2>2. CASE ReaderLeaves(r)
    BY <1>0, <2>2 DEF ReaderLeaves
  <2> QED BY <2>1, <2>2
<1>2. reader' \in [Readers -> ReaderStates] /\ reader'[r] = t
      /\ \A q \in Readers : q # r => reader'[q] = reader[q]
  BY <1>0, <1>1
<1>3. UNCHANGED <<truth, changing, inner, outerLoads, innerLoads, told>>
  BY DEF ReaderResumes, ReaderLeaves
<1>4. outer' \in Caches /\ outer'.version = outer.version
      /\ (outer'.value # Missing => outer'.value >= told)
  <2>1. CASE ReaderResumes(r)
    <3>1. reader[r].version = outer.version => reader[r].value >= told
      BY <1>0, <2>1 DEF ReaderResumes, LoadsAreFresh
    <3> QED BY <1>0, <2>1, <3>1 DEF ReaderResumes, Stored, Caches, ReaderStates, ReadsAreFresh, CachedIsFresh
  <2>2. CASE ReaderLeaves(r)
    BY <1>0, <2>2 DEF ReaderLeaves, ReadsAreFresh, CachedIsFresh
  <2> QED BY <2>1, <2>2
<1>5. ReadsAreFresh'
  <2>1. t.pc = "served" => t.value >= t.since
    BY <1>0, <1>1 DEF LoadsAreFresh, NotReading
  <2> QED BY <1>0, <1>2, <1>3, <1>4, <2>1 DEF ReadsAreFresh, ServedIsFresh, CachedIsFresh
<1>6. \A v \in Versions, b \in BOOLEAN, n \in Versions : NoOlder(v, b, n) => NoOlder(v, b, n)'
  BY <1>3 DEF NoOlder
<1>7. t.pc # "waiting" /\ t.pc # "resumed" /\ t.since <= told
      /\ (t.pc # "idle" => t.version <= outer.version)
  BY <1>0, <1>1 DEF LoadsAreFresh, VersionsHold, NotReading
<1> QED BY <1>0, <1>2, <1>3, <1>4, <1>5, <1>6, <1>7, LoadersStep, ReaderTypes DEF LoadsAreFresh

\* The proxy lists the keys as they are now.
LEMMA KeysListedStep ==
    ASSUME ReadsInv, NEW v \in Versions, KeysListed(v)
    PROVE  ReadsInv'
<1>0. /\ innerLoads \in [Versions -> AccountTasks] /\ truth \in Versions /\ told <= truth
      /\ told \in Versions /\ Versions \subseteq Nat /\ VersionsHold /\ LoadsAreFresh /\ ReadsAreFresh
      /\ outerLoads \in [Versions \X BOOLEAN -> TeamTasks]
  BY ReaderTypes
<1>1. PICK t \in AccountTasks : t.pc = "answered" /\ t.value = truth /\ innerLoads' = [innerLoads EXCEPT ![v] = t]
  <2>1. PICK t : t = [pc |-> "answered", value |-> truth, on |-> 0]
    OBVIOUS
  <2>2. t \in AccountTasks
    BY <1>0, <2>1, ReaderTypes DEF AccountTasks, Values
  <2> QED BY <2>1, <2>2 DEF KeysListed
<1>2. innerLoads' \in [Versions -> AccountTasks] /\ innerLoads'[v] = t
      /\ \A u \in Versions : u # v => innerLoads'[u] = innerLoads[u]
  BY <1>0, <1>1
<1>3. UNCHANGED <<truth, changing, outer, inner, outerLoads, reader, told>> /\ innerLoads[v].pc = "asked"
  BY DEF KeysListed
<1>4. ASSUME NEW u \in Versions, NEW b \in BOOLEAN, NEW n \in Versions, n <= told, NoOlder(u, b, n)
      PROVE  NoOlder(u, b, n)'
  <2>1. outerLoads[<<u, b>>].on \in Versions
    BY <1>0 DEF TeamTasks
  <2> QED BY <1>0, <1>1, <1>2, <1>3, <1>4, <2>1 DEF NoOlder
<1>5. ReadsAreFresh'
  BY <1>0, <1>3 DEF ReadsAreFresh, ServedIsFresh, CachedIsFresh
<1>6. \A u \in Versions : u = inner.version /\ innerLoads'[u].pc = "answered" => innerLoads'[u].value >= told
  BY <1>0, <1>1, <1>2 DEF LoadsAreFresh
<1> QED BY <1>0, <1>2, <1>3, <1>4, <1>5, <1>6, LoadersStep, ReaderTypes DEF LoadsAreFresh


\* A task of the team looks into the inner cache: what it finds there, and what
\* the load it joins has by now, is of the present version.
LEMMA LookInsideStep ==
    ASSUME ReadsInv, NEW u \in Versions, NEW b \in BOOLEAN, LookInside(<<u, b>>)
    PROVE  ReadsInv'
<1>0. /\ outerLoads \in [Versions \X BOOLEAN -> TeamTasks] /\ innerLoads \in [Versions -> AccountTasks]
      /\ inner \in Caches /\ told \in Versions /\ Versions \subseteq Nat /\ 0 \in Versions
      /\ VersionsHold /\ LoadsAreFresh /\ ReadsAreFresh /\ ReadsTyped
      /\ inner.version \in Versions /\ inner.value \in Values
      /\ outerLoads[<<u, b>>] \in TeamTasks /\ outerLoads[<<u, b>>].pc = "started"
  BY ReaderTypes, TaskTakes DEF ReadsInv, LookInside, Caches
<1>1. UNCHANGED <<truth, changing, outer, inner, reader, told>>
  BY DEF LookInside
<1>2. ReadsAreFresh'
  BY <1>0, <1>1 DEF ReadsAreFresh, ServedIsFresh, CachedIsFresh
<1>3. PICK w \in Versions : w = inner.version
  BY <1>0
<1>4. PICK i \in AccountTasks :
        /\ i.pc \in {"asked", innerLoads[w].pc} /\ (i.pc = "answered" => i = innerLoads[w])
        /\ innerLoads' = [innerLoads EXCEPT ![w] = i]
  <2>1. innerLoads[w] \in AccountTasks /\ innerLoads = [innerLoads EXCEPT ![w] = innerLoads[w]]
    BY <1>0
  <2>2. CASE innerLoads' = innerLoads
    BY <2>1, <2>2
  <2>3. CASE innerLoads' = [innerLoads EXCEPT ![w].pc = "asked"]
    <3>1. PICK i : i = [innerLoads[w] EXCEPT !.pc = "asked"]
      OBVIOUS
    <3>2. i \in AccountTasks /\ i.pc = "asked"
      BY <2>1, <3>1 DEF AccountTasks
    <3> QED BY <2>3, <3>1, <3>2
  <2> QED BY <1>3, <2>2, <2>3 DEF LookInside
<1>5. innerLoads' \in [Versions -> AccountTasks] /\ innerLoads'[w] = i
      /\ \A v \in Versions : v # w => innerLoads'[v] = innerLoads[v]
  BY <1>0, <1>4
<1>6. PICK t \in TeamTasks :
        /\ outerLoads' = [outerLoads EXCEPT ![<<u, b>>] = t]
        /\ \/ t.pc = "done" /\ t.value >= told
           \/ t.pc = "joined" /\ t.on = w
  <2>1. CASE ~b /\ inner.value # Missing
    <3>1. PICK t : t = [pc |-> "done", value |-> inner.value, on |-> 0]
      OBVIOUS
    <3>2. t \in TeamTasks /\ t.pc = "done" /\ t.value >= told
      BY <1>0, <2>1, <3>1 DEF TeamTasks, LoadsAreFresh
    <3> QED BY <2>1, <3>1, <3>2 DEF LookInside
  <2>2. CASE ~(~b /\ inner.value # Missing)
    <3>1. PICK t : t = [outerLoads[<<u, b>>] EXCEPT !.pc = "joined", !.on = w]
      OBVIOUS
    <3>2. \A s \in TeamTasks, v \in Versions : [s EXCEPT !.pc = "joined", !.on = v] \in TeamTasks
            /\ [s EXCEPT !.pc = "joined", !.on = v].pc = "joined" /\ [s EXCEPT !.pc = "joined", !.on = v].on = v
      BY DEF TeamTasks
    <3>3. t \in TeamTasks /\ t.pc = "joined" /\ t.on = w
      BY <1>0, <3>1, <3>2
    <3>4. outerLoads' = [outerLoads EXCEPT ![<<u, b>>] = t]
      BY <1>3, <2>2, <3>1 DEF LookInside
    <3> QED BY <3>3, <3>4
  <2> QED BY <2>1, <2>2
<1>7. /\ outerLoads' \in [Versions \X BOOLEAN -> TeamTasks] /\ outerLoads'[<<u, b>>] = t
      /\ \A v \in Versions, a \in BOOLEAN : v # u \/ a # b => outerLoads'[<<v, a>>] = outerLoads[<<v, a>>]
  BY <1>0, <1>6, TaskTakes
<1>8. ASSUME NEW v \in Versions, NEW a \in BOOLEAN, NEW n \in Versions, n <= told, NoOlder(v, a, n)
      PROVE  NoOlder(v, a, n)'
  <2>1. CASE v = u /\ a = b
    <3>1. outerLoads'[<<v, a>>] = t
      BY <1>7, <2>1
    <3>2. CASE t.pc = "done" /\ t.value >= told
      <4>1. t.value \in Int /\ n \in Int /\ told \in Int
        BY <1>0, <1>6, ValuesAreInts DEF TeamTasks
      <4>2. t.value >= n
        BY <1>8, <3>2, <4>1
      <4> QED BY <3>1, <3>2, <4>2 DEF NoOlder
    <3>3. CASE t.pc = "joined" /\ t.on = w
      <4>1. i.pc = "answered" => i.value >= told
        BY <1>0, <1>3, <1>4 DEF LoadsAreFresh
      <4>2. i.value \in Int /\ n \in Int /\ told \in Int
        BY <1>0, <1>4, ValuesAreInts DEF AccountTasks
      <4>3. i.pc = "answered" => i.value >= n
        BY <1>8, <4>1, <4>2
      <4> QED BY <1>5, <3>1, <3>3, <4>3 DEF NoOlder
    <3> QED BY <1>6, <3>2, <3>3
  <2>2. CASE v # u \/ a # b
    <3>1. outerLoads'[<<v, a>>] = outerLoads[<<v, a>>] /\ outerLoads[<<v, a>>].on \in Versions
      BY <1>0, <1>7, <2>2 DEF TeamTasks
    <3>2. innerLoads'[outerLoads[<<v, a>>].on].pc = "answered"
            => innerLoads'[outerLoads[<<v, a>>].on] = innerLoads[outerLoads[<<v, a>>].on]
      BY <1>4, <1>5, <3>1
    <3> QED BY <1>8, <3>1, <3>2 DEF NoOlder
  <2> QED BY <2>1, <2>2
<1>9. \A v \in Versions : innerLoads'[v].pc # "none" => innerLoads[v].pc # "none" \/ v = inner.version
  BY <1>3, <1>5
<1>10. \A v \in Versions, a \in BOOLEAN : outerLoads'[<<v, a>>].pc # "none" => outerLoads[<<v, a>>].pc # "none"
  BY <1>0, <1>7
<1>11. \A v \in Versions : v = inner.version /\ innerLoads'[v].pc = "answered" => innerLoads'[v].value >= told
  BY <1>0, <1>4, <1>5 DEF LoadsAreFresh
<1> QED BY <1>0, <1>1, <1>2, <1>5, <1>7, <1>8, <1>9, <1>10, <1>11, LoadersStep, ReaderTypes DEF LoadsAreFresh

\* A load ends, and every task that had joined it.
LEMMA LoadEndsStep ==
    ASSUME ReadsInv, NEW w \in Versions, LoadEnds(w)
    PROVE  ReadsInv'
<1>0. /\ outerLoads \in [Versions \X BOOLEAN -> TeamTasks] /\ innerLoads \in [Versions -> AccountTasks]
      /\ inner \in Caches /\ told \in Versions /\ Versions \subseteq Nat /\ 0 \in Versions
      /\ VersionsHold /\ LoadsAreFresh /\ ReadsAreFresh
      /\ innerLoads[w] \in AccountTasks /\ innerLoads[w].pc = "answered" /\ NoTask \in AccountTasks
      /\ UNCHANGED <<truth, changing, outer, reader, told>>
  BY ReaderTypes DEF LoadEnds
<1>1. innerLoads' \in [Versions -> AccountTasks] /\ innerLoads'[w] = NoTask /\ NoTask.pc = "none"
      /\ \A v \in Versions : v # w => innerLoads'[v] = innerLoads[v]
  BY <1>0 DEF LoadEnds, NoTask
<1>2. PICK t : t = [pc |-> "done", value |-> innerLoads[w].value, on |-> 0]
  OBVIOUS
<1>3. t \in TeamTasks /\ t.pc = "done" /\ t.value = innerLoads[w].value
  BY <1>0, <1>2 DEF TeamTasks, AccountTasks
<1>4. /\ outerLoads' \in [Versions \X BOOLEAN -> TeamTasks]
      /\ \A v \in Versions, a \in BOOLEAN :
           outerLoads'[<<v, a>>] = IF outerLoads[<<v, a>>].pc = "joined" /\ outerLoads[<<v, a>>].on = w
                                   THEN t ELSE outerLoads[<<v, a>>]
  BY <1>0, <1>2, <1>3 DEF LoadEnds
<1>5. inner' \in Caches /\ inner'.version = inner.version /\ (inner'.value # Missing => inner'.value >= told)
  BY <1>0 DEF LoadEnds, InnerStored, Caches, AccountTasks, LoadsAreFresh
<1>6. ReadsAreFresh'
  BY <1>0 DEF ReadsAreFresh, ServedIsFresh, CachedIsFresh
<1>7. ASSUME NEW v \in Versions, NEW a \in BOOLEAN, NEW n \in Versions, n <= told, NoOlder(v, a, n)
      PROVE  NoOlder(v, a, n)'
  <2>1. CASE outerLoads[<<v, a>>].pc = "joined" /\ outerLoads[<<v, a>>].on = w
    BY <1>0, <1>3, <1>4, <1>7, <2>1 DEF NoOlder
  <2>2. CASE ~(outerLoads[<<v, a>>].pc = "joined" /\ outerLoads[<<v, a>>].on = w)
    <3>1. outerLoads'[<<v, a>>] = outerLoads[<<v, a>>] /\ outerLoads[<<v, a>>].on \in Versions
      BY <1>0, <1>4, <2>2 DEF TeamTasks
    <3> QED BY <1>1, <1>7, <2>2, <3>1 DEF NoOlder
  <2> QED BY <2>1, <2>2
<1>8. \A v \in Versions : innerLoads'[v].pc # "none" => innerLoads[v].pc # "none"
  BY <1>1
<1>9. \A v \in Versions, a \in BOOLEAN : outerLoads'[<<v, a>>].pc # "none" => outerLoads[<<v, a>>].pc # "none"
  BY <1>4
<1>10. \A v \in Versions : v = inner.version /\ innerLoads'[v].pc = "answered" => innerLoads'[v].value >= told
  BY <1>0, <1>1 DEF LoadsAreFresh
<1> QED BY <1>0, <1>1, <1>4, <1>5, <1>6, <1>7, <1>8, <1>9, <1>10, LoadersStep, ReaderTypes


\* A task of the team ends, and those who wait for it go on with what it has.
LEMMA TeamLoadEndsStep ==
    ASSUME ReadsInv, NEW u \in Versions, NEW b \in BOOLEAN, TeamLoadEnds(<<u, b>>)
    PROVE  ReadsInv'
<1>0. /\ outerLoads \in [Versions \X BOOLEAN -> TeamTasks] /\ reader \in [Readers -> ReaderStates]
      /\ told \in Versions /\ Versions \subseteq Nat
      /\ VersionsHold /\ LoadsAreFresh /\ ReadsAreFresh
      /\ outerLoads[<<u, b>>] \in TeamTasks /\ outerLoads[<<u, b>>].pc = "done" /\ NoTask \in TeamTasks
      /\ UNCHANGED <<truth, changing, outer, inner, innerLoads, told>>
  BY ReaderTypes, TaskTakes DEF TeamLoadEnds, ReadsInv
<1>1. /\ outerLoads' \in [Versions \X BOOLEAN -> TeamTasks]
      /\ \A v \in Versions, a \in BOOLEAN :
           outerLoads'[<<v, a>>] = outerLoads[<<v, a>>] \/ outerLoads'[<<v, a>>].pc = "none"
  <2>1. outerLoads' = [outerLoads EXCEPT ![<<u, b>>] = NoTask] /\ NoTask.pc = "none"
    BY DEF TeamLoadEnds, NoTask
  <2> QED BY <1>0, <2>1
<1>2. PICK x \in Values : x = outerLoads[<<u, b>>].value
  BY <1>0 DEF TeamTasks
<1>3. ASSUME NEW r \in Readers
      PROVE  /\ reader'[r] \in ReaderStates
             /\ \/ reader'[r] = reader[r]
                \/ /\ reader[r].pc = "waiting" /\ reader[r].version = u /\ reader[r].refresh = b
                   /\ reader'[r].pc = "resumed" /\ reader'[r].value = x
                   /\ reader'[r].version = u /\ reader'[r].since = reader[r].since
  <2>1. reader[r] \in ReaderStates
    BY <1>0
  <2>2. CASE reader[r].pc = "waiting" /\ <<reader[r].version, reader[r].refresh>> = <<u, b>>
    <3>1. PICK t : t = [reader[r] EXCEPT !.pc = "resumed", !.value = x]
      OBVIOUS
    <3>2. \A s \in ReaderStates, y \in Values :
            /\ [s EXCEPT !.pc = "resumed", !.value = y] \in ReaderStates
            /\ [s EXCEPT !.pc = "resumed", !.value = y].pc = "resumed"
            /\ [s EXCEPT !.pc = "resumed", !.value = y].value = y
            /\ [s EXCEPT !.pc = "resumed", !.value = y].version = s.version
            /\ [s EXCEPT !.pc = "resumed", !.value = y].since = s.since
      BY DEF ReaderStates
    <3>3. reader'[r] = t
      BY <1>2, <2>2, <3>1 DEF TeamLoadEnds
    <3>4. reader[r].version = u /\ reader[r].refresh = b
      BY <2>2
    <3>5. /\ t \in ReaderStates /\ t.pc = "resumed" /\ t.value = x
          /\ t.version = reader[r].version /\ t.since = reader[r].since
      BY <2>1, <3>1, <3>2
    <3> QED BY <2>2, <3>3, <3>4, <3>5
  <2>3. CASE ~(reader[r].pc = "waiting" /\ <<reader[r].version, reader[r].refresh>> = <<u, b>>)
    BY <2>1, <2>3 DEF TeamLoadEnds
  <2> QED BY <2>2, <2>3
<1>4. reader' \in [Readers -> ReaderStates]
  BY <1>3 DEF TeamLoadEnds
<1>5. ASSUME NEW r \in Readers, reader'[r] # reader[r]
      PROVE  /\ reader'[r].pc = "resumed" /\ reader'[r].since <= told /\ reader'[r].version <= outer.version
             /\ reader'[r].value >= reader'[r].since
             /\ reader'[r].version = outer.version => reader'[r].value >= told
  <2>1. PICK n \in Versions : n = reader[r].since
    BY <1>0 DEF ReaderStates
  <2>2. reader[r].version = u /\ reader[r].refresh = b /\ reader[r].pc = "waiting"
        /\ reader'[r].pc = "resumed" /\ reader'[r].value = x /\ reader'[r].version = u /\ reader'[r].since = n
    BY <1>3, <1>5, <2>1
  <2>3. n <= told /\ u <= outer.version /\ NoOlder(u, b, n)
    <3>1. NoOlder(reader[r].version, reader[r].refresh, reader[r].since)
      BY <1>0, <2>2 DEF LoadsAreFresh
    <3> QED BY <1>0, <2>1, <2>2, <3>1 DEF LoadsAreFresh, VersionsHold
  <2>4. x >= n
    BY <1>0, <1>2, <2>3 DEF NoOlder
  <2>5. u = outer.version => x >= told
    <3>1. u = outer.version => NoOlder(u, b, told)
      BY <1>0 DEF LoadsAreFresh
    <3> QED BY <1>0, <1>2, <3>1 DEF NoOlder
  <2> QED BY <2>2, <2>3, <2>4, <2>5
<1>6. ReadsAreFresh'
  BY <1>0, <1>5 DEF ReadsAreFresh, ServedIsFresh, CachedIsFresh
<1>7. \A v \in Versions, a \in BOOLEAN, n \in Versions : NoOlder(v, a, n) => NoOlder(v, a, n)'
  BY <1>0, <1>1 DEF NoOlder
<1> QED BY <1>0, <1>1, <1>4, <1>5, <1>6, <1>7, LoadersStep, ReaderTypes DEF LoadsAreFresh

\* A load fails, with every task and reader of it.
LEMMA LoadFailsStep ==
    ASSUME ReadsInv, NEW w \in Versions, LoadFails(w)
    PROVE  ReadsInv'
<1>0. /\ outerLoads \in [Versions \X BOOLEAN -> TeamTasks] /\ innerLoads \in [Versions -> AccountTasks]
      /\ reader \in [Readers -> ReaderStates] /\ told \in Versions /\ Versions \subseteq Nat
      /\ VersionsHold /\ LoadsAreFresh /\ ReadsAreFresh
      /\ NoTask \in TeamTasks /\ NoTask \in AccountTasks /\ NotReading \in ReaderStates
      /\ UNCHANGED <<truth, changing, outer, inner, told>> /\ NoTask.pc = "none"
      /\ NotReading.pc = "idle" /\ NotReading.since = 0
  BY ReaderTypes DEF LoadFails, NoTask, NotReading
<1>1. innerLoads' \in [Versions -> AccountTasks]
      /\ \A v \in Versions : innerLoads'[v] = innerLoads[v] \/ innerLoads'[v].pc = "none"
  <2>1. innerLoads' = [innerLoads EXCEPT ![w] = NoTask]
    BY DEF LoadFails
  <2> QED BY <1>0, <2>1
<1>2. /\ outerLoads' \in [Versions \X BOOLEAN -> TeamTasks]
      /\ \A v \in Versions, a \in BOOLEAN :
           outerLoads'[<<v, a>>] = outerLoads[<<v, a>>] \/ outerLoads'[<<v, a>>].pc = "none"
  BY <1>0 DEF LoadFails
<1>3. /\ reader' \in [Readers -> ReaderStates]
      /\ \A r \in Readers : reader'[r] = reader[r] \/ reader'[r] = NotReading
  BY <1>0 DEF LoadFails
<1>4. ReadsAreFresh'
  BY <1>0, <1>3 DEF ReadsAreFresh, ServedIsFresh, CachedIsFresh
<1>5. ASSUME NEW v \in Versions, NEW a \in BOOLEAN, NEW n \in Versions, NoOlder(v, a, n)
      PROVE  NoOlder(v, a, n)'
  <2>1. outerLoads[<<v, a>>].on \in Versions
    BY <1>0 DEF TeamTasks
  <2> QED BY <1>1, <1>2, <1>5, <2>1 DEF NoOlder
<1>6. \A v \in Versions : v = inner.version /\ innerLoads'[v].pc = "answered" => innerLoads'[v].value >= told
  BY <1>0, <1>1 DEF LoadsAreFresh
<1> QED BY <1>0, <1>1, <1>2, <1>3, <1>4, <1>5, <1>6, LoadersStep, ReaderTypes DEF LoadsAreFresh

LEMMA ReadsStep == ReadsInv /\ [ReadsNext]_readsVars => ReadsInv'
<1> SUFFICES ASSUME ReadsInv, [ReadsNext]_readsVars PROVE ReadsInv'
  OBVIOUS
<1>1. CASE UNCHANGED readsVars
  BY <1>1 DEF readsVars, ReadsInv, ReadsTyped, VersionsHold, LoadsAreFresh, NoOlder, ReadsAreFresh,
              ServedIsFresh, CachedIsFresh
<1>2. ASSUME NEW task \in DOMAIN outerLoads, LookInside(task) \/ TeamLoadEnds(task) PROVE ReadsInv'
  <2>1. task \in Versions \X BOOLEAN
    BY <1>2, ReaderTypes
  <2>2. PICK v \in Versions, b \in BOOLEAN : task = <<v, b>>
    BY <2>1
  <2> QED BY <1>2, <2>2, LookInsideStep, TeamLoadEndsStep
<1> QED BY <1>1, <1>2, KeysChangeStep, ChangeAnsweredStep, AnswerLostStep, TimeRunsOutStep, ReadStep,
           KeysListedStep, LoadEndsStep, LoadFailsStep, ReaderStep DEF ReadsNext

\* The invariant of the reads through both caches.
THEOREM ReadsInvariant == ReadsSpec => []ReadsInv
BY ReadsStart, ReadsStep, PTL DEF ReadsSpec

\* A leader who was told of a change never reads the list of before, for any
\* number of readers, changes and lost answers.
THEOREM ReadsFresh == ReadsSpec => []ReadsAreFresh
<1>1. ReadsInv => ReadsAreFresh
  BY DEF ReadsInv
<1> QED BY <1>1, ReadsInvariant, PTL

\* Type correctness of the reads.
THEOREM ReadsTypeCorrect == ReadsSpec => []ReadsTypeOK
<1>1. ReadsInv => ReadsTypeOK
  BY ReaderTypes DEF ReadsTypeOK, Caches, ReaderStates, Values
<1> QED BY <1>1, ReadsInvariant, PTL

-----------------------------------------------------------------------------
(* Personal and enterprise orders.                                         *)

Places == {"idle", "settle", "apply", "write", "mark", "settleFirm", "grant"} \union Provisioning
OrderRows == [status : {"none", "pending", "success", "failed"}, sync : {"none", "pending", "done"}]
FirmRows == [status : {"none", "pending", "success", "failed"}, grants : Nat]
BilledRows == [budget : Nat, key : BOOLEAN]
ClerkOrders == Trades \union FirmOrders \union {NoOrder}
WhatWasRead == [sum : Nat, of : SUBSET Trades]
ClerkStates == [at : Places, order : ClerkOrders, read : WhatWasRead,
                seen : {"none", "pending", "notified", "success", "failed"}]

OrdersTyped ==
  /\ orders \in [Trades -> OrderRows] /\ codes \in [Codes -> {"enabled", "used", "disabled"}]
  /\ total \in Nat /\ forgotten \subseteq Trades /\ billed \in [Accounts -> BilledRows]
  /\ written \in [Accounts -> SUBSET Trades] /\ firm \in [FirmOrders -> FirmRows]
  /\ clerks \in [Clerks -> ClerkStates] /\ IsFiniteSet(Paid)
  /\ \A k \in Codes : orders[k].status \in {"none", "success"}

\* An order that was decided stays as it was decided.
Decided(o) == orders[o].status \in {"success", "failed"}
ToolMoney == Cardinality(Paid \intersect Orders)

\* What a request knows at each of its steps: the order it works on was decided
\* before anything is written for it, what it read counts that order and no more
\* than was paid, and it reports nothing that its account was not told of.
ClerkHolds(c) ==
  LET o == clerks[c].order  read == clerks[c].read IN
  /\ ClerkAt(c, {"settle"}) => o \in Orders /\ orders[o].status # "none"
  /\ ClerkAt(c, {"apply", "mark"}) => o \in Trades
  /\ ClerkAt(c, {"write"}) => o \in Codes \union {NoOrder} /\ read.sum <= total
  /\ ClerkAt(c, Provisioning) => o \in Trades \union {NoOrder}
  /\ ClerkAt(c, {"allocate", "toolWrite", "toolAgain"}) => o \in Orders
  /\ ClerkAt(c, {"apply", "mark", "write"} \union Provisioning) /\ o \in Trades => Decided(o)
  /\ ClerkAt(c, {"write", "toolWrite"}) /\ o \in Paid => o \in read.of
  /\ ClerkAt(c, {"mark"}) /\ o \in Codes /\ o \in Paid => o \in written["main"]
  /\ ClerkAt(c, {"keys", "create", "toolWrite", "toolAgain"}) /\ o \in Orders => read.sum <= ToolMoney
  /\ ClerkAt(c, {"keys", "create", "toolAgain"}) /\ o \in Orders /\ o \in Paid => o \in written["tool"]
  /\ ClerkAt(c, {"settleFirm", "grant"}) => o \in FirmOrders /\ firm[o].status # "none"
  /\ ClerkAt(c, {"grant"}) \/ (ClerkAt(c, {"settleFirm"}) /\ clerks[c].seen = "success")
       => firm[o].status = "success"

OrdersInv == OrdersTyped /\ OrdersAreSound /\ \A c \in Clerks : ClerkHolds(c)

LEMMA OrdersStart == OrdersInit => OrdersInv
<1> SUFFICES ASSUME OrdersInit PROVE OrdersInv
  OBVIOUS
<1>1. Idle \in ClerkStates /\ [status |-> "none", sync |-> "none"] \in OrderRows
      /\ [status |-> "none", grants |-> 0] \in FirmRows /\ [budget |-> 0, key |-> FALSE] \in BilledRows
  BY DEF Idle, Nothing, ClerkStates, ClerkOrders, Places, WhatWasRead, OrderRows, FirmRows, BilledRows
<1>2. Paid = {} /\ Paid \intersect Orders = {}
  BY DEF OrdersInit, Paid
<1>3. IsFiniteSet(Paid) /\ Cardinality(Paid) = 0 /\ Cardinality(Paid \intersect Orders) = 0
  BY <1>2, FS_EmptySet
<1>4. OrdersTyped
  <2>1. \A k \in Codes : orders[k].status = "none"
    BY DEF OrdersInit, Trades
  <2> QED BY <1>1, <1>3, <2>1 DEF OrdersInit, OrdersTyped
<1>5. CreditedOnce
  BY <1>2, <1>3 DEF OrdersInit, CreditedOnce
<1>6. EachBudgetIsPaidFor
  BY <1>3 DEF OrdersInit, EachBudgetIsPaidFor, Accounts
<1>7. DoneIsWritten /\ GrantedOnce
  BY <1>2 DEF OrdersInit, DoneIsWritten, GrantedOnce
<1>8. \A c \in Clerks : ClerkHolds(c)
  BY DEF OrdersInit, ClerkHolds, ClerkAt, Idle, Provisioning
<1> QED BY <1>4, <1>5, <1>6, <1>7, <1>8 DEF OrdersInv, OrdersAreSound

\* Nothing that was decided or written is undone.
OrdersGoOn ==
  /\ \A o \in Trades : orders[o].status # "none" => orders'[o].status # "none"
  /\ \A o \in Trades : Decided(o) => orders'[o].status = orders[o].status
  /\ total <= total' /\ ToolMoney <= ToolMoney'
  /\ \A a \in Accounts : written[a] \subseteq written'[a]
  /\ forgotten \subseteq forgotten'
  /\ \A e \in FirmOrders : /\ firm[e].status # "none" => firm'[e].status # "none"
                           /\ firm[e].status = "success" => firm'[e].status = "success"

\* A request that does not move is as right as before.
LEMMA ClerkStays ==
    ASSUME OrdersInv, OrdersTyped', OrdersGoOn, NEW c \in Clerks, clerks'[c] = clerks[c]
    PROVE  ClerkHolds(c)'
<1>1. ClerkHolds(c) /\ clerks[c] \in ClerkStates
  BY DEF OrdersInv, OrdersTyped
<1>2. PICK o \in ClerkOrders : o = clerks[c].order
  BY <1>1 DEF ClerkStates
<1>3. o \in Trades /\ Decided(o) => Decided(o)' /\ (o \in Paid <=> o \in Paid')
  BY DEF OrdersGoOn, Decided, Paid
<1>4. o \notin Trades => o \notin Paid /\ o \notin Paid'
  BY DEF Paid
<1>5. /\ clerks[c].read.sum \in Nat /\ total \in Nat /\ total' \in Nat /\ total <= total'
      /\ ToolMoney \in Nat /\ ToolMoney' \in Nat /\ ToolMoney <= ToolMoney'
  <2>1. IsFiniteSet(Paid) /\ IsFiniteSet(Paid')
    BY DEF OrdersInv, OrdersTyped
  <2>2. IsFiniteSet(Paid \intersect Orders) /\ IsFiniteSet(Paid' \intersect Orders)
    BY <2>1, FS_Subset
  <2> QED BY <1>1, <2>2, FS_CardinalityType DEF OrdersInv, OrdersTyped, OrdersGoOn, ToolMoney, ClerkStates,
             WhatWasRead
<1>6. o \in FirmOrders => /\ firm[o].status # "none" => firm'[o].status # "none"
                          /\ firm[o].status = "success" => firm'[o].status = "success"
  BY DEF OrdersGoOn
<1>7. written["main"] \subseteq written'["main"] /\ written["tool"] \subseteq written'["tool"]
  BY DEF OrdersGoOn, Accounts
<1>8. o \in Orders \/ o \in Codes => o \in Trades
  BY DEF Trades
<1>9. o \in Trades /\ orders[o].status # "none" => orders'[o].status # "none"
  BY DEF OrdersGoOn
<1> QED BY <1>1, <1>2, <1>3, <1>4, <1>5, <1>6, <1>7, <1>8, <1>9 DEF ClerkHolds, ClerkAt, Provisioning

\* Whatever was reported as done is covered still, where the requests that move
\* leave no order behind.
LEMMA OrdersMove ==
    ASSUME OrdersInv, OrdersTyped', OrdersGoOn, NEW S \in SUBSET Clerks,
           \A c \in Clerks : c \notin S => clerks'[c] = clerks[c],
           \A c \in S : ClerkHolds(c)',
           CreditedOnce', EachBudgetIsPaidFor', GrantedOnce',
           \A o \in Trades : orders'[o].status = "success" /\ orders'[o].sync = "done" =>
             \/ o \in written'[AccountOf(o)]
             \/ o \in Orders /\ o \in forgotten'
             \/ o \in Orders /\ \E c \in S : clerks'[c].at \in Provisioning /\ clerks'[c].order = o
             \/ /\ orders[o].status = "success" /\ orders[o].sync = "done"
                /\ \A c \in S : ~(o \in Orders /\ clerks[c].at \in Provisioning /\ clerks[c].order = o)
    PROVE  OrdersInv'
<1>1. ASSUME NEW c \in Clerks PROVE ClerkHolds(c)'
  <2>1. CASE c \in S
    BY <2>1
  <2>2. CASE c \notin S
    BY <2>2, ClerkStays
  <2> QED BY <2>1, <2>2
<1>2. ASSUME NEW o \in Trades, orders'[o].status = "success", orders'[o].sync = "done"
      PROVE  \/ o \in written'[AccountOf(o)]
             \/ /\ o \in Orders
                /\ o \in forgotten' \/ \E c \in Clerks : clerks'[c].at \in Provisioning /\ clerks'[c].order = o
  <2>1. CASE /\ orders[o].status = "success" /\ orders[o].sync = "done"
             /\ \A c \in S : ~(o \in Orders /\ clerks[c].at \in Provisioning /\ clerks[c].order = o)
    <3>1. \/ o \in written[AccountOf(o)]
          \/ /\ o \in Orders
             /\ o \in forgotten \/ \E c \in Clerks : clerks[c].at \in Provisioning /\ clerks[c].order = o
      BY <2>1 DEF OrdersInv, OrdersAreSound, DoneIsWritten, Paid, ClerkAt
    <3>2. AccountOf(o) \in Accounts
      BY DEF AccountOf, Accounts
    <3>3. written[AccountOf(o)] \subseteq written'[AccountOf(o)] /\ forgotten \subseteq forgotten'
      BY <3>2 DEF OrdersGoOn
    <3>4. \A c \in Clerks : clerks[c].at \in Provisioning /\ clerks[c].order = o /\ o \in Orders
                              => clerks'[c] = clerks[c]
      BY <2>1
    <3> QED BY <3>1, <3>3, <3>4
  <2> QED BY <1>2, <2>1
<1>3. DoneIsWritten'
  BY <1>2 DEF DoneIsWritten, Paid, ClerkAt, AccountOf
<1> QED BY <1>1, <1>3 DEF OrdersInv, OrdersAreSound

LEMMA NoCredit ==
    ASSUME OrdersInv, \A o \in Trades : (orders'[o].status = "success") <=> (orders[o].status = "success")
    PROVE  Paid' = Paid /\ ToolMoney' = ToolMoney /\ IsFiniteSet(Paid') /\ ToolMoney \in Nat
<1>1. Paid' = Paid
  BY DEF Paid
<1>2. IsFiniteSet(Paid \intersect Orders) /\ IsFiniteSet(Paid)
  BY FS_Subset DEF OrdersInv, OrdersTyped
<1> QED BY <1>1, <1>2, FS_CardinalityType DEF ToolMoney

LEMMA OrderFacts ==
    ASSUME OrdersInv
    PROVE  /\ OrdersTyped /\ CreditedOnce /\ EachBudgetIsPaidFor /\ DoneIsWritten /\ GrantedOnce
           /\ (\A c \in Clerks : ClerkHolds(c) /\ clerks[c] \in ClerkStates)
           /\ ToolMoney \in Nat /\ Idle \in ClerkStates /\ Nothing \in WhatWasRead
           /\ Trades = Orders \union Codes /\ NoOrder \in ClerkOrders /\ NoOrder \notin Trades
           /\ NoOrder \notin FirmOrders /\ Orders \intersect Codes = {}
           /\ (\A o \in Trades : o \notin FirmOrders /\ o \in ClerkOrders)
           /\ (\A o \in FirmOrders : o \in ClerkOrders)
<1>1. ToolMoney \in Nat
  BY NoCredit, FS_Subset, FS_CardinalityType DEF OrdersInv, OrdersTyped, ToolMoney
<1>2. Idle \in ClerkStates /\ Nothing \in WhatWasRead
  BY DEF Idle, Nothing, ClerkStates, ClerkOrders, Places, WhatWasRead
<1> QED BY <1>1, <1>2, OrdersAssumption DEF OrdersInv, OrdersTyped, OrdersAreSound, Trades, ClerkOrders

\* A request that takes another state.
LEMMA ClerkTakes ==
    ASSUME OrdersInv, NEW c \in Clerks, NEW q \in ClerkStates, clerks' = [clerks EXCEPT ![c] = q]
    PROVE  /\ clerks' \in [Clerks -> ClerkStates] /\ clerks'[c] = q
           /\ \A d \in Clerks : d # c => clerks'[d] = clerks[d]
  BY DEF OrdersInv, OrdersTyped

LEMMA ClerkEdits ==
  \A q \in ClerkStates, p \in Places, r \in WhatWasRead :
    /\ [q EXCEPT !.at = p] \in ClerkStates /\ [q EXCEPT !.at = p].at = p
    /\ [q EXCEPT !.at = p].order = q.order /\ [q EXCEPT !.at = p].read = q.read
    /\ [q EXCEPT !.at = p].seen = q.seen
    /\ [q EXCEPT !.at = p, !.read = r] \in ClerkStates /\ [q EXCEPT !.at = p, !.read = r].at = p
    /\ [q EXCEPT !.at = p, !.read = r].order = q.order /\ [q EXCEPT !.at = p, !.read = r].read = r
    /\ [q EXCEPT !.at = p, !.seen = "none"] \in ClerkStates /\ [q EXCEPT !.at = p, !.seen = "none"].at = p
    /\ [q EXCEPT !.at = p, !.seen = "none"].order = q.order
  BY ZenonT(60) DEF ClerkStates

LEMMA ClerkGoing ==
    ASSUME OrdersInv, NEW c \in Clerks, NEW p \in Places, ClerkGoes(c, p)
    PROVE  \E q \in ClerkStates :
             /\ clerks' = [clerks EXCEPT ![c] = q] /\ q.at = p /\ q.order = clerks[c].order
             /\ q.read = clerks[c].read /\ q.seen = clerks[c].seen
<1>1. PICK x \in ClerkStates : x = clerks[c]
  BY OrderFacts
<1>2. PICK q : q = [x EXCEPT !.at = p]
  OBVIOUS
<1>3. /\ q \in ClerkStates /\ q.at = p /\ q.order = x.order /\ q.read = x.read /\ q.seen = x.seen
  BY <1>2 DEF ClerkStates
<1>4. clerks' = [clerks EXCEPT ![c] = q]
  BY <1>1, <1>2 DEF ClerkGoes
<1> QED BY <1>1, <1>3, <1>4

LEMMA ClerkStarting ==
    ASSUME OrdersInv, NEW c \in Clerks, NEW p \in Places, NEW o \in ClerkOrders,
           NEW seen \in {"none", "pending", "notified", "success", "failed"}, ClerkStarts(c, p, o, seen)
    PROVE  \E q \in ClerkStates :
             /\ clerks' = [clerks EXCEPT ![c] = q] /\ q.at = p /\ q.order = o /\ q.seen = seen
             /\ clerks[c].at = "idle"
<1>1. PICK q : q = [Idle EXCEPT !.at = p, !.order = o, !.seen = seen]
  OBVIOUS
<1>2. q \in ClerkStates /\ q.at = p /\ q.order = o /\ q.seen = seen
  BY <1>1 DEF ClerkStates, Idle, Nothing, WhatWasRead
<1> QED BY <1>1, <1>2 DEF ClerkStarts, ClerkAt

LEMMA ClerkApplying ==
    ASSUME OrdersInv, NEW c \in Clerks, ClerkApplies(c)
    PROVE  \E q \in ClerkStates : /\ clerks' = [clerks EXCEPT ![c] = q] /\ q.at = "apply"
                                  /\ q.order = clerks[c].order
<1>1. PICK x \in ClerkStates : x = clerks[c]
  BY OrderFacts
<1>2. PICK q : q = [x EXCEPT !.at = "apply", !.seen = "none"]
  OBVIOUS
<1>3. q \in ClerkStates /\ q.at = "apply" /\ q.order = x.order
  BY <1>2 DEF ClerkStates, Places
<1>4. clerks' = [clerks EXCEPT ![c] = q]
  BY <1>1, <1>2 DEF ClerkApplies
<1> QED BY <1>1, <1>3, <1>4

\* A step of one request alone.
LEMMA ClerkOnly ==
    ASSUME OrdersInv, NEW c \in Clerks, NEW q \in ClerkStates, clerks' = [clerks EXCEPT ![c] = q],
           UNCHANGED <<orders, codes, total, billed, written, forgotten, firm>>, ClerkHolds(c)',
           clerks[c].at \in Provisioning /\ clerks[c].order \in Orders =>
             \/ q.at \in Provisioning /\ q.order = clerks[c].order
             \/ clerks[c].order \in Paid => clerks[c].order \in written["tool"]
    PROVE  OrdersInv'
<1>1. /\ clerks' \in [Clerks -> ClerkStates] /\ clerks'[c] = q
      /\ \A d \in Clerks : d # c => clerks'[d] = clerks[d]
  BY ClerkTakes
<1>2. Paid' = Paid /\ ToolMoney' = ToolMoney /\ IsFiniteSet(Paid') /\ ToolMoney \in Nat
  BY NoCredit
<1>3. OrdersTyped' /\ OrdersGoOn
  BY <1>1, <1>2, OrderFacts DEF OrdersTyped, OrdersGoOn
<1>4. (CreditedOnce /\ EachBudgetIsPaidFor /\ GrantedOnce)'
  BY <1>2, OrderFacts DEF CreditedOnce, EachBudgetIsPaidFor, GrantedOnce
<1>5. PICK S \in SUBSET Clerks : S = {c}
  OBVIOUS
<1>6. ASSUME NEW o \in Trades, orders'[o].status = "success", orders'[o].sync = "done"
      PROVE  \/ o \in written'[AccountOf(o)]
             \/ o \in Orders /\ o \in forgotten'
             \/ o \in Orders /\ \E d \in S : clerks'[d].at \in Provisioning /\ clerks'[d].order = o
             \/ /\ orders[o].status = "success" /\ orders[o].sync = "done"
                /\ \A d \in S : ~(o \in Orders /\ clerks[d].at \in Provisioning /\ clerks[d].order = o)
  <2>1. CASE o \in Orders /\ clerks[c].at \in Provisioning /\ clerks[c].order = o
    BY <1>1, <1>5, <1>6, <2>1 DEF Paid, AccountOf
  <2>2. CASE ~(o \in Orders /\ clerks[c].at \in Provisioning /\ clerks[c].order = o)
    BY <1>5, <1>6, <2>2
  <2> QED BY <2>1, <2>2
<1> QED BY <1>1, <1>3, <1>4, <1>5, <1>6, OrdersMove


\* Requests that begin: a confirmation, a notification, the retry, a visit, the
\* completion of an enterprise order.
LEMMA BeginStep ==
    ASSUME OrdersInv, NEW c \in Clerks,
           \/ \E o \in Orders : ConfirmOrder(c, o) \/ NotifyPaid(c, o)
           \/ \E o \in Trades : RetryPendingSync(c, o)
           \/ \E e \in FirmOrders : CompleteFirmOrder(c, e)
    PROVE  OrdersInv'
<1>1. UNCHANGED <<orders, codes, total, billed, written, forgotten, firm>>
  BY DEF ConfirmOrder, NotifyPaid, RetryPendingSync, CompleteFirmOrder, proxyAndHistory
<1>2. CASE \E o \in Orders : ConfirmOrder(c, o) \/ NotifyPaid(c, o)
  <2>1. PICK o \in Orders, seen \in {"pending", "notified"} :
          ClerkStarts(c, "settle", o, seen) /\ orders[o].status # "none"
    BY <1>2 DEF ConfirmOrder, NotifyPaid
  <2>2. PICK q \in ClerkStates : /\ clerks' = [clerks EXCEPT ![c] = q] /\ q.at = "settle" /\ q.order = o
                                 /\ clerks[c].at = "idle"
    BY <2>1, ClerkStarting, OrderFacts DEF Places
  <2>3. clerks'[c] = q
    BY <2>2, ClerkTakes
  <2>4. ClerkHolds(c)'
    BY <1>1, <2>1, <2>2, <2>3 DEF ClerkHolds, ClerkAt, Provisioning
  <2> QED BY <1>1, <2>2, <2>4, ClerkOnly DEF Provisioning
<1>3. CASE \E o \in Trades : RetryPendingSync(c, o)
  <2>1. PICK o \in Trades : ClerkStarts(c, "apply", o, "none") /\ orders[o].status = "success"
    BY <1>3 DEF RetryPendingSync
  <2>0. o \in ClerkOrders /\ "apply" \in Places
    BY OrderFacts DEF Places
  <2>2. PICK q \in ClerkStates : /\ clerks' = [clerks EXCEPT ![c] = q] /\ q.at = "apply" /\ q.order = o
                                 /\ clerks[c].at = "idle"
    BY <2>0, <2>1, ClerkStarting
  <2>3. clerks'[c] = q
    BY <2>2, ClerkTakes
  <2>4. ClerkHolds(c)'
    BY <1>1, <2>1, <2>2, <2>3 DEF ClerkHolds, ClerkAt, Provisioning, Decided
  <2> QED BY <1>1, <2>2, <2>4, ClerkOnly DEF Provisioning
<1>4. CASE \E e \in FirmOrders : CompleteFirmOrder(c, e)
  <2>1. PICK e \in FirmOrders : ClerkStarts(c, "settleFirm", e, firm[e].status) /\ firm[e].status # "none"
    BY <1>4 DEF CompleteFirmOrder
  <2>2. PICK seen \in {"none", "pending", "notified", "success", "failed"} : seen = firm[e].status
    BY OrderFacts DEF OrdersTyped, FirmRows
  <2>3. PICK q \in ClerkStates : /\ clerks' = [clerks EXCEPT ![c] = q] /\ q.at = "settleFirm" /\ q.order = e
                                 /\ q.seen = seen /\ clerks[c].at = "idle"
    BY <2>1, <2>2, ClerkStarting, OrderFacts DEF Places
  <2>4. clerks'[c] = q
    BY <2>3, ClerkTakes
  <2>5. ClerkHolds(c)'
    BY <1>1, <2>1, <2>2, <2>3, <2>4 DEF ClerkHolds, ClerkAt, Provisioning
  <2> QED BY <1>1, <2>3, <2>5, ClerkOnly DEF Provisioning
<1> QED BY <1>2, <1>3, <1>4

\* What is paid is counted before it is written.
LEMMA VisitBillingStep ==
    ASSUME OrdersInv, NEW c \in Clerks, VisitBilling(c)
    PROVE  OrdersInv'
<1>1. PICK r : r = [sum |-> total, of |-> Paid]
  OBVIOUS
<1>2. r \in WhatWasRead /\ r.sum = total
  BY <1>1, OrderFacts DEF WhatWasRead, OrdersTyped, Paid
<1>3. PICK q : q = [Idle EXCEPT !.at = "write", !.read = r]
  OBVIOUS
<1>4. q \in ClerkStates /\ q.at = "write" /\ q.order = NoOrder /\ q.read = r
  BY <1>2, <1>3, OrderFacts DEF ClerkStates, Idle, Places
<1>5. clerks' = [clerks EXCEPT ![c] = q] /\ clerks[c].at = "idle"
      /\ UNCHANGED <<orders, codes, total, billed, written, forgotten, firm>>
  BY <1>1, <1>3 DEF VisitBilling, ClerkAt, proxyAndHistory
<1>6. clerks'[c] = q
  BY <1>4, <1>5, ClerkTakes
<1>7. ClerkHolds(c)'
  BY <1>2, <1>4, <1>5, <1>6, OrderFacts DEF ClerkHolds, ClerkAt, Provisioning, Paid, OrdersTyped
<1> QED BY <1>4, <1>5, <1>7, ClerkOnly DEF Provisioning

LEMMA ReadEntitlementStep ==
    ASSUME OrdersInv, NEW c \in Clerks, ReadEntitlement(c)
    PROVE  OrdersInv'
<1>1. PICK x \in ClerkStates : x = clerks[c] /\ x.at = "apply" /\ x.order \in Trades /\ Decided(x.order)
  BY OrderFacts DEF ReadEntitlement, ClerkHolds, ClerkAt
<1>2. UNCHANGED <<orders, codes, total, billed, written, forgotten, firm>>
  BY DEF ReadEntitlement, proxyAndHistory
<1>3. CASE x.order \in Orders
  <2>1. ClerkGoes(c, "mark")
    BY <1>1, <1>3 DEF ReadEntitlement
  <2>2. PICK q \in ClerkStates : clerks' = [clerks EXCEPT ![c] = q] /\ q.at = "mark" /\ q.order = x.order
    BY <1>1, <2>1, ClerkGoing DEF Places
  <2>3. clerks'[c] = q
    BY <2>2, ClerkTakes
  <2>4. ClerkHolds(c)'
    BY <1>1, <1>2, <1>3, <2>2, <2>3, OrderFacts DEF ClerkHolds, ClerkAt, Provisioning, Decided
  <2> QED BY <1>1, <1>2, <2>2, <2>4, ClerkOnly DEF Provisioning
<1>4. CASE x.order \notin Orders
  <2>1. PICK r : r = [sum |-> total, of |-> Paid]
    OBVIOUS
  <2>2. r \in WhatWasRead /\ r.sum = total /\ r.of = Paid
    BY <2>1, OrderFacts DEF WhatWasRead, OrdersTyped, Paid
  <2>3. PICK q : q = [x EXCEPT !.at = "write", !.read = r]
    OBVIOUS
  <2>4. q \in ClerkStates /\ q.at = "write" /\ q.order = x.order /\ q.read = r
    BY <1>1, <2>2, <2>3 DEF ClerkStates, Places
  <2>5. clerks' = [clerks EXCEPT ![c] = q]
    BY <1>1, <1>4, <2>1, <2>3 DEF ReadEntitlement
  <2>6. clerks'[c] = q
    BY <2>4, <2>5, ClerkTakes
  <2>7. x.order \in Codes /\ total \in Nat /\ Paid' = Paid
    BY <1>1, <1>2, <1>4, OrderFacts DEF OrdersTyped, Paid
  <2>8. ClerkHolds(c)'
    BY <1>1, <1>2, <2>2, <2>4, <2>6, <2>7 DEF ClerkHolds, ClerkAt, Provisioning, Decided
  <2> QED BY <1>1, <1>2, <2>4, <2>5, <2>8, ClerkOnly DEF Provisioning
<1> QED BY <1>3, <1>4

LEMMA ReadAllocationsStep ==
    ASSUME OrdersInv, NEW c \in Clerks, ReadAllocations(c)
    PROVE  OrdersInv'
<1>1. PICK x \in ClerkStates : x = clerks[c] /\ x.at = "allocate" /\ x.order \in Orders /\ Decided(x.order)
  BY OrderFacts DEF ReadAllocations, ClerkHolds, ClerkAt, Provisioning
<1>2. UNCHANGED <<orders, codes, total, billed, written, forgotten, firm>>
  BY DEF ReadAllocations, proxyAndHistory
<1>3. PICK r : r = [sum |-> ToolMoney, of |-> Paid \intersect Orders]
  OBVIOUS
<1>4. r \in WhatWasRead /\ r.sum = ToolMoney /\ r.of = Paid \intersect Orders
  BY <1>3, OrderFacts DEF WhatWasRead, Paid
<1>5. PICK q : q = [x EXCEPT !.at = "toolWrite", !.read = r]
  OBVIOUS
<1>6. q \in ClerkStates /\ q.at = "toolWrite" /\ q.order = x.order /\ q.read = r
  BY <1>1, <1>4, <1>5 DEF ClerkStates, Places, Provisioning
<1>7. clerks' = [clerks EXCEPT ![c] = q]
  BY <1>1, <1>3, <1>5 DEF ReadAllocations, ToolMoney
<1>8. clerks'[c] = q
  BY <1>6, <1>7, ClerkTakes
<1>9. Paid' = Paid /\ ToolMoney' = ToolMoney /\ ToolMoney \in Nat
  BY <1>2, NoCredit
<1>10. x.order \in Trades /\ x.order \notin FirmOrders
  BY <1>1, OrderFacts
<1>11. ClerkHolds(c)'
  BY <1>1, <1>2, <1>4, <1>6, <1>8, <1>9, <1>10 DEF ClerkHolds, ClerkAt, Provisioning, Decided
<1> QED BY <1>1, <1>2, <1>6, <1>7, <1>11, ClerkOnly DEF Provisioning

LEMMA ListKeysStep ==
    ASSUME OrdersInv, NEW c \in Clerks, ListKeys(c)
    PROVE  OrdersInv'
<1>1. PICK x \in ClerkStates : x = clerks[c] /\ x.at = "keys" /\ ClerkHolds(c)
  BY OrderFacts DEF ListKeys, ClerkAt
<1>2. UNCHANGED <<orders, codes, total, billed, written, forgotten, firm>>
  BY DEF ListKeys, proxyAndHistory
<1>3. Paid' = Paid /\ ToolMoney' = ToolMoney /\ ToolMoney \in Nat
  BY <1>2, NoCredit
<1>4. CASE \E p \in {"create", "toolAgain"} : ClerkGoes(c, p) /\ (p = "toolAgain" => x.order \in Orders)
  <2>1. PICK p \in {"create", "toolAgain"} : ClerkGoes(c, p) /\ (p = "toolAgain" => x.order \in Orders)
    BY <1>4
  <2>2. PICK q \in ClerkStates : clerks' = [clerks EXCEPT ![c] = q] /\ q.at = p /\ q.order = x.order /\ q.read = x.read
    BY <1>1, <2>1, ClerkGoing DEF Places, Provisioning
  <2>3. clerks'[c] = q
    BY <2>2, ClerkTakes
  <2>4. ClerkHolds(c)'
    BY <1>1, <1>2, <1>3, <2>1, <2>2, <2>3 DEF ClerkHolds, ClerkAt, Provisioning, Decided
  <2> QED BY <1>1, <1>2, <2>2, <2>4, ClerkOnly DEF Provisioning
<1>5. CASE ClerkRests(c) /\ x.order \notin Orders
  <2>1. clerks' = [clerks EXCEPT ![c] = Idle] /\ clerks'[c] = Idle
    BY <1>5, OrderFacts, ClerkTakes DEF ClerkRests
  <2>2. ClerkHolds(c)'
    BY <2>1 DEF ClerkHolds, ClerkAt, Provisioning, Idle
  <2> QED BY <1>1, <1>2, <1>5, <2>1, <2>2, OrderFacts, ClerkOnly
<1> QED BY <1>1, <1>4, <1>5 DEF ListKeys


\* Steps of the enterprise orders.
LEMMA FirmMoves ==
    ASSUME OrdersInv, UNCHANGED <<orders, codes, total, billed, written, forgotten>>,
           firm' \in [FirmOrders -> FirmRows], GrantedOnce',
           \A e \in FirmOrders : /\ firm[e].status # "none" => firm'[e].status # "none"
                                 /\ firm[e].status = "success" => firm'[e].status = "success",
           clerks' \in [Clerks -> ClerkStates], NEW S \in SUBSET Clerks,
           \A c \in Clerks : c \notin S => clerks'[c] = clerks[c],
           \A c \in S : ClerkHolds(c)' /\ clerks[c].at \notin Provisioning
    PROVE  OrdersInv'
<1>1. Paid' = Paid /\ ToolMoney' = ToolMoney /\ IsFiniteSet(Paid') /\ ToolMoney \in Nat
  BY NoCredit
<1>2. OrdersTyped' /\ OrdersGoOn
  BY <1>1, OrderFacts DEF OrdersTyped, OrdersGoOn
<1>3. (CreditedOnce /\ EachBudgetIsPaidFor)'
  BY <1>1, OrderFacts DEF CreditedOnce, EachBudgetIsPaidFor
<1> QED BY <1>2, <1>3, OrdersMove

LEMMA FirmOrderStep ==
    ASSUME OrdersInv, NEW e \in FirmOrders, CreateFirmOrder(e) \/ FailFirmOrder(e)
    PROVE  OrdersInv'
<1>1. UNCHANGED <<orders, codes, total, billed, written, forgotten, clerks>>
  BY DEF CreateFirmOrder, FailFirmOrder, proxyAndHistory
<1>2. PICK f \in FirmRows : f = firm[e]
  BY OrderFacts DEF OrdersTyped
<1>3. PICK s \in {"pending", "failed"} : firm' = [firm EXCEPT ![e].status = s] /\ f.status \in {"none", "pending"}
  BY <1>2 DEF CreateFirmOrder, FailFirmOrder
<1>4. PICK g : g = [f EXCEPT !.status = s]
  OBVIOUS
<1>5. g \in FirmRows /\ g.status = s /\ g.grants = f.grants
  BY <1>4 DEF FirmRows
<1>6. firm' = [firm EXCEPT ![e] = g]
  BY <1>2, <1>3, <1>4
<1>7. firm' \in [FirmOrders -> FirmRows] /\ firm'[e] = g /\ \A d \in FirmOrders : d # e => firm'[d] = firm[d]
  BY <1>5, <1>6, OrderFacts DEF OrdersTyped
<1>8. GrantedOnce'
  BY <1>2, <1>3, <1>5, <1>7, OrderFacts DEF GrantedOnce
<1>9. clerks' \in [Clerks -> ClerkStates]
  BY <1>1, OrderFacts DEF OrdersTyped
<1>10. PICK S \in SUBSET Clerks : S = {}
  OBVIOUS
<1>11. \A d \in FirmOrders : /\ firm[d].status # "none" => firm'[d].status # "none"
                             /\ firm[d].status = "success" => firm'[d].status = "success"
  BY <1>2, <1>3, <1>5, <1>7
<1> QED BY <1>1, <1>7, <1>8, <1>9, <1>10, <1>11, FirmMoves

LEMMA SettleFirmOrderStep ==
    ASSUME OrdersInv, NEW c \in Clerks, SettleFirmOrder(c)
    PROVE  OrdersInv'
<1>1. UNCHANGED <<orders, codes, total, billed, written, forgotten>>
  BY DEF SettleFirmOrder, proxyAndHistory
<1>2. PICK x \in ClerkStates : x = clerks[c] /\ x.at = "settleFirm"
  BY OrderFacts DEF SettleFirmOrder, ClerkAt
<1>3. PICK e \in FirmOrders : /\ e = x.order /\ firm[e].status # "none"
                              /\ x.seen = "success" => firm[e].status = "success"
  BY <1>2, OrderFacts DEF ClerkHolds, ClerkAt
<1>4. PICK f \in FirmRows : f = firm[e]
  BY OrderFacts DEF OrdersTyped
<1>5. PICK g : g = [f EXCEPT !.status = "success"]
  OBVIOUS
<1>6. g \in FirmRows /\ g.status = "success" /\ g.grants = f.grants
  BY <1>5 DEF FirmRows
<1>7. /\ firm' = IF f.status = "pending" THEN [firm EXCEPT ![e] = g] ELSE firm
      /\ IF f.status = "pending" \/ x.seen = "success" THEN ClerkGoes(c, "grant") ELSE ClerkRests(c)
  BY <1>2, <1>3, <1>4, <1>5 DEF SettleFirmOrder
<1>8. /\ firm' \in [FirmOrders -> FirmRows] /\ (f.status = "pending" => firm'[e] = g)
      /\ \A d \in FirmOrders : d # e \/ f.status # "pending" => firm'[d] = firm[d]
  BY <1>6, <1>7, OrderFacts DEF OrdersTyped
<1>9. GrantedOnce'
  BY <1>4, <1>6, <1>8, OrderFacts DEF GrantedOnce
<1>10. \A d \in FirmOrders : /\ firm[d].status # "none" => firm'[d].status # "none"
                             /\ firm[d].status = "success" => firm'[d].status = "success"
  BY <1>6, <1>8
<1>11. PICK S \in SUBSET Clerks : S = {c}
  OBVIOUS
<1>12. CASE f.status = "pending" \/ x.seen = "success"
  <2>1. PICK q \in ClerkStates : clerks' = [clerks EXCEPT ![c] = q] /\ q.at = "grant" /\ q.order = e
    BY <1>2, <1>3, <1>7, <1>12, ClerkGoing DEF Places
  <2>2. /\ clerks' \in [Clerks -> ClerkStates] /\ clerks'[c] = q
        /\ \A d \in Clerks : d # c => clerks'[d] = clerks[d]
    BY <2>1, ClerkTakes
  <2>3. firm'[e].status = "success"
    BY <1>3, <1>4, <1>6, <1>8, <1>12
  <2>4. ClerkHolds(c)'
    BY <2>1, <2>2, <2>3, OrderFacts DEF ClerkHolds, ClerkAt, Provisioning
  <2> QED BY <1>1, <1>2, <1>8, <1>9, <1>10, <1>11, <2>2, <2>4, FirmMoves DEF Provisioning
<1>13. CASE ~(f.status = "pending" \/ x.seen = "success")
  <2>1. clerks' = [clerks EXCEPT ![c] = Idle]
    BY <1>7, <1>13 DEF ClerkRests
  <2>2. /\ clerks' \in [Clerks -> ClerkStates] /\ clerks'[c] = Idle
        /\ \A d \in Clerks : d # c => clerks'[d] = clerks[d]
    BY <2>1, OrderFacts, ClerkTakes
  <2>3. ClerkHolds(c)'
    BY <2>2 DEF ClerkHolds, ClerkAt, Provisioning, Idle
  <2> QED BY <1>1, <1>2, <1>8, <1>9, <1>10, <1>11, <2>2, <2>3, FirmMoves DEF Provisioning
<1> QED BY <1>12, <1>13

LEMMA RestsHold == ASSUME OrdersInv, NEW c \in Clerks, ClerkRests(c)
                   PROVE  /\ clerks' \in [Clerks -> ClerkStates] /\ clerks'[c] = Idle /\ ClerkHolds(c)'
                          /\ \A d \in Clerks : d # c => clerks'[d] = clerks[d]
<1>1. /\ clerks' \in [Clerks -> ClerkStates] /\ clerks'[c] = Idle
      /\ \A d \in Clerks : d # c => clerks'[d] = clerks[d]
  BY OrderFacts, ClerkTakes DEF ClerkRests
<1>2. ClerkHolds(c)'
  BY <1>1 DEF ClerkHolds, ClerkAt, Provisioning, Idle
<1> QED BY <1>1, <1>2

LEMMA GrantFirmOrderStep ==
    ASSUME OrdersInv, NEW c \in Clerks, GrantFirmOrder(c)
    PROVE  OrdersInv'
<1>1. UNCHANGED <<orders, codes, total, billed, written, forgotten>> /\ ClerkRests(c)
  BY DEF GrantFirmOrder, proxyAndHistory
<1>2. PICK e \in FirmOrders : /\ e = clerks[c].order /\ firm[e].status = "success" /\ clerks[c].at = "grant"
  BY OrderFacts DEF ClerkHolds, ClerkAt, GrantFirmOrder
<1>3. PICK f \in FirmRows : f = firm[e]
  BY OrderFacts DEF OrdersTyped
<1>4. PICK g : g = [f EXCEPT !.grants = 1]
  OBVIOUS
<1>5. g \in FirmRows /\ g.status = "success" /\ g.grants = 1
  BY <1>2, <1>3, <1>4 DEF FirmRows
<1>6. firm' = IF f.grants = 0 THEN [firm EXCEPT ![e] = g] ELSE firm
  BY <1>2, <1>3, <1>4 DEF GrantFirmOrder
<1>7. /\ firm' \in [FirmOrders -> FirmRows]
      /\ \A d \in FirmOrders : firm'[d] = firm[d] \/ (d = e /\ firm'[d] = g)
  BY <1>5, <1>6, OrderFacts DEF OrdersTyped
<1>8. GrantedOnce'
  BY <1>5, <1>7, OrderFacts DEF GrantedOnce
<1>9. \A d \in FirmOrders : /\ firm[d].status # "none" => firm'[d].status # "none"
                            /\ firm[d].status = "success" => firm'[d].status = "success"
  BY <1>5, <1>7
<1>10. PICK S \in SUBSET Clerks : S = {c}
  OBVIOUS
<1> QED BY <1>1, <1>2, <1>7, <1>8, <1>9, <1>10, RestsHold, FirmMoves DEF Provisioning


\* Orders that are placed or rejected, and codes that are withdrawn.
LEMMA PlaceStep ==
    ASSUME OrdersInv,
           \/ \E o \in Orders : CreateOrder(o) \/ RejectOrder(o)
           \/ \E k \in Codes : DisableRedemption(k)
    PROVE  OrdersInv'
<1>1. UNCHANGED <<total, billed, written, forgotten, firm, clerks>>
  BY DEF CreateOrder, RejectOrder, DisableRedemption, proxyAndHistory
<1>2. /\ orders' \in [Trades -> OrderRows]
      /\ \A p \in Trades : \/ orders'[p] = orders[p]
                           \/ /\ p \in Orders /\ orders[p].status \in {"none", "pending"}
                              /\ orders'[p].status \in {"pending", "failed"}
  <2>1. CASE \E o \in Orders : CreateOrder(o) \/ RejectOrder(o)
    <3>1. PICK o \in Orders, s \in {"pending", "failed"} :
            orders' = [orders EXCEPT ![o].status = s] /\ orders[o].status \in {"none", "pending"}
      BY <2>1 DEF CreateOrder, RejectOrder
    <3>2. PICK x \in OrderRows : x = orders[o] /\ o \in Trades
      BY OrderFacts DEF OrdersTyped
    <3>3. PICK y : y = [x EXCEPT !.status = s]
      OBVIOUS
    <3>4. y \in OrderRows /\ y.status = s
      BY <3>3 DEF OrderRows
    <3>5. orders' = [orders EXCEPT ![o] = y]
      BY <3>1, <3>2, <3>3
    <3> QED BY <3>1, <3>2, <3>4, <3>5, OrderFacts DEF OrdersTyped
  <2>2. CASE \E k \in Codes : DisableRedemption(k)
    BY <2>2, OrderFacts DEF DisableRedemption, OrdersTyped
  <2> QED BY <2>1, <2>2
<1>3. /\ codes' \in [Codes -> {"enabled", "used", "disabled"}]
      /\ \A k \in Codes : codes'[k] = "used" <=> codes[k] = "used"
  BY OrderFacts DEF CreateOrder, RejectOrder, DisableRedemption, OrdersTyped
<1>4. Paid' = Paid /\ ToolMoney' = ToolMoney /\ IsFiniteSet(Paid') /\ ToolMoney \in Nat
  BY <1>2, NoCredit
<1>5. OrdersTyped' /\ OrdersGoOn
  BY <1>1, <1>2, <1>3, <1>4, OrderFacts DEF OrdersTyped, OrdersGoOn, Decided
<1>6. (CreditedOnce /\ EachBudgetIsPaidFor /\ GrantedOnce)'
  BY <1>1, <1>3, <1>4, OrderFacts DEF CreditedOnce, EachBudgetIsPaidFor, GrantedOnce
<1>7. PICK S \in SUBSET Clerks : S = {}
  OBVIOUS
<1> QED BY <1>1, <1>2, <1>5, <1>6, <1>7, OrdersMove

\* What a request reports of its order.
LEMMA SyncMoves ==
    ASSUME OrdersInv, NEW o \in Trades, NEW s \in {"pending", "done"}, Synced(o, s)
    PROVE  /\ orders' \in [Trades -> OrderRows] /\ orders'[o].sync = s
           /\ \A p \in Trades : orders'[p].status = orders[p].status /\ (p # o => orders'[p] = orders[p])
<1>1. PICK x \in OrderRows : x = orders[o]
  BY OrderFacts DEF OrdersTyped
<1>2. PICK y : y = [x EXCEPT !.sync = s]
  OBVIOUS
<1>3. y \in OrderRows /\ y.sync = s /\ y.status = x.status
  BY <1>2 DEF OrderRows
<1>4. orders' = [orders EXCEPT ![o] = y]
  BY <1>1, <1>2 DEF Synced
<1> QED BY <1>1, <1>3, <1>4, OrderFacts DEF OrdersTyped

\* A request that reports on its order: it waits again, or it is done and written.
LEMMA ClerkReports ==
    ASSUME OrdersInv, NEW c \in Clerks, NEW q \in ClerkStates, clerks' = [clerks EXCEPT ![c] = q],
           NEW o \in Trades, o = clerks[c].order, NEW s \in {"pending", "done"}, Synced(o, s),
           UNCHANGED <<codes, total, billed, written, forgotten, firm>>, ClerkHolds(c)',
           \/ s = "pending"
           \/ o \in Codes /\ (o \in Paid => o \in written["main"])
           \/ o \in Orders /\ q.at \in Provisioning /\ q.order = o
    PROVE  OrdersInv'
<1>1. /\ clerks' \in [Clerks -> ClerkStates] /\ clerks'[c] = q
      /\ \A d \in Clerks : d # c => clerks'[d] = clerks[d]
  BY ClerkTakes
<1>2. /\ orders' \in [Trades -> OrderRows] /\ orders'[o].sync = s
      /\ \A p \in Trades : orders'[p].status = orders[p].status /\ (p # o => orders'[p] = orders[p])
  BY SyncMoves
<1>3. Paid' = Paid /\ ToolMoney' = ToolMoney /\ IsFiniteSet(Paid') /\ ToolMoney \in Nat
  BY <1>2, NoCredit
<1>4. OrdersTyped' /\ OrdersGoOn
  BY <1>1, <1>2, <1>3, OrderFacts DEF OrdersTyped, OrdersGoOn, Decided
<1>5. (CreditedOnce /\ EachBudgetIsPaidFor /\ GrantedOnce)'
  BY <1>3, OrderFacts DEF CreditedOnce, EachBudgetIsPaidFor, GrantedOnce
<1>6. PICK S \in SUBSET Clerks : S = {c}
  OBVIOUS
<1>7. ASSUME NEW p \in Trades, orders'[p].status = "success", orders'[p].sync = "done"
      PROVE  \/ p \in written'[AccountOf(p)]
             \/ p \in Orders /\ p \in forgotten'
             \/ p \in Orders /\ \E d \in S : clerks'[d].at \in Provisioning /\ clerks'[d].order = p
             \/ /\ orders[p].status = "success" /\ orders[p].sync = "done"
                /\ \A d \in S : ~(p \in Orders /\ clerks[d].at \in Provisioning /\ clerks[d].order = p)
  <2>1. CASE p = o
    <3>1. s = "done" /\ o \in Paid
      BY <1>2, <1>7, <2>1 DEF Paid
    <3> QED BY <1>1, <1>6, <2>1, <3>1, OrderFacts DEF AccountOf
  <2>2. CASE p # o
    BY <1>2, <1>6, <1>7, <2>2
  <2> QED BY <2>1, <2>2
<1> QED BY <1>1, <1>4, <1>5, <1>6, <1>7, OrdersMove

LEMMA MarkDoneStep ==
    ASSUME OrdersInv, NEW c \in Clerks, MarkDone(c)
    PROVE  OrdersInv'
<1>1. PICK o \in Trades : /\ o = clerks[c].order /\ clerks[c].at = "mark" /\ Decided(o)
                          /\ o \in Codes /\ o \in Paid => o \in written["main"]
  BY OrderFacts DEF MarkDone, ClerkHolds, ClerkAt
<1>2. UNCHANGED <<codes, total, billed, written, forgotten, firm>> /\ Synced(o, "done")
  BY <1>1 DEF MarkDone, proxyAndHistory
<1>3. PICK p \in {"allocate", "keys"} : /\ ClerkGoes(c, p) /\ (o \in Orders <=> p = "allocate")
  BY <1>1 DEF MarkDone
<1>4. PICK q \in ClerkStates : clerks' = [clerks EXCEPT ![c] = q] /\ q.at = p /\ q.order = o
  BY <1>1, <1>3, ClerkGoing DEF Places, Provisioning
<1>5. clerks'[c] = q
  BY <1>4, ClerkTakes
<1>6. \A r \in Trades : orders'[r].status = orders[r].status
  BY <1>2, SyncMoves
<1>7. ClerkHolds(c)'
  BY <1>1, <1>3, <1>4, <1>5, <1>6, OrderFacts DEF ClerkHolds, ClerkAt, Provisioning, Decided
<1>8. \/ o \in Codes /\ (o \in Paid => o \in written["main"])
      \/ o \in Orders /\ q.at \in Provisioning /\ q.order = o
  BY <1>1, <1>3, <1>4, OrderFacts DEF Provisioning
<1> QED BY <1>1, <1>2, <1>4, <1>7, <1>8, ClerkReports

\* A request that ends by putting its order back among those that wait.
LEMMA EndsWaiting ==
    ASSUME OrdersInv, NEW c \in Clerks, ClerkRests(c),
           UNCHANGED <<codes, total, billed, written, forgotten, firm>>,
           clerks[c].order \in Trades \union {NoOrder},
           IF clerks[c].order = NoOrder THEN UNCHANGED orders ELSE Synced(clerks[c].order, "pending")
    PROVE  OrdersInv'
<1>1. clerks' = [clerks EXCEPT ![c] = Idle] /\ ClerkHolds(c)' /\ Idle \in ClerkStates
  BY RestsHold, OrderFacts DEF ClerkRests
<1>2. CASE clerks[c].order = NoOrder
  BY <1>1, <1>2, OrderFacts, ClerkOnly
<1>3. CASE clerks[c].order # NoOrder
  <2>1. PICK o \in Trades : o = clerks[c].order /\ Synced(o, "pending")
    BY <1>3
  <2> QED BY <1>1, <2>1, ClerkReports
<1> QED BY <1>2, <1>3

LEMMA EndsWaitingStep ==
    ASSUME OrdersInv, NEW c \in Clerks, NotOpenedYet(c) \/ EntitlementFails(c) \/ KeysFail(c)
    PROVE  OrdersInv'
<1>1. /\ ClerkRests(c) /\ UNCHANGED <<codes, total, billed, written, forgotten, firm>>
      /\ clerks[c].at \in {"apply", "write", "mark"} \union Provisioning
  BY DEF NotOpenedYet, EntitlementFails, KeysFail, ClerkAt, proxyAndHistory
<1>2. clerks[c].order \in Trades \union {NoOrder} /\ (clerks[c].at = "apply" => clerks[c].order \in Trades)
  BY <1>1, OrderFacts DEF ClerkHolds, ClerkAt, Provisioning
<1>3. IF clerks[c].order = NoOrder THEN UNCHANGED orders ELSE Synced(clerks[c].order, "pending")
  BY <1>1, <1>2, OrderFacts DEF NotOpenedYet, EntitlementFails, KeysFail, ClerkAt
<1> QED BY <1>1, <1>2, <1>3, EndsWaiting


\* What was read of the account becomes its budget at the proxy.
LEMMA BudgetMoves ==
    ASSUME OrdersInv, NEW c \in Clerks, NEW a \in Accounts, SetBudget(c, a)
    PROVE  /\ billed' \in [Accounts -> BilledRows] /\ written' \in [Accounts -> SUBSET Trades]
           /\ billed'[a].budget = clerks[c].read.sum
           /\ written'[a] = written[a] \union clerks[c].read.of
           /\ \A b \in Accounts : b # a => billed'[b] = billed[b] /\ written'[b] = written[b]
<1>1. PICK r \in WhatWasRead : r = clerks[c].read
  BY OrderFacts DEF ClerkStates
<1>2. PICK x \in BilledRows : x = billed[a]
  BY OrderFacts DEF OrdersTyped
<1>3. PICK n \in Nat : n = r.sum
  BY DEF WhatWasRead
<1>4. PICK y : y = [x EXCEPT !.budget = n]
  OBVIOUS
<1>5. y \in BilledRows /\ y.budget = n
  BY <1>4 DEF BilledRows
<1>6. billed' = [billed EXCEPT ![a] = y]
  BY <1>1, <1>2, <1>3, <1>4 DEF SetBudget
<1>7. PICK w \in SUBSET Trades : w = written[a] \union r.of
  BY OrderFacts DEF OrdersTyped, WhatWasRead
<1>8. written' = [written EXCEPT ![a] = w]
  BY <1>1, <1>7 DEF SetBudget
<1> QED BY <1>1, <1>3, <1>5, <1>6, <1>7, <1>8, OrderFacts DEF OrdersTyped

\* The proxy is told what was read, and the request remembers it.
LEMMA ClerkWrites ==
    ASSUME OrdersInv, NEW c \in Clerks, NEW q \in ClerkStates, clerks' = [clerks EXCEPT ![c] = q],
           NEW a \in Accounts, SetBudget(c, a), UNCHANGED <<orders, codes, total, forgotten, firm>>,
           ClerkHolds(c)',
           clerks[c].read.sum <= IF a = "main" THEN total ELSE ToolMoney,
           clerks[c].at \in Provisioning /\ clerks[c].order \in Orders =>
             \/ q.at \in Provisioning /\ q.order = clerks[c].order
             \/ clerks[c].order \in Paid => clerks[c].order \in written["tool"]
    PROVE  OrdersInv'
<1>1. /\ clerks' \in [Clerks -> ClerkStates] /\ clerks'[c] = q
      /\ \A d \in Clerks : d # c => clerks'[d] = clerks[d]
  BY ClerkTakes
<1>2. /\ billed' \in [Accounts -> BilledRows] /\ written' \in [Accounts -> SUBSET Trades]
      /\ billed'[a].budget = clerks[c].read.sum
      /\ written'[a] = written[a] \union clerks[c].read.of
      /\ \A b \in Accounts : b # a => billed'[b] = billed[b] /\ written'[b] = written[b]
  BY BudgetMoves
<1>3. Paid' = Paid /\ ToolMoney' = ToolMoney /\ IsFiniteSet(Paid') /\ ToolMoney \in Nat
  BY NoCredit
<1>4. \A b \in Accounts : written[b] \subseteq written'[b]
  BY <1>2
<1>5. OrdersTyped' /\ OrdersGoOn
  BY <1>1, <1>2, <1>3, <1>4, OrderFacts DEF OrdersTyped, OrdersGoOn
<1>6. (CreditedOnce /\ GrantedOnce)'
  BY <1>3, OrderFacts DEF CreditedOnce, GrantedOnce
<1>7. EachBudgetIsPaidFor'
  BY <1>2, <1>3, OrderFacts DEF EachBudgetIsPaidFor, Accounts, ToolMoney
<1>8. PICK S \in SUBSET Clerks : S = {c}
  OBVIOUS
<1>9. ASSUME NEW o \in Trades, orders'[o].status = "success", orders'[o].sync = "done"
      PROVE  \/ o \in written'[AccountOf(o)]
             \/ o \in Orders /\ o \in forgotten'
             \/ o \in Orders /\ \E d \in S : clerks'[d].at \in Provisioning /\ clerks'[d].order = o
             \/ /\ orders[o].status = "success" /\ orders[o].sync = "done"
                /\ \A d \in S : ~(o \in Orders /\ clerks[d].at \in Provisioning /\ clerks[d].order = o)
  <2>1. CASE o \in Orders /\ clerks[c].at \in Provisioning /\ clerks[c].order = o
    BY <1>1, <1>4, <1>8, <1>9, <2>1 DEF Paid, AccountOf, Accounts
  <2>2. CASE ~(o \in Orders /\ clerks[c].at \in Provisioning /\ clerks[c].order = o)
    BY <1>8, <1>9, <2>2
  <2> QED BY <2>1, <2>2
<1> QED BY <1>1, <1>5, <1>6, <1>7, <1>8, <1>9, OrdersMove

LEMMA WriteEntitlementStep ==
    ASSUME OrdersInv, NEW c \in Clerks, WriteEntitlement(c)
    PROVE  OrdersInv'
<1>1. PICK x \in ClerkStates : x = clerks[c] /\ x.at = "write" /\ ClerkHolds(c)
  BY OrderFacts DEF WriteEntitlement, ClerkAt
<1>2. UNCHANGED <<orders, codes, total, forgotten, firm>> /\ SetBudget(c, "main")
  BY DEF WriteEntitlement
<1>3. PICK p \in {"keys", "mark"} : p = IF x.order = NoOrder THEN "keys" ELSE "mark"
  OBVIOUS
<1>4. PICK q : q = [x EXCEPT !.at = p, !.read = Nothing]
  OBVIOUS
<1>5. q \in ClerkStates /\ q.at = p /\ q.order = x.order
  BY <1>4, OrderFacts DEF ClerkStates, Places, Provisioning
<1>6. clerks' = [clerks EXCEPT ![c] = q]
  BY <1>1, <1>3, <1>4 DEF WriteEntitlement
<1>7. clerks'[c] = q
  BY <1>5, <1>6, ClerkTakes
<1>8. written'["main"] = written["main"] \union x.read.of
  BY <1>1, <1>2, BudgetMoves DEF Accounts
<1>9. Paid' = Paid
  BY <1>2, NoCredit
<1>10. x.order \in Codes \union {NoOrder} /\ x.read.sum <= total /\ (x.order \in Paid => x.order \in x.read.of)
       /\ (x.order \in Trades => Decided(x.order))
  BY <1>1 DEF ClerkHolds, ClerkAt
<1>11. ClerkHolds(c)'
  BY <1>2, <1>3, <1>5, <1>7, <1>8, <1>9, <1>10, OrderFacts DEF ClerkHolds, ClerkAt, Provisioning, Decided
<1> QED BY <1>1, <1>2, <1>5, <1>6, <1>10, <1>11, ClerkWrites DEF Provisioning, Accounts

LEMMA WriteToolStep ==
    ASSUME OrdersInv, NEW c \in Clerks, WriteTool(c)
    PROVE  OrdersInv'
<1>1. PICK x \in ClerkStates : x = clerks[c] /\ x.at \in {"toolWrite", "toolAgain"} /\ ClerkHolds(c)
  BY OrderFacts DEF WriteTool, ClerkAt
<1>2. UNCHANGED <<orders, codes, total, forgotten, firm>> /\ SetBudget(c, "tool")
  BY DEF WriteTool
<1>3. /\ x.order \in Orders /\ Decided(x.order) /\ x.read.sum <= ToolMoney
      /\ x.at = "toolWrite" /\ x.order \in Paid => x.order \in x.read.of
      /\ x.at = "toolAgain" /\ x.order \in Paid => x.order \in written["tool"]
  BY <1>1, OrderFacts DEF ClerkHolds, ClerkAt, Provisioning
<1>4. written'["tool"] = written["tool"] \union x.read.of
  BY <1>1, <1>2, BudgetMoves DEF Accounts
<1>5. Paid' = Paid /\ ToolMoney' = ToolMoney
  BY <1>2, NoCredit
<1>6. CASE x.at = "toolWrite"
  <2>1. ClerkGoes(c, "keys")
    BY <1>1, <1>6 DEF WriteTool, ClerkAt
  <2>2. PICK q \in ClerkStates : clerks' = [clerks EXCEPT ![c] = q] /\ q.at = "keys" /\ q.order = x.order
                                 /\ q.read = x.read
    BY <1>1, <2>1, ClerkGoing DEF Places, Provisioning
  <2>3. clerks'[c] = q
    BY <2>2, ClerkTakes
  <2>4. ClerkHolds(c)'
    BY <1>2, <1>3, <1>4, <1>5, <1>6, <2>2, <2>3, OrderFacts DEF ClerkHolds, ClerkAt, Provisioning, Decided
  <2> QED BY <1>1, <1>2, <1>3, <2>2, <2>4, ClerkWrites DEF Provisioning, Accounts
<1>7. CASE x.at = "toolAgain"
  <2>1. ClerkRests(c)
    BY <1>1, <1>7 DEF WriteTool, ClerkAt
  <2>2. clerks' = [clerks EXCEPT ![c] = Idle] /\ ClerkHolds(c)'
    BY <2>1, RestsHold DEF ClerkRests
  <2> QED BY <1>1, <1>2, <1>3, <1>7, <2>2, OrderFacts, ClerkWrites DEF Accounts
<1> QED BY <1>1, <1>6, <1>7

LEMMA CreateKeyStep ==
    ASSUME OrdersInv, NEW c \in Clerks, CreateKey(c)
    PROVE  OrdersInv'
<1>1. PICK o : o = clerks[c].order /\ clerks[c].at = "create" /\ (o \in Orders /\ o \in Paid => o \in written["tool"])
  BY OrderFacts DEF CreateKey, ClerkHolds, ClerkAt
<1>2. PICK a \in Accounts : a = AccountOf(o)
  BY DEF AccountOf, Accounts
<1>3. PICK x \in BilledRows : x = billed[a]
  BY OrderFacts DEF OrdersTyped
<1>4. PICK y : y = [x EXCEPT !.key = TRUE]
  OBVIOUS
<1>5. y \in BilledRows /\ y.budget = x.budget
  BY <1>4 DEF BilledRows
<1>6. billed' = [billed EXCEPT ![a] = y] /\ ClerkRests(c)
      /\ UNCHANGED <<orders, codes, total, written, forgotten, firm>>
  BY <1>1, <1>2, <1>3, <1>4 DEF CreateKey
<1>7. billed' \in [Accounts -> BilledRows] /\ \A b \in Accounts : billed'[b].budget = billed[b].budget
  BY <1>3, <1>5, <1>6, OrderFacts DEF OrdersTyped
<1>8. Paid' = Paid /\ ToolMoney' = ToolMoney /\ IsFiniteSet(Paid') /\ ToolMoney \in Nat
  BY <1>6, NoCredit
<1>9. /\ clerks' \in [Clerks -> ClerkStates] /\ ClerkHolds(c)'
      /\ \A d \in Clerks : d # c => clerks'[d] = clerks[d]
  BY <1>6, RestsHold
<1>10. OrdersTyped' /\ OrdersGoOn
  BY <1>6, <1>7, <1>8, <1>9, OrderFacts DEF OrdersTyped, OrdersGoOn
<1>11. (CreditedOnce /\ GrantedOnce)'
  BY <1>6, <1>8, OrderFacts DEF CreditedOnce, GrantedOnce
<1>12. EachBudgetIsPaidFor'
  BY <1>6, <1>7, <1>8, OrderFacts DEF EachBudgetIsPaidFor, Accounts
<1>13. PICK S \in SUBSET Clerks : S = {c}
  OBVIOUS
<1>14. ASSUME NEW p \in Trades, orders'[p].status = "success", orders'[p].sync = "done"
       PROVE  \/ p \in written'[AccountOf(p)]
              \/ /\ orders[p].status = "success" /\ orders[p].sync = "done"
                 /\ \A d \in S : ~(p \in Orders /\ clerks[d].at \in Provisioning /\ clerks[d].order = p)
  BY <1>1, <1>6, <1>13, <1>14 DEF Paid, AccountOf
<1> QED BY <1>9, <1>10, <1>11, <1>12, <1>13, <1>14, OrdersMove


\* Money arrives: once for its order, with the order that is decided by it.
LEMMA CreditMoves ==
    ASSUME OrdersInv, NEW o \in Trades, ~Decided(o), Credited(o)
    PROVE  /\ orders' \in [Trades -> OrderRows] /\ orders'[o].status = "success" /\ orders'[o].sync = "pending"
           /\ \A p \in Trades : p # o => orders'[p] = orders[p]
           /\ Paid' = Paid \union {o} /\ o \notin Paid /\ IsFiniteSet(Paid')
           /\ total' = total + 1 /\ total' = Cardinality(Paid')
           /\ ToolMoney' \in Nat /\ ToolMoney <= ToolMoney'
<1>1. PICK x \in OrderRows : x = orders[o]
  BY OrderFacts DEF OrdersTyped
<1>2. PICK y : y = [x EXCEPT !.status = "success", !.sync = "pending"]
  OBVIOUS
<1>3. y \in OrderRows /\ y.status = "success" /\ y.sync = "pending"
  BY <1>2 DEF OrderRows
<1>4. orders' = [orders EXCEPT ![o] = y] /\ total' = total + 1
  BY <1>1, <1>2 DEF Credited
<1>5. /\ orders' \in [Trades -> OrderRows] /\ orders'[o] = y
      /\ \A p \in Trades : p # o => orders'[p] = orders[p]
  BY <1>3, <1>4, OrderFacts DEF OrdersTyped
<1>6. o \notin Paid
  BY DEF Paid, Decided
<1>7. Paid' = Paid \union {o}
  BY <1>3, <1>5 DEF Paid
<1>8. IsFiniteSet(Paid) /\ total = Cardinality(Paid)
  BY OrderFacts DEF OrdersTyped, CreditedOnce
<1>9. IsFiniteSet(Paid \union {o}) /\ Cardinality(Paid \union {o}) = Cardinality(Paid) + 1
  BY <1>6, <1>8, FS_AddElement
<1>10. IsFiniteSet(Paid' \intersect Orders)
  BY <1>7, <1>9, FS_Subset
<1>11. (Paid \intersect Orders) \subseteq (Paid' \intersect Orders)
  BY <1>7
<1>12. /\ Cardinality(Paid' \intersect Orders) \in Nat
       /\ Cardinality(Paid \intersect Orders) <= Cardinality(Paid' \intersect Orders)
  BY <1>10, <1>11, FS_Subset, FS_CardinalityType
<1> QED BY <1>3, <1>4, <1>5, <1>6, <1>7, <1>8, <1>9, <1>12 DEF ToolMoney

\* A step that credits: the request goes on to tell the proxy.
LEMMA CreditStep ==
    ASSUME OrdersInv, NEW c \in Clerks, NEW q \in ClerkStates, clerks' = [clerks EXCEPT ![c] = q],
           NEW o \in Trades, ~Decided(o), Credited(o), q.at = "apply", q.order = o,
           clerks[c].at \notin Provisioning,
           codes' \in [Codes -> {"enabled", "used", "disabled"}],
           \A k \in Codes : codes'[k] = "used" <=> (codes[k] = "used" \/ k = o),
           UNCHANGED <<billed, written, forgotten, firm>>
    PROVE  OrdersInv'
<1>1. /\ clerks' \in [Clerks -> ClerkStates] /\ clerks'[c] = q
      /\ \A d \in Clerks : d # c => clerks'[d] = clerks[d]
  BY ClerkTakes
<1>2. /\ orders' \in [Trades -> OrderRows] /\ orders'[o].status = "success" /\ orders'[o].sync = "pending"
      /\ \A p \in Trades : p # o => orders'[p] = orders[p]
      /\ Paid' = Paid \union {o} /\ o \notin Paid /\ IsFiniteSet(Paid')
      /\ total' = total + 1 /\ total' = Cardinality(Paid')
      /\ ToolMoney' \in Nat /\ ToolMoney <= ToolMoney'
  BY CreditMoves
<1>3. OrdersTyped'
  BY <1>1, <1>2, OrderFacts DEF OrdersTyped
<1>4. OrdersGoOn
  BY <1>2, OrderFacts DEF OrdersTyped, OrdersGoOn, Decided
<1>5. CreditedOnce'
  BY <1>2, OrderFacts DEF CreditedOnce
<1>6. EachBudgetIsPaidFor'
  <2>1. /\ billed["main"].budget \in Nat /\ billed["tool"].budget \in Nat /\ total \in Nat
        /\ billed["main"].budget <= total /\ billed["tool"].budget <= ToolMoney /\ ToolMoney \in Nat
    BY OrderFacts DEF OrdersTyped, Accounts, BilledRows, EachBudgetIsPaidFor, ToolMoney
  <2>2. billed'["main"].budget <= total' /\ billed'["tool"].budget <= ToolMoney'
    BY <1>2, <2>1
  <2> QED BY <2>2 DEF EachBudgetIsPaidFor, ToolMoney
<1>7. GrantedOnce'
  BY OrderFacts DEF GrantedOnce
<1>8. ClerkHolds(c)'
  BY <1>1, <1>2, OrderFacts DEF ClerkHolds, ClerkAt, Provisioning, Decided
<1>9. PICK S \in SUBSET Clerks : S = {c}
  OBVIOUS
<1>10. ASSUME NEW p \in Trades, orders'[p].status = "success", orders'[p].sync = "done"
       PROVE  orders[p].status = "success" /\ orders[p].sync = "done"
  BY <1>2, <1>10
<1> QED BY <1>1, <1>3, <1>4, <1>5, <1>6, <1>7, <1>8, <1>9, <1>10, OrdersMove

LEMMA SettleOrderStep ==
    ASSUME OrdersInv, NEW c \in Clerks, SettleOrder(c)
    PROVE  OrdersInv'
<1>1. PICK o \in Orders : o = clerks[c].order /\ clerks[c].at = "settle" /\ orders[o].status # "none"
  BY OrderFacts DEF SettleOrder, ClerkHolds, ClerkAt
<1>2. UNCHANGED <<codes, billed, written, forgotten, firm>>
  BY DEF SettleOrder, proxyAndHistory
<1>3. CASE orders[o].status = "pending" /\ Credited(o) /\ ClerkApplies(c)
  <2>1. PICK q \in ClerkStates : clerks' = [clerks EXCEPT ![c] = q] /\ q.at = "apply" /\ q.order = o
    BY <1>1, <1>3, ClerkApplying
  <2>2. o \in Trades /\ ~Decided(o) /\ \A k \in Codes : k # o
    BY <1>3, OrderFacts DEF Decided
  <2>3. codes' \in [Codes -> {"enabled", "used", "disabled"}]
    BY <1>2, OrderFacts DEF OrdersTyped
  <2> QED BY <1>1, <1>2, <1>3, <2>1, <2>2, <2>3, CreditStep DEF Provisioning
<1>4. CASE orders[o].status # "pending" /\ UNCHANGED <<orders, total>> /\ (ClerkRests(c) \/ ClerkApplies(c))
  <2>1. CASE ClerkRests(c)
    <3>1. clerks' = [clerks EXCEPT ![c] = Idle] /\ ClerkHolds(c)'
      BY <2>1, RestsHold DEF ClerkRests
    <3> QED BY <1>1, <1>2, <1>4, <3>1, OrderFacts, ClerkOnly DEF Provisioning
  <2>2. CASE ClerkApplies(c)
    <3>1. PICK q \in ClerkStates : clerks' = [clerks EXCEPT ![c] = q] /\ q.at = "apply" /\ q.order = o
      BY <1>1, <2>2, ClerkApplying
    <3>2. clerks'[c] = q
      BY <3>1, ClerkTakes
    <3>3. o \in Trades /\ Decided(o)
      BY <1>1, <1>4, OrderFacts DEF Decided, OrdersTyped, OrderRows
    <3>4. ClerkHolds(c)'
      BY <1>2, <1>4, <3>1, <3>2, <3>3 DEF ClerkHolds, ClerkAt, Provisioning, Decided
    <3> QED BY <1>1, <1>2, <1>4, <3>1, <3>4, ClerkOnly DEF Provisioning
  <2> QED BY <1>4, <2>1, <2>2
<1> QED BY <1>1, <1>3, <1>4 DEF SettleOrder

LEMMA RedeemStep ==
    ASSUME OrdersInv, NEW c \in Clerks, NEW k \in Codes, Redeem(c, k)
    PROVE  OrdersInv'
<1>1. k \in Trades /\ ~Decided(k)
  <2>1. k \in Trades /\ k \notin Paid /\ orders[k].status \in {"none", "success"}
    BY OrderFacts DEF Redeem, CreditedOnce, OrdersTyped
  <2> QED BY <2>1 DEF Paid, Decided
<1>2. k \in ClerkOrders /\ "apply" \in Places
  BY <1>1, OrderFacts DEF Places
<1>3. PICK q \in ClerkStates : clerks' = [clerks EXCEPT ![c] = q] /\ q.at = "apply" /\ q.order = k
                               /\ clerks[c].at = "idle"
  BY <1>2, ClerkStarting DEF Redeem
<1>4. /\ codes' \in [Codes -> {"enabled", "used", "disabled"}]
      /\ \A l \in Codes : codes'[l] = "used" <=> (codes[l] = "used" \/ l = k)
  BY OrderFacts DEF OrdersTyped, Redeem
<1>5. Credited(k) /\ UNCHANGED <<billed, written, forgotten, firm>>
  BY DEF Redeem, proxyAndHistory
<1> QED BY <1>1, <1>3, <1>4, <1>5, CreditStep DEF Provisioning

LEMMA ClerkDiesStep ==
    ASSUME OrdersInv, NEW c \in Clerks, ClerkDies(c)
    PROVE  OrdersInv'
<1>1. UNCHANGED <<orders, codes, total, billed, written, firm>> /\ ClerkRests(c)
      /\ forgotten' = IF clerks[c].at \in Provisioning THEN forgotten \union ({clerks[c].order} \intersect Orders)
                      ELSE forgotten
  BY DEF ClerkDies, ClerkAt
<1>2. /\ clerks' \in [Clerks -> ClerkStates] /\ ClerkHolds(c)'
      /\ \A d \in Clerks : d # c => clerks'[d] = clerks[d]
  BY <1>1, RestsHold
<1>3. Paid' = Paid /\ ToolMoney' = ToolMoney /\ IsFiniteSet(Paid') /\ ToolMoney \in Nat
  BY <1>1, NoCredit
<1>4. OrdersTyped' /\ OrdersGoOn
  BY <1>1, <1>2, <1>3, OrderFacts DEF OrdersTyped, OrdersGoOn
<1>5. (CreditedOnce /\ EachBudgetIsPaidFor /\ GrantedOnce)'
  BY <1>1, <1>3, OrderFacts DEF CreditedOnce, EachBudgetIsPaidFor, GrantedOnce
<1>6. PICK S \in SUBSET Clerks : S = {c}
  OBVIOUS
<1>7. \A o \in Trades : orders'[o].status = "success" /\ orders'[o].sync = "done" =>
        \/ o \in Orders /\ o \in forgotten'
        \/ /\ orders[o].status = "success" /\ orders[o].sync = "done"
           /\ \A d \in S : ~(o \in Orders /\ clerks[d].at \in Provisioning /\ clerks[d].order = o)
  BY <1>1, <1>6
<1> QED BY <1>2, <1>4, <1>5, <1>6, <1>7, OrdersMove

LEMMA OrdersSteps == OrdersInv /\ [OrdersNext]_orderVars => OrdersInv'
<1> SUFFICES ASSUME OrdersInv, [OrdersNext]_orderVars PROVE OrdersInv'
  OBVIOUS
<1>1. CASE UNCHANGED orderVars
  <2>1. PICK S \in SUBSET Clerks : S = {}
    OBVIOUS
  <2>2. firm' \in [FirmOrders -> FirmRows] /\ clerks' \in [Clerks -> ClerkStates] /\ GrantedOnce'
    BY <1>1, OrderFacts DEF orderVars, OrdersTyped, GrantedOnce
  <2> QED BY <1>1, <2>1, <2>2, FirmMoves DEF orderVars
<1>2. CASE PersonalNext
  BY <1>2, PlaceStep, BeginStep, RedeemStep, SettleOrderStep, EndsWaitingStep, ReadEntitlementStep,
     VisitBillingStep, WriteEntitlementStep, MarkDoneStep, ReadAllocationsStep, WriteToolStep, ListKeysStep,
     CreateKeyStep DEF PersonalNext
<1>3. CASE FirmNext
  BY <1>3, FirmOrderStep, BeginStep, SettleFirmOrderStep, GrantFirmOrderStep DEF FirmNext
<1>4. CASE \E c \in Clerks : ClerkDies(c)
  BY <1>4, ClerkDiesStep
<1> QED BY <1>1, <1>2, <1>3, <1>4 DEF OrdersNext

\* The invariant of the orders holds in every reachable state (billing_store.py and
\* main.py from billing_identity on).
THEOREM OrdersInvariant == OrdersSpec => []OrdersInv
<1> QED BY OrdersStart, OrdersSteps, PTL DEF OrdersSpec

\* Money is credited once, no single account of the proxy is allowed more than was
\* paid for it (an order allocated to the tool may be allowed on both), none is
\* reported as delivered before it was, and an enterprise order grants at most once,
\* for any number of orders, codes and requests that overlap or die.
THEOREM OrdersSound == OrdersSpec => []OrdersAreSound
<1>1. OrdersInv => OrdersAreSound
  BY DEF OrdersInv
<1> QED BY <1>1, OrdersInvariant, PTL

\* The rows of the orders and of the accounts keep their types.
THEOREM OrdersTypeCorrect == OrdersSpec => []OrdersTypeOK
<1>1. OrdersInv => OrdersTypeOK
  BY DEF OrdersInv, OrdersTyped, OrdersTypeOK, OrderRows, FirmRows, BilledRows
<1> QED BY <1>1, OrdersInvariant, PTL

-----------------------------------------------------------------------------
(* Adoption.                                                               *)

AdoptionRows == [by : 0..Operations, member : Persons \cup {NoPerson}]
ApplierStates ==
  [pc : {"away", "scope", "mapping", "create", "adopt", "principal", "import", "backfill", "complete"},
   op : 0..Operations, todo : SUBSET Assets]

\* What a request has done by the place it has come to.
ApplierHolds(t) ==
  /\ t.pc # "away" => t.op \in Ops
  /\ t.pc \in {"principal", "import", "backfill", "complete"} => localOrg = "mapped"
  /\ t.pc \in {"import", "backfill", "complete"} => customer.known
  /\ t.pc = "import" => \A k \in Assets \ t.todo : imported[k].by = t.op
  /\ t.pc \in {"backfill", "complete"} => \A k \in Assets : imported[k].by = t.op
  /\ t.pc = "backfill" => Assets \ t.todo \subseteq backfills
  /\ t.pc = "complete" => backfills = Assets

AdoptionInv ==
  /\ AdoptionTypeOK /\ applier \in [Appliers -> ApplierStates]
  /\ \A p \in Appliers : ApplierHolds(applier[p])
  /\ \A k \in Assets : imported[k].by = 0 => imported[k].member = NoPerson
  /\ AdoptionIsSound

\* What no step takes back.
Kept ==
  /\ localOrg = "mapped" => localOrg' = "mapped"
  /\ customer.known => customer'.known
  /\ backfills \subseteq backfills' /\ backfills' \subseteq Assets
  /\ \A k \in Assets : imported[k].by # 0 => imported'[k].by = imported[k].by

LEMMA ApplierKept ==
    ASSUME NEW t \in ApplierStates, ApplierHolds(t), Kept
    PROVE  ApplierHolds(t)'
<1>1. t.pc # "away" => t.op \in Ops /\ t.op # 0
  BY DEF ApplierHolds, Ops
<1>2. t.pc = "import" => \A k \in Assets \ t.todo : imported'[k].by = t.op
  BY <1>1 DEF ApplierHolds, Kept
<1>3. t.pc \in {"backfill", "complete"} => \A k \in Assets : imported'[k].by = t.op
  BY <1>1 DEF ApplierHolds, Kept
<1>4. /\ t.pc \in {"principal", "import", "backfill", "complete"} => localOrg' = "mapped"
      /\ t.pc \in {"import", "backfill", "complete"} => customer'.known
      /\ t.pc = "backfill" => Assets \ t.todo \subseteq backfills'
      /\ t.pc = "complete" => backfills' = Assets
  BY DEF ApplierHolds, Kept
<1> QED BY <1>1, <1>2, <1>3, <1>4 DEF ApplierHolds

\* The step of a request that keeps what was reached.
LEMMA ApplierStep ==
    ASSUME AdoptionInv, NEW p \in Appliers, NEW t \in ApplierStates,
           applier' = [applier EXCEPT ![p] = t], Kept, ApplierHolds(t)'
    PROVE  /\ applier' \in [Appliers -> ApplierStates]
           /\ \A q \in Appliers : ApplierHolds(applier[q])'
<1>1. applier' \in [Appliers -> ApplierStates]
  BY DEF AdoptionInv
<1>2. ASSUME NEW q \in Appliers PROVE ApplierHolds(applier[q])'
  <2>1. CASE q = p
    <3>1. applier'[q] = t
      BY <2>1 DEF AdoptionInv
    <3> QED BY <3>1 DEF ApplierHolds
  <2>2. CASE q # p
    <3>1. applier'[q] = applier[q]
      BY <2>2 DEF AdoptionInv
    <3>2. PICK u \in ApplierStates : u = applier[q]
      BY DEF AdoptionInv
    <3>3. ApplierHolds(u)
      BY <3>2 DEF AdoptionInv
    <3>4. ApplierHolds(u)'
      BY <3>3, ApplierKept
    <3> QED BY <3>1, <3>2, <3>4 DEF ApplierHolds
  <2> QED BY <2>1, <2>2
<1> QED BY <1>1, <1>2

LEMMA AdoptionStart == AdoptionInit => AdoptionInv
<1> SUFFICES ASSUME AdoptionInit PROVE AdoptionInv
  OBVIOUS
<1>1. applier \in [Appliers -> ApplierStates] /\ \A p \in Appliers : applier[p] = Away
  BY AdoptionAssumption DEF AdoptionInit, Away, ApplierStates
<1>2. AdoptionTypeOK
  BY <1>1, AdoptionAssumption DEF AdoptionInit, AdoptionTypeOK, ApplierStates, Ops, Unclaimed
<1>3. \A p \in Appliers : ApplierHolds(applier[p])
  BY <1>1 DEF ApplierHolds, Away
<1>4. \A k \in Assets : imported[k].member = NoPerson
  BY DEF AdoptionInit, Unclaimed
<1>5. AdoptionIsSound
  BY <1>4 DEF AdoptionInit, AdoptionIsSound, AppliedIsWhole, KeysFollowPrincipal
<1> QED BY <1>1, <1>2, <1>3, <1>4, <1>5 DEF AdoptionInv

LEMMA AdoptApplyAdoption ==
    ASSUME AdoptionInv, NEW p \in Appliers, NEW o \in Ops, ApplyAdoption(p, o)
    PROVE  AdoptionInv'
<1>0. /\ AdoptionTypeOK /\ applier[p] \in ApplierStates /\ ApplierHolds(applier[p])
      /\ AppliedIsWhole /\ KeysFollowPrincipal
      /\ \A k \in Assets : imported[k].by = 0 => imported[k].member = NoPerson
  BY DEF AdoptionInv, AdoptionIsSound
<1>1. PICK t : t = [Away EXCEPT !.pc = "scope", !.op = o]
  OBVIOUS
<1>2. t \in ApplierStates /\ applier' = [applier EXCEPT ![p] = t]
  <2>1. Away \in ApplierStates /\ o \in 0..Operations
    BY AdoptionAssumption DEF Ops, Away, ApplierStates
  <2>2. \A a \in ApplierStates, n \in 0..Operations : [a EXCEPT !.pc = "scope", !.op = n] \in ApplierStates
    BY DEF ApplierStates
  <2> QED BY <1>1, <2>1, <2>2 DEF ApplyAdoption, Follows
<1>3. Kept
  BY <1>0, <1>2 DEF ApplyAdoption, Kept, AdoptionTypeOK, rowVars, ApplierHolds, ApplierStates
<1>4. ApplierHolds(t)'
  BY <1>0, <1>1, <1>2 DEF ApplyAdoption, ApplierHolds, ApplierStates, AdoptionTypeOK, rowVars, Away, Ops
<1>5. AdoptionTypeOK'
  <2>1. applier' \in [Appliers -> ApplierStates]
    BY <1>2, <1>3, <1>4, ApplierStep
  <2> QED BY <1>0, <1>2, <2>1, AdoptionAssumption
          DEF ApplyAdoption, AdoptionTypeOK, rowVars, ApplierStates, ApplierHolds, Ops
<1>6. (AppliedIsWhole /\ KeysFollowPrincipal)'
      /\ \A k \in Assets : imported'[k].by = 0 => imported'[k].member = NoPerson
  BY <1>0, <1>3 DEF ApplyAdoption, AppliedIsWhole, KeysFollowPrincipal, AdoptionTypeOK, Kept, rowVars,
     ApplierHolds, ApplierStates, Ops
<1> QED BY <1>2, <1>3, <1>4, <1>5, <1>6, ApplierStep DEF AdoptionInv, AdoptionIsSound

LEMMA AdoptEnsureScope ==
    ASSUME AdoptionInv, NEW p \in Appliers, EnsureScope(p)
    PROVE  AdoptionInv'
<1>0. /\ AdoptionTypeOK /\ applier[p] \in ApplierStates /\ ApplierHolds(applier[p])
      /\ AppliedIsWhole /\ KeysFollowPrincipal
      /\ \A k \in Assets : imported[k].by = 0 => imported[k].member = NoPerson
  BY DEF AdoptionInv, AdoptionIsSound
<1>1. PICK t : t = [applier[p] EXCEPT !.pc = "mapping"]
  OBVIOUS
<1>2. t \in ApplierStates /\ applier' = [applier EXCEPT ![p] = t]
  BY <1>0, <1>1, AdoptionAssumption DEF EnsureScope, Follows, ApplierStates, ApplierHolds, Ops, Away
<1>3. Kept
  BY <1>0, <1>2 DEF EnsureScope, Kept, AdoptionTypeOK, rowVars, ApplierHolds, ApplierStates
<1>4. ApplierHolds(t)'
  BY <1>0, <1>1, <1>2 DEF EnsureScope, ApplierHolds, ApplierStates, AdoptionTypeOK, rowVars, Away, Ops
<1>5. AdoptionTypeOK'
  <2>1. applier' \in [Appliers -> ApplierStates]
    BY <1>2, <1>3, <1>4, ApplierStep
  <2> QED BY <1>0, <1>2, <2>1, AdoptionAssumption
          DEF EnsureScope, AdoptionTypeOK, rowVars, ApplierStates, ApplierHolds, Ops
<1>6. (AppliedIsWhole /\ KeysFollowPrincipal)'
      /\ \A k \in Assets : imported'[k].by = 0 => imported'[k].member = NoPerson
  BY <1>0, <1>3 DEF EnsureScope, AppliedIsWhole, KeysFollowPrincipal, AdoptionTypeOK, Kept, rowVars,
     ApplierHolds, ApplierStates, Ops
<1> QED BY <1>2, <1>3, <1>4, <1>5, <1>6, ApplierStep DEF AdoptionInv, AdoptionIsSound

LEMMA AdoptCreateLocal ==
    ASSUME AdoptionInv, NEW p \in Appliers, CreateLocal(p)
    PROVE  AdoptionInv'
<1>0. /\ AdoptionTypeOK /\ applier[p] \in ApplierStates /\ ApplierHolds(applier[p])
      /\ AppliedIsWhole /\ KeysFollowPrincipal
      /\ \A k \in Assets : imported[k].by = 0 => imported[k].member = NoPerson
  BY DEF AdoptionInv, AdoptionIsSound
<1>1. PICK t : t = [applier[p] EXCEPT !.pc = "adopt"]
  OBVIOUS
<1>2. t \in ApplierStates /\ applier' = [applier EXCEPT ![p] = t]
  BY <1>0, <1>1, AdoptionAssumption DEF CreateLocal, Follows, ApplierStates, ApplierHolds, Ops, Away
<1>3. Kept
  BY <1>0, <1>2 DEF CreateLocal, Kept, AdoptionTypeOK, rowVars, ApplierHolds, ApplierStates
<1>4. ApplierHolds(t)'
  BY <1>0, <1>1, <1>2 DEF CreateLocal, ApplierHolds, ApplierStates, AdoptionTypeOK, rowVars, Away, Ops
<1>5. AdoptionTypeOK'
  <2>1. applier' \in [Appliers -> ApplierStates]
    BY <1>2, <1>3, <1>4, ApplierStep
  <2> QED BY <1>0, <1>2, <2>1, AdoptionAssumption
          DEF CreateLocal, AdoptionTypeOK, rowVars, ApplierStates, ApplierHolds, Ops
<1>6. (AppliedIsWhole /\ KeysFollowPrincipal)'
      /\ \A k \in Assets : imported'[k].by = 0 => imported'[k].member = NoPerson
  BY <1>0, <1>3 DEF CreateLocal, AppliedIsWhole, KeysFollowPrincipal, AdoptionTypeOK, Kept, rowVars,
     ApplierHolds, ApplierStates, Ops
<1> QED BY <1>2, <1>3, <1>4, <1>5, <1>6, ApplierStep DEF AdoptionInv, AdoptionIsSound

LEMMA AdoptAdoptScope ==
    ASSUME AdoptionInv, NEW p \in Appliers, AdoptScope(p)
    PROVE  AdoptionInv'
<1>0. /\ AdoptionTypeOK /\ applier[p] \in ApplierStates /\ ApplierHolds(applier[p])
      /\ AppliedIsWhole /\ KeysFollowPrincipal
      /\ \A k \in Assets : imported[k].by = 0 => imported[k].member = NoPerson
  BY DEF AdoptionInv, AdoptionIsSound
<1>1. PICK t : t = [applier[p] EXCEPT !.pc = "principal"]
  OBVIOUS
<1>2. t \in ApplierStates /\ applier' = [applier EXCEPT ![p] = t]
  BY <1>0, <1>1, AdoptionAssumption DEF AdoptScope, Follows, ApplierStates, ApplierHolds, Ops, Away
<1>3. Kept
  BY <1>0, <1>2 DEF AdoptScope, Kept, AdoptionTypeOK, rowVars, ApplierHolds, ApplierStates
<1>4. ApplierHolds(t)'
  BY <1>0, <1>1, <1>2 DEF AdoptScope, ApplierHolds, ApplierStates, AdoptionTypeOK, rowVars, Away, Ops
<1>5. AdoptionTypeOK'
  <2>1. applier' \in [Appliers -> ApplierStates]
    BY <1>2, <1>3, <1>4, ApplierStep
  <2> QED BY <1>0, <1>2, <2>1, AdoptionAssumption
          DEF AdoptScope, AdoptionTypeOK, rowVars, ApplierStates, ApplierHolds, Ops
<1>6. (AppliedIsWhole /\ KeysFollowPrincipal)'
      /\ \A k \in Assets : imported'[k].by = 0 => imported'[k].member = NoPerson
  BY <1>0, <1>3 DEF AdoptScope, AppliedIsWhole, KeysFollowPrincipal, AdoptionTypeOK, Kept, rowVars,
     ApplierHolds, ApplierStates, Ops
<1> QED BY <1>2, <1>3, <1>4, <1>5, <1>6, ApplierStep DEF AdoptionInv, AdoptionIsSound

LEMMA AdoptLookForMapping ==
    ASSUME AdoptionInv, NEW p \in Appliers, LookForMapping(p)
    PROVE  AdoptionInv'
<1>0. /\ AdoptionTypeOK /\ applier[p] \in ApplierStates /\ ApplierHolds(applier[p])
      /\ AppliedIsWhole /\ KeysFollowPrincipal
      /\ \A k \in Assets : imported[k].by = 0 => imported[k].member = NoPerson
  BY DEF AdoptionInv, AdoptionIsSound
<1>1. PICK t : t = [applier[p] EXCEPT
       !.pc = CASE localOrg = "mapped" -> "principal"
                [] localOrg = "made"   -> "adopt"
                [] OTHER               -> "create"]
  OBVIOUS
<1>2. t \in ApplierStates /\ applier' = [applier EXCEPT ![p] = t]
  BY <1>0, <1>1, AdoptionAssumption DEF LookForMapping, Follows, ApplierStates, ApplierHolds, Ops, Away
<1>3. Kept
  BY <1>0, <1>2 DEF LookForMapping, Kept, AdoptionTypeOK, rowVars, ApplierHolds, ApplierStates
<1>4. ApplierHolds(t)'
  BY <1>0, <1>1, <1>2 DEF LookForMapping, ApplierHolds, ApplierStates, AdoptionTypeOK, rowVars, Away, Ops
<1>5. AdoptionTypeOK'
  <2>1. applier' \in [Appliers -> ApplierStates]
    BY <1>2, <1>3, <1>4, ApplierStep
  <2> QED BY <1>0, <1>2, <2>1, AdoptionAssumption
          DEF LookForMapping, AdoptionTypeOK, rowVars, ApplierStates, ApplierHolds, Ops
<1>6. (AppliedIsWhole /\ KeysFollowPrincipal)'
      /\ \A k \in Assets : imported'[k].by = 0 => imported'[k].member = NoPerson
  BY <1>0, <1>3 DEF LookForMapping, AppliedIsWhole, KeysFollowPrincipal, AdoptionTypeOK, Kept, rowVars,
     ApplierHolds, ApplierStates, Ops
<1> QED BY <1>2, <1>3, <1>4, <1>5, <1>6, ApplierStep DEF AdoptionInv, AdoptionIsSound

LEMMA AdoptEnsurePrincipal ==
    ASSUME AdoptionInv, NEW p \in Appliers, EnsurePrincipal(p)
    PROVE  AdoptionInv'
<1>0. /\ AdoptionTypeOK /\ applier[p] \in ApplierStates /\ ApplierHolds(applier[p])
      /\ AppliedIsWhole /\ KeysFollowPrincipal
      /\ \A k \in Assets : imported[k].by = 0 => imported[k].member = NoPerson
  BY DEF AdoptionInv, AdoptionIsSound
<1>1. PICK t : t = [applier[p] EXCEPT !.pc = "import", !.todo = Assets]
  OBVIOUS
<1>2. t \in ApplierStates /\ applier' = [applier EXCEPT ![p] = t]
  BY <1>0, <1>1, AdoptionAssumption DEF EnsurePrincipal, Follows, ApplierStates, ApplierHolds, Ops, Away
<1>3. Kept
  BY <1>0, <1>2 DEF EnsurePrincipal, Kept, AdoptionTypeOK, rowVars, ApplierHolds, ApplierStates
<1>4. ApplierHolds(t)'
  BY <1>0, <1>1, <1>2 DEF EnsurePrincipal, ApplierHolds, ApplierStates, AdoptionTypeOK, rowVars, Away, Ops
<1>5. AdoptionTypeOK'
  <2>1. applier' \in [Appliers -> ApplierStates]
    BY <1>2, <1>3, <1>4, ApplierStep
  <2> QED BY <1>0, <1>2, <2>1, AdoptionAssumption
          DEF EnsurePrincipal, AdoptionTypeOK, rowVars, ApplierStates, ApplierHolds, Ops
<1>6. (AppliedIsWhole /\ KeysFollowPrincipal)'
      /\ \A k \in Assets : imported'[k].by = 0 => imported'[k].member = NoPerson
  BY <1>0, <1>3 DEF EnsurePrincipal, AppliedIsWhole, KeysFollowPrincipal, AdoptionTypeOK, Kept, rowVars,
     ApplierHolds, ApplierStates, Ops
<1> QED BY <1>2, <1>3, <1>4, <1>5, <1>6, ApplierStep DEF AdoptionInv, AdoptionIsSound

LEMMA AdoptImportKey ==
    ASSUME AdoptionInv, NEW p \in Appliers, NEW k \in Assets, ImportKey(p, k)
    PROVE  AdoptionInv'
<1>0. /\ AdoptionTypeOK /\ applier[p] \in ApplierStates /\ ApplierHolds(applier[p])
      /\ AppliedIsWhole /\ KeysFollowPrincipal
      /\ \A a \in Assets : imported[a].by = 0 => imported[a].member = NoPerson
  BY DEF AdoptionInv, AdoptionIsSound
<1>1. PICK t : t = [applier[p] EXCEPT
       !.todo = IF applier[p].todo \ {k} = {} THEN Assets ELSE applier[p].todo \ {k},
       !.pc = IF applier[p].todo \ {k} = {} THEN "backfill" ELSE "import"]
  OBVIOUS
<1>2. t \in ApplierStates /\ applier' = [applier EXCEPT ![p] = t]
  BY <1>0, <1>1, AdoptionAssumption DEF ImportKey, Follows, ApplierStates, ApplierHolds, Ops, Away, Importable
<1>3. Kept
  BY <1>0, <1>2 DEF ImportKey, Kept, AdoptionTypeOK, rowVars, ApplierHolds, ApplierStates, Importable
<1>4. ApplierHolds(t)'
  <2>1. t.op = applier[p].op /\ t.op \in Ops /\ k \in applier[p].todo /\ UNCHANGED <<localOrg, customer>>
    BY <1>0, <1>1 DEF ImportKey, ApplierHolds, ApplierStates
  <2>2. CASE applier[p].todo \ {k} = {}
    <3>1. t.pc = "backfill" /\ t.todo = Assets
      BY <1>0, <1>1, <2>2 DEF ApplierStates
    <3> QED BY <1>0, <2>1, <2>2, <3>1 DEF ImportKey, ApplierHolds, ApplierStates, AdoptionTypeOK
  <2>3. CASE applier[p].todo \ {k} # {}
    <3>1. t.pc = "import" /\ t.todo = applier[p].todo \ {k}
      BY <1>0, <1>1, <2>3 DEF ApplierStates
    <3> QED BY <1>0, <2>1, <3>1 DEF ImportKey, ApplierHolds, ApplierStates, AdoptionTypeOK
  <2> QED BY <2>2, <2>3
<1>5. AdoptionTypeOK'
  <2>1. applier' \in [Appliers -> ApplierStates]
    BY <1>2, <1>3, <1>4, ApplierStep
  <2> QED BY <1>0, <1>2, <2>1, AdoptionAssumption
          DEF ImportKey, AdoptionTypeOK, rowVars, ApplierStates, ApplierHolds, Ops, Importable
<1>6. (AppliedIsWhole /\ KeysFollowPrincipal)'
      /\ \A a \in Assets : imported'[a].by = 0 => imported'[a].member = NoPerson
  BY <1>0, <1>3 DEF ImportKey, AppliedIsWhole, KeysFollowPrincipal, AdoptionTypeOK, Kept, rowVars,
     ApplierHolds, ApplierStates, Ops, Importable
<1> QED BY <1>2, <1>3, <1>4, <1>5, <1>6, ApplierStep DEF AdoptionInv, AdoptionIsSound

LEMMA AdoptQueueBackfill ==
    ASSUME AdoptionInv, NEW p \in Appliers, NEW k \in Assets, QueueBackfill(p, k)
    PROVE  AdoptionInv'
<1>0. /\ AdoptionTypeOK /\ applier[p] \in ApplierStates /\ ApplierHolds(applier[p])
      /\ AppliedIsWhole /\ KeysFollowPrincipal
      /\ \A a \in Assets : imported[a].by = 0 => imported[a].member = NoPerson
  BY DEF AdoptionInv, AdoptionIsSound
<1>1. PICK t : t = [applier[p] EXCEPT
       !.todo = applier[p].todo \ {k},
       !.pc = IF applier[p].todo \ {k} = {} THEN "complete" ELSE "backfill"]
  OBVIOUS
<1>2. t \in ApplierStates /\ applier' = [applier EXCEPT ![p] = t]
  BY <1>0, <1>1, AdoptionAssumption DEF QueueBackfill, Follows, ApplierStates, ApplierHolds, Ops, Away
<1>3. Kept
  BY <1>0, <1>2 DEF QueueBackfill, Kept, AdoptionTypeOK, rowVars, ApplierHolds, ApplierStates
<1>4. ApplierHolds(t)'
  <2>1. t.op = applier[p].op /\ t.op \in Ops /\ k \in applier[p].todo /\ UNCHANGED <<localOrg, customer>>
    BY <1>0, <1>1 DEF QueueBackfill, ApplierHolds, ApplierStates
  <2>2. CASE applier[p].todo \ {k} = {}
    <3>1. t.pc = "complete" /\ t.todo = {}
      BY <1>0, <1>1, <2>2 DEF ApplierStates
    <3> QED BY <1>0, <2>1, <2>2, <3>1 DEF QueueBackfill, ApplierHolds, ApplierStates, AdoptionTypeOK
  <2>3. CASE applier[p].todo \ {k} # {}
    <3>1. t.pc = "backfill" /\ t.todo = applier[p].todo \ {k}
      BY <1>0, <1>1, <2>3 DEF ApplierStates
    <3> QED BY <1>0, <2>1, <3>1 DEF QueueBackfill, ApplierHolds, ApplierStates, AdoptionTypeOK
  <2> QED BY <2>2, <2>3
<1>5. AdoptionTypeOK'
  <2>1. applier' \in [Appliers -> ApplierStates]
    BY <1>2, <1>3, <1>4, ApplierStep
  <2> QED BY <1>0, <1>2, <2>1, AdoptionAssumption
          DEF QueueBackfill, AdoptionTypeOK, rowVars, ApplierStates, ApplierHolds, Ops
<1>6. (AppliedIsWhole /\ KeysFollowPrincipal)'
      /\ \A a \in Assets : imported'[a].by = 0 => imported'[a].member = NoPerson
  BY <1>0, <1>3 DEF QueueBackfill, AppliedIsWhole, KeysFollowPrincipal, AdoptionTypeOK, Kept, rowVars,
     ApplierHolds, ApplierStates, Ops
<1> QED BY <1>2, <1>3, <1>4, <1>5, <1>6, ApplierStep DEF AdoptionInv, AdoptionIsSound

LEMMA AdoptCompleteOperation ==
    ASSUME AdoptionInv, NEW p \in Appliers, CompleteOperation(p)
    PROVE  AdoptionInv'
<1>0. /\ AdoptionTypeOK /\ applier[p] \in ApplierStates /\ ApplierHolds(applier[p])
      /\ AppliedIsWhole /\ KeysFollowPrincipal
      /\ \A a \in Assets : imported[a].by = 0 => imported[a].member = NoPerson
  BY DEF AdoptionInv, AdoptionIsSound
<1>1. PICK t : t = Away
  OBVIOUS
<1>2. t \in ApplierStates /\ applier' = [applier EXCEPT ![p] = t]
  BY <1>0, <1>1, AdoptionAssumption DEF CompleteOperation, Follows, ApplierStates, ApplierHolds, Ops, Away
<1>3. Kept
  BY <1>0, <1>2 DEF CompleteOperation, Kept, AdoptionTypeOK, rowVars, ApplierHolds, ApplierStates
<1>4. ApplierHolds(t)'
  BY <1>0, <1>1, <1>2 DEF CompleteOperation, ApplierHolds, ApplierStates, AdoptionTypeOK, rowVars, Away, Ops
<1>5. AdoptionTypeOK'
  <2>1. applier' \in [Appliers -> ApplierStates]
    BY <1>2, <1>3, <1>4, ApplierStep
  <2> QED BY <1>0, <1>2, <2>1, AdoptionAssumption
          DEF CompleteOperation, AdoptionTypeOK, rowVars, ApplierStates, ApplierHolds, Ops
<1>6. (AppliedIsWhole /\ KeysFollowPrincipal)'
      /\ \A a \in Assets : imported'[a].by = 0 => imported'[a].member = NoPerson
  BY <1>0, <1>3 DEF CompleteOperation, AppliedIsWhole, KeysFollowPrincipal, AdoptionTypeOK, Kept, rowVars,
     ApplierHolds, ApplierStates, Ops
<1> QED BY <1>2, <1>3, <1>4, <1>5, <1>6, ApplierStep DEF AdoptionInv, AdoptionIsSound

LEMMA AdoptFailOperation ==
    ASSUME AdoptionInv, NEW p \in Appliers, applier[p].pc # "away", FailOperation(p)
    PROVE  AdoptionInv'
<1>0. /\ AdoptionTypeOK /\ applier[p] \in ApplierStates /\ ApplierHolds(applier[p])
      /\ AppliedIsWhole /\ KeysFollowPrincipal
      /\ \A a \in Assets : imported[a].by = 0 => imported[a].member = NoPerson
  BY DEF AdoptionInv, AdoptionIsSound
<1>1. PICK t : t = Away
  OBVIOUS
<1>2. t \in ApplierStates /\ applier' = [applier EXCEPT ![p] = t]
  BY <1>0, <1>1, AdoptionAssumption DEF FailOperation, Follows, ApplierStates, ApplierHolds, Ops, Away
<1>3. Kept
  BY <1>0, <1>2 DEF FailOperation, Kept, AdoptionTypeOK, rowVars, ApplierHolds, ApplierStates
<1>4. ApplierHolds(t)'
  BY <1>0, <1>1, <1>2 DEF FailOperation, ApplierHolds, ApplierStates, AdoptionTypeOK, rowVars, Away, Ops
<1>5. AdoptionTypeOK'
  <2>1. applier' \in [Appliers -> ApplierStates]
    BY <1>2, <1>3, <1>4, ApplierStep
  <2> QED BY <1>0, <1>2, <2>1, AdoptionAssumption
          DEF FailOperation, AdoptionTypeOK, rowVars, ApplierStates, ApplierHolds, Ops
<1>6. (AppliedIsWhole /\ KeysFollowPrincipal)'
      /\ \A k \in Assets : imported'[k].by = 0 => imported'[k].member = NoPerson
  BY <1>0, <1>3 DEF FailOperation, AppliedIsWhole, KeysFollowPrincipal, AdoptionTypeOK, Kept, rowVars,
     ApplierHolds, ApplierStates, Ops
<1> QED BY <1>2, <1>3, <1>4, <1>5, <1>6, ApplierStep DEF AdoptionInv, AdoptionIsSound

LEMMA AdoptApplierDies ==
    ASSUME AdoptionInv, NEW p \in Appliers, ApplierDies(p)
    PROVE  AdoptionInv'
<1>0. /\ AdoptionTypeOK /\ applier[p] \in ApplierStates /\ ApplierHolds(applier[p])
      /\ AppliedIsWhole /\ KeysFollowPrincipal
      /\ \A k \in Assets : imported[k].by = 0 => imported[k].member = NoPerson
  BY DEF AdoptionInv, AdoptionIsSound
<1>1. PICK t : t = Away
  OBVIOUS
<1>2. t \in ApplierStates /\ applier' = [applier EXCEPT ![p] = t]
  BY <1>0, <1>1, AdoptionAssumption DEF ApplierDies, Follows, ApplierStates, ApplierHolds, Ops, Away, AdoptionFaults
<1>3. Kept
  BY <1>0, <1>2 DEF ApplierDies, Kept, AdoptionTypeOK, rowVars, ApplierHolds, ApplierStates, AdoptionFaults
<1>4. ApplierHolds(t)'
  BY <1>0, <1>1, <1>2 DEF ApplierDies, ApplierHolds, ApplierStates, AdoptionTypeOK, rowVars, Away, Ops, AdoptionFaults
<1>5. AdoptionTypeOK'
  <2>1. applier' \in [Appliers -> ApplierStates]
    BY <1>2, <1>3, <1>4, ApplierStep
  <2> QED BY <1>0, <1>2, <2>1, AdoptionAssumption
          DEF ApplierDies, AdoptionTypeOK, rowVars, ApplierStates, ApplierHolds, Ops, AdoptionFaults
<1>6. (AppliedIsWhole /\ KeysFollowPrincipal)'
      /\ \A k \in Assets : imported'[k].by = 0 => imported'[k].member = NoPerson
  BY <1>0, <1>3 DEF ApplierDies, AppliedIsWhole, KeysFollowPrincipal, AdoptionTypeOK, Kept, rowVars,
     ApplierHolds, ApplierStates, Ops, AdoptionFaults
<1> QED BY <1>2, <1>3, <1>4, <1>5, <1>6, ApplierStep DEF AdoptionInv, AdoptionIsSound

LEMMA AdoptSetPrincipal ==
    ASSUME AdoptionInv, NEW m \in Persons \cup {NoPerson},
           SetPrincipalMember(m) \/ (m \in Persons /\ LinkPrincipalMember(m))
    PROVE  AdoptionInv'
<1>0. /\ AdoptionTypeOK /\ AppliedIsWhole /\ KeysFollowPrincipal
      /\ \A k \in Assets : imported[k].by = 0 => imported[k].member = NoPerson
  BY DEF AdoptionInv, AdoptionIsSound
<1>1. /\ imported' \in [Assets -> AdoptionRows]
      /\ customer' \in [known : BOOLEAN, member : Persons \cup {NoPerson}] /\ customer'.member = m
      /\ customer'.known
  <2>1. \A k \in Assets : imported[k] \in AdoptionRows /\ [imported[k] EXCEPT !.member = m] \in AdoptionRows
    BY <1>0 DEF AdoptionTypeOK, AdoptionRows
  <2>2. customer' = [customer EXCEPT !.member = m] /\ customer.known
    BY DEF SetPrincipalMember, LinkPrincipalMember
  <2>3. imported' \in [Assets -> AdoptionRows]
    <3>1. CASE SetPrincipalMember(m)
      BY <2>1, <3>1 DEF SetPrincipalMember, Rebind
    <3>2. CASE LinkPrincipalMember(m)
      BY <2>1, <3>2 DEF LinkPrincipalMember
    <3> QED BY <3>1, <3>2
  <2> QED BY <1>0, <2>2, <2>3 DEF AdoptionTypeOK
<1>2. \A k \in Assets :
        /\ imported'[k].by = imported[k].by
        /\ imported'[k].member \in {NoPerson, m}
        /\ imported[k].by = 0 => imported'[k].member = NoPerson
  <2> SUFFICES ASSUME NEW k \in Assets
               PROVE  /\ imported'[k].by = imported[k].by
                      /\ imported'[k].member \in {NoPerson, m}
                      /\ imported[k].by = 0 => imported'[k].member = NoPerson
    OBVIOUS
  <2>1. imported[k] \in AdoptionRows
    BY <1>0 DEF AdoptionTypeOK, AdoptionRows
  <2>2. imported[k].member \in {NoPerson, customer.member}
    BY <1>0 DEF KeysFollowPrincipal
  <2>3. CASE SetPrincipalMember(m)
    BY <1>0, <2>1, <2>2, <2>3 DEF SetPrincipalMember, Rebind, AdoptionRows
  <2>4. CASE LinkPrincipalMember(m)
    BY <1>0, <2>1, <2>2, <2>4 DEF LinkPrincipalMember, AdoptionRows
  <2> QED BY <2>3, <2>4
<1>3. UNCHANGED <<preview, operation, scopeMade, localOrg, backfills, applier>>
  BY DEF SetPrincipalMember, LinkPrincipalMember
<1>4. AdoptionTypeOK'
  BY <1>0, <1>1, <1>3 DEF AdoptionTypeOK, AdoptionRows
<1>5. (AppliedIsWhole /\ KeysFollowPrincipal)'
  BY <1>0, <1>1, <1>2, <1>3 DEF AppliedIsWhole, KeysFollowPrincipal
<1>6. Kept
  BY <1>0, <1>1, <1>2, <1>3 DEF Kept, AdoptionTypeOK
<1>7. ASSUME NEW q \in Appliers PROVE ApplierHolds(applier[q])'
  <2>1. PICK u \in ApplierStates : u = applier[q]
    BY DEF AdoptionInv
  <2>2. ApplierHolds(u)
    BY <2>1 DEF AdoptionInv
  <2>3. ApplierHolds(u)'
    BY <1>6, <2>2, ApplierKept
  <2> QED BY <1>3, <2>1, <2>3 DEF ApplierHolds
<1> QED BY <1>2, <1>3, <1>4, <1>5, <1>7 DEF AdoptionInv, AdoptionIsSound

LEMMA AdoptionStep == AdoptionInv /\ [AdoptionNext]_adoptionVars => AdoptionInv'
<1> SUFFICES ASSUME AdoptionInv, [AdoptionNext]_adoptionVars PROVE AdoptionInv'
  OBVIOUS
<1>1. CASE UNCHANGED adoptionVars
  BY <1>1 DEF adoptionVars, AdoptionInv, AdoptionTypeOK, ApplierHolds, AdoptionIsSound,
              AppliedIsWhole, KeysFollowPrincipal
<1>2. CASE UpstreamMoves
  <2>1. preview' \in Ops
    BY <1>2, AdoptionAssumption DEF UpstreamMoves, AdoptionInv, AdoptionTypeOK, Ops
  <2> QED BY <1>2, <2>1 DEF UpstreamMoves, rowVars, AdoptionInv, AdoptionTypeOK, ApplierHolds,
                            AdoptionIsSound, AppliedIsWhole, KeysFollowPrincipal
<1>3. ASSUME NEW p \in Appliers,
             \/ \E o \in Ops : ApplyAdoption(p, o)
             \/ EnsureScope(p) \/ LookForMapping(p) \/ CreateLocal(p) \/ AdoptScope(p)
             \/ EnsurePrincipal(p) \/ CompleteOperation(p)
             \/ \E k \in Assets : ImportKey(p, k) \/ QueueBackfill(p, k)
             \/ Conflicts(p) \/ CallFails(p) \/ ApplierDies(p)
      PROVE  AdoptionInv'
  <2>1. Conflicts(p) \/ CallFails(p) => applier[p].pc # "away" /\ FailOperation(p)
    BY DEF Conflicts, CallFails, AdoptionFaults
  <2> QED BY <1>3, <2>1, AdoptApplyAdoption, AdoptEnsureScope, AdoptLookForMapping, AdoptCreateLocal,
             AdoptAdoptScope, AdoptEnsurePrincipal, AdoptCompleteOperation, AdoptImportKey,
             AdoptQueueBackfill, AdoptFailOperation, AdoptApplierDies
<1>4. ASSUME NEW m \in Persons, LinkPrincipalMember(m) PROVE AdoptionInv'
  BY <1>4, AdoptSetPrincipal
<1>5. ASSUME NEW m \in Persons \cup {NoPerson}, SetPrincipalMember(m) PROVE AdoptionInv'
  BY <1>5, AdoptSetPrincipal
<1> QED BY <1>1, <1>2, <1>3, <1>4, <1>5 DEF AdoptionNext

\* The invariant of the adoption, for any number of requests, previews and keys.
THEOREM AdoptionInvariant == AdoptionSpec => []AdoptionInv
BY AdoptionStart, AdoptionStep, PTL DEF AdoptionSpec

\* An adoption on record as applied is whole, and the keys it has taken over
\* are booked to nobody but the member the principal is bound to.
THEOREM AdoptionSound == AdoptionSpec => []AdoptionIsSound
<1>1. AdoptionInv => AdoptionIsSound
  BY DEF AdoptionInv
<1> QED BY <1>1, AdoptionInvariant, PTL

LEMMA AppliedKept ==
    ASSUME AdoptionInv, [AdoptionNext]_adoptionVars
    PROVE  [\A o \in Ops : operation[o] = "applied" => operation'[o] = "applied"]_operation
<1>0. operation \in [Ops -> {"none", "started", "failed", "applied"}]
      /\ \A p \in Appliers : applier[p].pc # "away" => applier[p].op \in Ops
  BY DEF AdoptionInv, AdoptionTypeOK, ApplierHolds
<1>1. ASSUME NEW p \in Appliers, NEW o \in Ops, ApplyAdoption(p, o)
      PROVE  \A x \in Ops : operation[x] = "applied" => operation'[x] = "applied"
  BY <1>0, <1>1 DEF ApplyAdoption
<1>2. ASSUME NEW p \in Appliers, CompleteOperation(p)
      PROVE  \A x \in Ops : operation[x] = "applied" => operation'[x] = "applied"
  BY <1>0, <1>2 DEF CompleteOperation
<1>3. ASSUME NEW p \in Appliers, Conflicts(p) \/ CallFails(p)
      PROVE  \A x \in Ops : operation[x] = "applied" => operation'[x] = "applied"
  BY <1>0, <1>3 DEF Conflicts, CallFails, FailOperation
<1>4. \/ UNCHANGED operation
      \/ \E p \in Appliers : (\E o \in Ops : ApplyAdoption(p, o)) \/ CompleteOperation(p)
                             \/ Conflicts(p) \/ CallFails(p)
  BY DEF AdoptionNext, adoptionVars, UpstreamMoves, EnsureScope, LookForMapping, CreateLocal,
         AdoptScope, EnsurePrincipal, ImportKey, QueueBackfill, ApplierDies, LinkPrincipalMember,
         SetPrincipalMember
<1> QED BY <1>1, <1>2, <1>3, <1>4

\* A request that fails late does not undo an adoption that was completed.
THEOREM AppliedForGood == AdoptionSpec => AppliedStays
BY AppliedKept, AdoptionInvariant, PTL DEF AdoptionSpec, AppliedStays

\* Type correctness of the adoption.
THEOREM AdoptionTypeCorrect == AdoptionSpec => []AdoptionTypeOK
<1>1. AdoptionInv => AdoptionTypeOK
  BY DEF AdoptionInv
<1> QED BY <1>1, AdoptionInvariant, PTL

-----------------------------------------------------------------------------
(* The pilot's reconciliation.                                             *)

\* The script goes for the old membership only where it saw the new one; and
\* no credit of the pilot's is granted before the repair has taken over the
\* operator's.
PilotInv ==
  /\ PilotTypeOK /\ PilotIsSound
  /\ ScriptAt("leave") => "new" \in memberOf
  /\ mapping = "new" => reconciled
  /\ granting \/ "initial" \in ledger => reconciled
  /\ reconciled /\ "legacy" \in ledger => late
  /\ pilotWorker.into \in {"old", "new"} /\ script.into \in {"old", "new"}

LEMMA PilotStart == PilotInit => PilotInv
BY DEF PilotInit, PilotInv, PilotTypeOK, PilotIsSound, NeverOrphaned, CreditGrantedOnce, ScriptAt, Still

LEMMA PilotStep == PilotInv /\ [PilotNext]_pilotVars => PilotInv'
<1> SUFFICES ASSUME PilotInv, [PilotNext]_pilotVars PROVE PilotInv'
  OBVIOUS
<1> USE DEF PilotInv, PilotTypeOK, PilotIsSound, NeverOrphaned, CreditGrantedOnce, ScriptAt, jobRows,
            creditVars
<1>1. CASE UNCHANGED pilotVars
  BY <1>1 DEF pilotVars
<1>2. CASE BuildPreview
  BY <1>2 DEF BuildPreview
<1>3. CASE ReconcilePilotState
  BY <1>3 DEF ReconcilePilotState, AdoptedCredit, Superseded, ScriptGoes
<1>4. CASE ImportPilotKeys
  BY <1>4 DEF ImportPilotKeys, ScriptGoes
<1>5. CASE ScriptProvisions
  BY <1>5 DEF ScriptProvisions
<1>6. CASE ScriptJoins
  BY <1>6 DEF ScriptJoins, JoinAndActivate, ScriptGoes
<1>7. CASE ScriptActivates
  BY <1>7 DEF ScriptActivates, ScriptGoes
<1>8. CASE ConfirmMembership
  BY <1>8 DEF ConfirmMembership, Confirmed, ScriptGoes
<1>9. CASE RemoveLegacyMembership
  BY <1>9 DEF RemoveLegacyMembership, Still
<1>10. CASE ScriptFails
  BY <1>10 DEF ScriptFails, Still, PilotFault
<1>11. CASE WorkerClaims
  BY <1>11 DEF WorkerClaims
<1>12. CASE WorkerJoins
  BY <1>12 DEF WorkerJoins, JoinAndActivate
<1>13. CASE WorkerActivates
  BY <1>13 DEF WorkerActivates, WorkerEnds, Still
<1>14. CASE WorkerFails
  BY <1>14 DEF WorkerFails, WorkerEnds, PilotFault, Still
<1>15. CASE OperatorGrants
  BY <1>15 DEF OperatorGrants
<1>16. CASE CheckCredit
  BY <1>16 DEF CheckCredit
<1>17. CASE GrantCredit
  BY <1>17 DEF GrantCredit
<1> QED BY <1>1, <1>2, <1>3, <1>4, <1>5, <1>6, <1>7, <1>8, <1>9, <1>10, <1>11, <1>12, <1>13, <1>14,
           <1>15, <1>16, <1>17 DEF PilotNext

\* The invariant of the repair.
THEOREM PilotInvariant == PilotSpec => []PilotInv
BY PilotStart, PilotStep, PTL DEF PilotSpec

\* The administrator is in the new organization before he leaves the old one,
\* and the pilot's credit is granted once, wherever the script or the worker dies.
THEOREM PilotSound == PilotSpec => []PilotIsSound
<1>1. PilotInv => PilotIsSound
  BY DEF PilotInv
<1> QED BY <1>1, PilotInvariant, PTL

\* Type correctness of the repair.
THEOREM PilotTypeCorrect == PilotSpec => []PilotTypeOK
<1>1. PilotInv => PilotTypeOK
  BY DEF PilotInv
<1> QED BY <1>1, PilotInvariant, PTL

-----------------------------------------------------------------------------
(* The demonstration store.                                                *)

TenantRows == [status : {"none", "active", "suspended", "archived"}, topups : Nat, balance : Nat]
OfficeRows == [tenant : Tenants \union {NoTenant}, status : {"none", "active", "archived"}]
StaffRows == [office : Offices, address : Addresses, admin : BOOLEAN,
              status : {"none", "invited", "active", "suspended", "removed"}]
DemoTokenRows == [tenant : Tenants \union {NoTenant}, member : Staff \union {NoTenant},
                  status : {"none", "active", "revoked"}, deleted : BOOLEAN]
BoardRequests == [pc : {"idle", "keyed", "built"}, tenant : Tenants \union {NoTenant},
                  key : BOOLEAN, data : BOOLEAN]

DirectoryTyped ==
  /\ tenant \in [Tenants -> TenantRows] /\ office \in [Offices -> OfficeRows]
  /\ staff \in [Staff -> StaffRows] /\ demoToken \in [DemoTokens -> DemoTokenRows]
  /\ reseeded \in BOOLEAN /\ demoEdits \in 0..MaxDemoEdits

\* What a reset of one customer relies on: the seed's administrator and department
\* are the customer's, no member row is without a department row, and the member of
\* a working token is of the customer that issued it.
RowsBelong ==
  /\ office[SeedOffice].tenant = SeedTenant /\ office[SeedOffice].status # "none"
  /\ staff[SeedAdmin].status # "none" /\ TenantOf(SeedAdmin) = SeedTenant
  /\ \A m \in Staff : office[staff[m].office].status # "none"
  /\ \A t \in DemoTokens : demoToken[t].status = "active" /\ demoToken[t].member # NoTenant =>
       TenantOf(demoToken[t].member) = demoToken[t].tenant

\* What the rows of the customers promise.
DirectoryHolds ==
  /\ DirectoryTyped /\ RowsBelong
  /\ AdminRemains /\ OneMembership /\ LiveStaffHasOffice /\ DemoTokensEnd
  /\ \A o \in Tenants : IsFiniteSet(Visible(o))

\* A board that was built under the revision of now shows the directory of now.
BoardsHold ==
  /\ board \in [Tenants -> {"none", "current", "old"}]
  /\ boardReader \in [BoardReaders -> BoardRequests] /\ BoardsAreCurrent
  /\ \A r \in BoardReaders : boardReader[r].pc = "built" /\ boardReader[r].key => boardReader[r].data

DemoInv == DirectoryHolds /\ BoardsHold

\* The seed.
LEMMA SeedRows ==
  /\ SeedStaff \in [Staff -> StaffRows]
  /\ \A m \in Staff : /\ SeedStaff[m].office = SeedOffice
                      /\ SeedStaff[m].status # "none" => m \in {SeedAdmin, SeedGuest}
                      /\ SeedStaff[m].status \in {"none", "invited", "active"}
  /\ SeedStaff[SeedAdmin].status = "active" /\ SeedStaff[SeedAdmin].admin
  /\ SeedStaff[SeedAdmin].address # SeedStaff[SeedGuest].address
<1> USE DemoAssumption
<1>1. PICK a, g : /\ a = [NoStaff EXCEPT !.admin = TRUE, !.status = "active"]
                  /\ g = [NoStaff EXCEPT !.address = GuestAddress, !.status = "invited"]
  OBVIOUS
<1>2. /\ a \in StaffRows /\ a.office = SeedOffice /\ a.status = "active" /\ a.admin /\ a.address = SeedAddress
      /\ g \in StaffRows /\ g.office = SeedOffice /\ g.status = "invited" /\ g.address = GuestAddress
      /\ NoStaff \in StaffRows /\ NoStaff.office = SeedOffice /\ NoStaff.status = "none"
  BY <1>1 DEF NoStaff, StaffRows
<1>3. SeedStaff = [m \in Staff |-> CASE m = SeedAdmin -> a [] m = SeedGuest -> g [] OTHER -> NoStaff]
  BY <1>1 DEF SeedStaff
<1>4. ASSUME NEW m \in Staff
      PROVE  SeedStaff[m] = IF m = SeedAdmin THEN a ELSE IF m = SeedGuest THEN g ELSE NoStaff
  BY <1>3
<1>5. SeedStaff \in [Staff -> StaffRows]
  BY <1>2, <1>3, <1>4
<1> QED BY <1>2, <1>4, <1>5

LEMMA SeedHolds ==
    tenant = SeedTenants /\ office = SeedOffices /\ staff = SeedStaff
      /\ demoToken = [t \in DemoTokens |-> NoToken] /\ reseeded = FALSE
      /\ demoEdits \in 0..MaxDemoEdits
    => DirectoryHolds
<1> SUFFICES ASSUME tenant = SeedTenants, office = SeedOffices, staff = SeedStaff, reseeded = FALSE,
                    demoToken = [t \in DemoTokens |-> NoToken], demoEdits \in 0..MaxDemoEdits
             PROVE  DirectoryHolds
  OBVIOUS
<1> USE DemoAssumption
<1>1. /\ Opened \in TenantRows /\ [Opened EXCEPT !.status = "none"] \in TenantRows
      /\ NoRow \in OfficeRows /\ [tenant |-> SeedTenant, status |-> "active"] \in OfficeRows
      /\ NoStaff \in StaffRows /\ [NoStaff EXCEPT !.admin = TRUE, !.status = "active"] \in StaffRows
      /\ [NoStaff EXCEPT !.address = GuestAddress, !.status = "invited"] \in StaffRows
      /\ NoToken \in DemoTokenRows
  BY DEF Opened, NoRow, NoStaff, NoToken, TenantRows, OfficeRows, StaffRows, DemoTokenRows
<1>0. SeedStaff \in [Staff -> StaffRows]
  BY <1>1, SeedRows
<1>2. DirectoryTyped
  BY <1>0, <1>1 DEF DirectoryTyped, SeedTenants, SeedOffices
<1>3. /\ \A o \in Tenants : tenant[o].status # "none" => o = SeedTenant
      /\ \A m \in Staff : staff[m].status # "none" => m \in {SeedAdmin, SeedGuest}
      /\ \A m \in Staff : staff[m].office = SeedOffice
      /\ staff[SeedAdmin].status = "active" /\ staff[SeedAdmin].admin
      /\ staff[SeedAdmin].address # staff[SeedGuest].address
      /\ office[SeedOffice].tenant = SeedTenant /\ office[SeedOffice].status = "active"
  BY SeedRows DEF SeedTenants, SeedOffices, Opened
<1>9. RowsBelong
  BY <1>3 DEF RowsBelong, TenantOf, NoToken
<1>4. AdminRemains /\ OneMembership /\ LiveStaffHasOffice
  BY <1>3 DEF AdminRemains, OneMembership, LiveStaffHasOffice, TenantOf, Present, Live
<1>5. \A o \in Tenants : Visible(o) = {}
  BY DEF Visible, NoToken
<1>6. DemoTokensEnd /\ \A o \in Tenants : IsFiniteSet(Visible(o))
  <2>1. \A t \in DemoTokens : demoToken[t].status = "none"
    BY DEF NoToken
  <2>2. \A o \in Tenants : IsFiniteSet(Visible(o)) /\ Cardinality(Visible(o)) <= MaxTokens
    BY <1>5, FS_EmptySet
  <2> QED BY <2>1, <2>2 DEF DemoTokensEnd
<1> QED BY <1>2, <1>4, <1>6, <1>9 DEF DirectoryHolds

LEMMA DemoStart == DemoInit => DemoInv
<1> SUFFICES ASSUME DemoInit PROVE DemoInv
  OBVIOUS
<1>1. NoBoardRequest \in BoardRequests
  BY DEF NoBoardRequest, BoardRequests
<1>2. BoardsHold
  BY <1>1 DEF DemoInit, BoardsHold, BoardsAreCurrent, NoBoardRequest
<1>3. DirectoryHolds
  BY SeedHolds, DemoAssumption DEF DemoInit
<1> QED BY <1>2, <1>3 DEF DemoInv

-----------------------------------------------------------------------------
(* The boards.                                                             *)

LEMMA RequestStays ==
  \A b \in BoardRequests, x \in BOOLEAN :
    /\ [b EXCEPT !.key = FALSE, !.data = x] \in BoardRequests
    /\ [b EXCEPT !.key = FALSE, !.data = x].key = FALSE
    /\ [b EXCEPT !.pc = "built", !.data = TRUE] \in BoardRequests
    /\ [b EXCEPT !.pc = "built", !.data = TRUE].data = TRUE
  BY DEF BoardRequests

\* A change moves the revision of its customer and touches no other.
LEMMA TouchedHolds ==
    ASSUME BoardsHold, NEW o, Touched(o)
    PROVE  BoardsHold'
<1>1. board' \in [Tenants -> {"none", "current", "old"}] /\ BoardsAreCurrent'
  BY DEF BoardsHold, Touched, BoardsAreCurrent
<1>2. ASSUME NEW r \in BoardReaders
      PROVE  /\ boardReader'[r] \in BoardRequests
             /\ boardReader'[r] = boardReader[r] \/ boardReader'[r].key = FALSE
  <2>1. PICK b \in BoardRequests : b = boardReader[r]
    BY DEF BoardsHold
  <2>2. PICK c : c = [b EXCEPT !.key = FALSE, !.data = FALSE]
    OBVIOUS
  <2>3. c \in BoardRequests /\ c.key = FALSE
    BY <2>2, RequestStays
  <2> QED BY <2>1, <2>2, <2>3 DEF Touched
<1>3. boardReader' \in [BoardReaders -> BoardRequests]
  BY <1>2 DEF Touched
<1> QED BY <1>1, <1>2, <1>3 DEF BoardsHold

LEMMA ReadRevisionHolds ==
    ASSUME BoardsHold, NEW r \in BoardReaders, NEW o \in Tenants, ReadRevision(r, o)
    PROVE  BoardsHold'
<1>1. PICK b : b = [pc |-> "keyed", tenant |-> o, key |-> TRUE, data |-> FALSE]
  OBVIOUS
<1>2. b \in BoardRequests /\ b.pc = "keyed"
  BY <1>1 DEF BoardRequests
<1>3. boardReader' = [boardReader EXCEPT ![r] = b] /\ board' = board
  BY <1>1 DEF ReadRevision
<1> QED BY <1>2, <1>3 DEF BoardsHold, BoardsAreCurrent

LEMMA BuildBoardHolds ==
    ASSUME BoardsHold, NEW r \in BoardReaders, BuildBoard(r)
    PROVE  BoardsHold'
<1>1. PICK b \in BoardRequests : b = boardReader[r]
  BY DEF BoardsHold
<1>2. PICK c : c = [b EXCEPT !.pc = "built", !.data = TRUE]
  OBVIOUS
<1>3. c \in BoardRequests /\ c.data = TRUE
  BY <1>2, RequestStays
<1>4. boardReader' = [boardReader EXCEPT ![r] = c] /\ board' = board
  BY <1>1, <1>2 DEF BuildBoard
<1> QED BY <1>3, <1>4 DEF BoardsHold, BoardsAreCurrent

LEMMA StoreBoardHolds ==
    ASSUME BoardsHold, NEW r \in BoardReaders, StoreBoard(r)
    PROVE  BoardsHold'
<1>1. board' \in [Tenants -> {"none", "current", "old"}] /\ BoardsAreCurrent'
  BY DEF BoardsHold, StoreBoard, BoardsAreCurrent, Reading, BoardRequests
<1>2. NoBoardRequest \in BoardRequests /\ NoBoardRequest.pc = "idle"
  BY DEF NoBoardRequest, BoardRequests
<1>3. boardReader' = [boardReader EXCEPT ![r] = NoBoardRequest]
  BY DEF StoreBoard
<1> QED BY <1>1, <1>2, <1>3 DEF BoardsHold

\* A new seed, and a cache that is cleared or runs out of time.
LEMMA BoardsCleared ==
    ASSUME BoardsHold, board' = [o \in Tenants |-> "none"],
           \/ boardReader' = [r \in BoardReaders |-> [boardReader[r] EXCEPT !.key = FALSE, !.data = FALSE]]
           \/ boardReader' = boardReader
    PROVE  BoardsHold'
<1>1. board' \in [Tenants -> {"none", "current", "old"}] /\ BoardsAreCurrent'
  BY DEF BoardsAreCurrent
<1>2. CASE boardReader' = [r \in BoardReaders |-> [boardReader[r] EXCEPT !.key = FALSE, !.data = FALSE]]
  <2>1. ASSUME NEW r \in BoardReaders
        PROVE  boardReader'[r] \in BoardRequests /\ boardReader'[r].key = FALSE
    <3>1. PICK b \in BoardRequests : b = boardReader[r]
      BY DEF BoardsHold
    <3>2. boardReader'[r] = [b EXCEPT !.key = FALSE, !.data = FALSE]
      BY <1>2, <3>1
    <3> QED BY <3>2, RequestStays
  <2> QED BY <1>1, <1>2, <2>1 DEF BoardsHold
<1>3. CASE boardReader' = boardReader
  BY <1>1, <1>3 DEF BoardsHold
<1> QED BY <1>2, <1>3

LEMMA BoardsUntouched == BoardsHold /\ UNCHANGED boardVars => BoardsHold'
  BY DEF BoardsHold, boardVars, BoardsAreCurrent

-----------------------------------------------------------------------------
(* The directory.                                                          *)

LEMMA Revise == DirectoryHolds /\ Edit => demoEdits' \in 0..MaxDemoEdits
  BY DemoAssumption DEF DirectoryHolds, DirectoryTyped, Edit

\* Tokens that stay are as good as before while nobody leaves.
LEMMA TokensStay ==
    ASSUME DirectoryHolds, demoToken' = demoToken, \A m \in Staff : Present(m) => Present(m)'
    PROVE  DemoTokensEnd' /\ \A o \in Tenants : IsFiniteSet(Visible(o))'
<1>1. \A o \in Tenants : Visible(o)' = Visible(o)
  BY DEF Visible
<1>2. \A t \in DemoTokens : demoToken[t].member = NoTenant \/ demoToken[t].member \in Staff
  BY DEF DirectoryHolds, DirectoryTyped, DemoTokenRows
<1>3. (\A t \in DemoTokens : demoToken[t].status = "active" =>
         demoToken[t].member = NoTenant \/ Present(demoToken[t].member))
      /\ \A o \in Tenants : IsFiniteSet(Visible(o)) /\ Cardinality(Visible(o)) <= MaxTokens
  BY DEF DirectoryHolds, DemoTokensEnd
<1>4. \A o \in Tenants : IsFiniteSet(Visible(o))' /\ Cardinality(Visible(o))' <= MaxTokens
  BY <1>1, <1>3
<1>5. ASSUME NEW t \in DemoTokens, demoToken'[t].status = "active", demoToken'[t].member # NoTenant
      PROVE  Present(demoToken[t].member)'
  <2>1. PICK m \in Staff : m = demoToken[t].member /\ Present(m)
    BY <1>2, <1>3, <1>5
  <2>2. Present(m)'
    BY <2>1
  <2> QED BY <2>1, <2>2 DEF Present
<1> QED BY <1>4, <1>5 DEF DemoTokensEnd

\* Rows that exist stay where they belong.
LEMMA BelongStays ==
    ASSUME DirectoryHolds,
           \A d \in Offices : office[d].status # "none" =>
             office'[d].status # "none" /\ office'[d].tenant = office[d].tenant,
           \A m \in Staff : staff[m].status # "none" =>
             /\ staff'[m].status # "none"
             /\ office'[staff'[m].office].tenant = office[staff[m].office].tenant,
           \A m \in Staff : office'[staff'[m].office].status # "none",
           \A t \in DemoTokens : demoToken'[t].status = "active" =>
             /\ demoToken[t].status = "active"
             /\ demoToken'[t].member = demoToken[t].member /\ demoToken'[t].tenant = demoToken[t].tenant
    PROVE  RowsBelong'
<1>1. /\ office'[SeedOffice].tenant = SeedTenant /\ office'[SeedOffice].status # "none"
      /\ staff'[SeedAdmin].status # "none" /\ office'[staff'[SeedAdmin].office].tenant = SeedTenant
  BY DemoAssumption DEF DirectoryHolds, RowsBelong, TenantOf
<1>2. ASSUME NEW t \in DemoTokens, demoToken'[t].status = "active", demoToken'[t].member # NoTenant
      PROVE  office'[staff'[demoToken'[t].member].office].tenant = demoToken'[t].tenant
  <2>1. PICK m \in Staff : m = demoToken[t].member /\ Present(m) /\ TenantOf(m) = demoToken[t].tenant
    BY <1>2 DEF DirectoryHolds, DirectoryTyped, DemoTokenRows, DemoTokensEnd, RowsBelong
  <2> QED BY <1>2, <2>1 DEF Present, TenantOf
<1> QED BY <1>1, <1>2 DEF RowsBelong, TenantOf

\* The status of a customer, or its balance.
LEMMA TenantsMove ==
    ASSUME DirectoryHolds, Edit, tenant' \in [Tenants -> TenantRows],
           \A o \in Tenants : tenant'[o].status # "none" => tenant[o].status # "none",
           UNCHANGED <<office, staff, demoToken, reseeded>>
    PROVE  DirectoryHolds'
<1>1. DemoTokensEnd' /\ \A o \in Tenants : IsFiniteSet(Visible(o))'
  BY TokensStay DEF Present
<1>2. DirectoryTyped'
  BY Revise DEF DirectoryHolds, DirectoryTyped
<1>3. (AdminRemains /\ OneMembership /\ LiveStaffHasOffice /\ RowsBelong)'
  BY DEF DirectoryHolds, AdminRemains, OneMembership, LiveStaffHasOffice, RowsBelong, TenantOf, Present
<1> QED BY <1>1, <1>2, <1>3 DEF DirectoryHolds

LEMMA TenantEdits ==
  \A x \in TenantRows, s \in {"none", "active", "suspended", "archived"}, n \in Nat, k \in Nat :
    /\ [x EXCEPT !.status = s] \in TenantRows
    /\ [x EXCEPT !.topups = n, !.balance = k] \in TenantRows
    /\ [x EXCEPT !.topups = n, !.balance = k].status = x.status
  BY DEF TenantRows

LEMMA TenantStatusStep ==
    ASSUME DirectoryHolds, Edit, NEW o \in Tenants, tenant[o].status # "none",
           NEW s \in {"active", "suspended", "archived"}, tenant' = [tenant EXCEPT ![o].status = s],
           UNCHANGED <<office, staff, demoToken, reseeded>>
    PROVE  DirectoryHolds'
<1>1. PICK x \in TenantRows : x = tenant[o]
  BY DEF DirectoryHolds, DirectoryTyped
<1>2. PICK y : y = [x EXCEPT !.status = s]
  OBVIOUS
<1>3. y \in TenantRows
  BY <1>2, TenantEdits
<1>4. tenant' = [tenant EXCEPT ![o] = y]
  BY <1>1, <1>2
<1>5. /\ tenant' \in [Tenants -> TenantRows]
      /\ \A p \in Tenants : tenant'[p].status # "none" => tenant[p].status # "none"
  BY <1>3, <1>4 DEF DirectoryHolds, DirectoryTyped
<1> QED BY <1>5, TenantsMove

LEMMA SimulateTopupStep ==
    ASSUME DirectoryHolds, NEW o \in Tenants, SimulateTopup(o)
    PROVE  DirectoryHolds'
<1>1. PICK x \in TenantRows : x = tenant[o]
  BY DEF DirectoryHolds, DirectoryTyped
<1>0. PICK n \in Nat, k \in Nat : n = x.topups + 1 /\ k = x.balance + 1
  BY DEF TenantRows
<1>2. PICK y : y = [x EXCEPT !.topups = n, !.balance = k]
  OBVIOUS
<1>3. y \in TenantRows
  BY <1>2, TenantEdits
<1>4. tenant' = [tenant EXCEPT ![o] = y] /\ x.status # "none"
  BY <1>0, <1>1, <1>2 DEF SimulateTopup, Operating
<1>5. /\ tenant' \in [Tenants -> TenantRows]
      /\ \A p \in Tenants : tenant'[p].status # "none" => tenant[p].status # "none"
  BY <1>1, <1>3, <1>4 DEF DirectoryHolds, DirectoryTyped
<1> QED BY <1>5, TenantsMove DEF SimulateTopup

\* A department is opened, or one without live members archived: whoever is live
\* keeps the department and the customer.
LEMMA OfficesMove ==
    ASSUME DirectoryHolds, Edit, office' \in [Offices -> OfficeRows],
           \A d \in Offices : (\E m \in Staff : staff[m].office = d /\ staff[m].status \in Live)
                                => office'[d] = office[d],
           \A d \in Offices : office[d].status # "none" =>
             office'[d].status # "none" /\ office'[d].tenant = office[d].tenant,
           UNCHANGED <<tenant, staff, demoToken, reseeded>>
    PROVE  DirectoryHolds'
<1>1. DemoTokensEnd' /\ \A o \in Tenants : IsFiniteSet(Visible(o))'
  BY TokensStay DEF Present
<1>2. DirectoryTyped'
  BY Revise DEF DirectoryHolds, DirectoryTyped
<1>3. \A m \in Staff : staff[m].status \in Live => office'[staff[m].office] = office[staff[m].office]
  BY DEF DirectoryHolds, DirectoryTyped, StaffRows
<1>4. (OneMembership /\ LiveStaffHasOffice)'
  BY <1>3 DEF DirectoryHolds, OneMembership, LiveStaffHasOffice, Present
<1>5. AdminRemains'
  BY <1>3 DEF DirectoryHolds, AdminRemains, TenantOf, Live
<1>6. \A m \in Staff : /\ office'[staff[m].office].status # "none"
                       /\ office'[staff[m].office].tenant = office[staff[m].office].tenant
  BY DEF DirectoryHolds, DirectoryTyped, StaffRows, RowsBelong
<1>7. RowsBelong'
  BY <1>6, BelongStays
<1> QED BY <1>1, <1>2, <1>4, <1>5, <1>7 DEF DirectoryHolds

LEMMA CreateOfficeStep ==
    ASSUME DirectoryHolds, NEW o \in Tenants, NEW d \in Offices, CreateOffice(o, d)
    PROVE  DirectoryHolds'
<1>1. PICK x : x = [tenant |-> o, status |-> "active"]
  OBVIOUS
<1>2. x \in OfficeRows /\ office' = [office EXCEPT ![d] = x] /\ office[d].status = "none"
  BY <1>1 DEF OfficeRows, CreateOffice
<1>3. \A m \in Staff : staff[m].status \in Live => staff[m].office # d
  BY <1>2 DEF DirectoryHolds, LiveStaffHasOffice
<1>4. \A e \in Offices : office[e].status # "none" =>
        office'[e].status # "none" /\ office'[e].tenant = office[e].tenant
  BY <1>2 DEF DirectoryHolds, DirectoryTyped
<1> QED BY <1>2, <1>3, <1>4, OfficesMove DEF CreateOffice, DirectoryHolds, DirectoryTyped

LEMMA ArchiveOfficeStep ==
    ASSUME DirectoryHolds, NEW d \in Offices, ArchiveOffice(d)
    PROVE  DirectoryHolds'
<1>1. PICK x \in OfficeRows : x = office[d]
  BY DEF DirectoryHolds, DirectoryTyped
<1>2. PICK y : y = [x EXCEPT !.status = "archived"]
  OBVIOUS
<1>3. y \in OfficeRows
  BY <1>2 DEF OfficeRows
<1>4. office' = [office EXCEPT ![d] = y]
  BY <1>1, <1>2 DEF ArchiveOffice
<1>5. \A e \in Offices : office[e].status # "none" =>
        office'[e].status # "none" /\ office'[e].tenant = office[e].tenant
  <2>1. y.status # "none" /\ y.tenant = x.tenant
    BY <1>2 DEF OfficeRows
  <2> QED BY <1>1, <1>4, <2>1 DEF DirectoryHolds, DirectoryTyped
<1> QED BY <1>3, <1>4, <1>5, OfficesMove DEF ArchiveOffice, DirectoryHolds, DirectoryTyped

\* A new administrator of a new customer.
LEMMA CreateTenantStep ==
    ASSUME DirectoryHolds, NEW o \in Tenants, NEW d \in Offices, NEW m \in Staff, NEW a \in Addresses,
           CreateTenant(o, d, m, a)
    PROVE  DirectoryHolds'
<1>1. PICK x, y, z : /\ x = Opened /\ y = [tenant |-> o, status |-> "active"]
                     /\ z = [office |-> d, address |-> a, admin |-> TRUE, status |-> "active"]
  OBVIOUS
<1>2. x \in TenantRows /\ y \in OfficeRows /\ z \in StaffRows
  BY <1>1 DEF Opened, TenantRows, OfficeRows, StaffRows
<1>3. /\ tenant' = [tenant EXCEPT ![o] = x] /\ office' = [office EXCEPT ![d] = y]
      /\ staff' = [staff EXCEPT ![m] = z] /\ UNCHANGED <<demoToken, reseeded>> /\ Edit
      /\ office[d].status = "none" /\ staff[m].status = "none" /\ ~Assigned(a)
  BY <1>1 DEF CreateTenant
<1>4. DirectoryTyped'
  BY <1>2, <1>3, Revise DEF DirectoryHolds, DirectoryTyped
<1>5. /\ staff'[m] = z /\ \A n \in Staff : n # m => staff'[n] = staff[n]
      /\ office'[d] = y /\ \A e \in Offices : e # d => office'[e] = office[e]
      /\ \A p \in Tenants : p # o => tenant'[p] = tenant[p]
      /\ z.office = d /\ z.address = a /\ z.admin /\ z.status = "active" /\ y.tenant = o /\ y.status = "active"
  BY <1>1, <1>3 DEF DirectoryHolds, DirectoryTyped
<1>6. \A n \in Staff : staff[n].status \in Live => staff[n].office # d /\ n # m /\ staff[n].office \in Offices
  BY <1>3 DEF DirectoryHolds, DirectoryTyped, StaffRows, LiveStaffHasOffice, Live
<1>7. DemoTokensEnd' /\ \A p \in Tenants : IsFiniteSet(Visible(p))'
  BY <1>3, <1>5, TokensStay DEF Present
<1>8. LiveStaffHasOffice'
  BY <1>5, <1>6 DEF DirectoryHolds, LiveStaffHasOffice
<1>9. OneMembership'
  BY <1>3, <1>5 DEF DirectoryHolds, OneMembership, Present, Assigned
<1>10. ASSUME NEW p \in Tenants, tenant'[p].status # "none"
       PROVE  \E n \in Staff : staff'[n].status = "active" /\ staff'[n].admin /\ office'[staff'[n].office].tenant = p
  <2>1. CASE p = o
    BY <1>5, <2>1
  <2>2. CASE p # o
    <3>1. PICK n \in Staff : staff[n].status = "active" /\ staff[n].admin /\ office[staff[n].office].tenant = p
      BY <1>5, <1>10, <2>2 DEF DirectoryHolds, AdminRemains, TenantOf
    <3> QED BY <1>5, <1>6, <3>1 DEF Live
  <2> QED BY <2>1, <2>2
<1>11. AdminRemains'
  BY <1>10 DEF AdminRemains, TenantOf
<1>12. \A n \in Staff : n # m =>
         /\ office'[staff'[n].office].status # "none"
         /\ office'[staff'[n].office].tenant = office[staff[n].office].tenant
  <2>1. \A n \in Staff : staff[n].office \in Offices /\ staff[n].office # d
    BY <1>3 DEF DirectoryHolds, DirectoryTyped, StaffRows, RowsBelong
  <2> QED BY <2>1, <1>5 DEF DirectoryHolds, RowsBelong
<1>13. \A e \in Offices : office[e].status # "none" =>
         office'[e].status # "none" /\ office'[e].tenant = office[e].tenant
  BY <1>3, <1>5
<1>14. \A n \in Staff : staff[n].status # "none" =>
         /\ staff'[n].status # "none"
         /\ office'[staff'[n].office].tenant = office[staff[n].office].tenant
  BY <1>3, <1>5, <1>12
<1>15. \A n \in Staff : office'[staff'[n].office].status # "none"
  <2>1. office'[staff'[m].office].status # "none"
    BY <1>5
  <2> QED BY <1>12, <2>1
<1>16. \A t \in DemoTokens : demoToken'[t].status = "active" =>
         /\ demoToken[t].status = "active"
         /\ demoToken'[t].member = demoToken[t].member /\ demoToken'[t].tenant = demoToken[t].tenant
  BY <1>3
<1>17. RowsBelong'
  BY <1>13, <1>14, <1>15, <1>16, BelongStays
<1> QED BY <1>4, <1>7, <1>8, <1>9, <1>11, <1>17 DEF DirectoryHolds


\* The seed again.
LEMMA ResetStep == DirectoryHolds /\ ResetDemo => DirectoryHolds'
<1>1. DirectoryHolds /\ ResetDemo
      => (tenant = SeedTenants /\ office = SeedOffices /\ staff = SeedStaff
            /\ demoToken = [t \in DemoTokens |-> NoToken] /\ reseeded = FALSE
            /\ demoEdits \in 0..MaxDemoEdits)'
  BY Revise DEF ResetDemo, SeedTenants, SeedOffices, SeedStaff
<1> QED BY <1>1, SeedHolds, PTL

\* One customer is the seed's again: whoever is left of the others is as before, and
\* only a member of the seed can have an address that another row has.
LEMMA ResetTenantStep ==
    ASSUME DirectoryHolds, NEW o \in Tenants, ResetTenant(o)
    PROVE  DirectoryHolds'
<1> USE DemoAssumption
<1>1. /\ o = SeedTenant /\ Edit /\ reseeded' = TRUE /\ DirectoryTyped
      /\ tenant' = [tenant EXCEPT ![o] = SeedTenants[o]]
      /\ \A d \in Offices : office'[d] = IF office[d].tenant = o THEN SeedOffices[d] ELSE office[d]
      /\ \A m \in Staff : staff'[m] = IF TenantOf(m) = o THEN SeedStaff[m] ELSE staff[m]
      /\ \A t \in DemoTokens : demoToken'[t] = IF demoToken[t].tenant = o THEN NoToken ELSE demoToken[t]
  BY DEF ResetTenant, DirectoryHolds
<1>2. DirectoryTyped'
  <2>1. SeedTenants[o] \in TenantRows /\ NoToken \in DemoTokenRows
        /\ SeedOffices \in [Offices -> OfficeRows]
    BY <1>1 DEF SeedTenants, Opened, TenantRows, NoToken, DemoTokenRows, SeedOffices, NoRow, OfficeRows
  <2>2. tenant' \in [Tenants -> TenantRows]
    BY <1>1, <2>1 DEF DirectoryTyped
  <2>3. office' \in [Offices -> OfficeRows]
    BY <2>1 DEF ResetTenant, DirectoryHolds, DirectoryTyped
  <2>4. staff' \in [Staff -> StaffRows]
    BY SeedRows DEF ResetTenant, DirectoryHolds, DirectoryTyped
  <2>5. demoToken' \in [DemoTokens -> DemoTokenRows]
    BY <2>1 DEF ResetTenant, DirectoryHolds, DirectoryTyped
  <2>6. demoEdits' \in 0..MaxDemoEdits
    BY <1>1, Revise
  <2> QED BY <2>2, <2>3, <2>4, <2>5, <2>6, <1>1 DEF DirectoryTyped
<1>3. /\ office'[SeedOffice].tenant = SeedTenant /\ office'[SeedOffice].status = "active"
      /\ staff'[SeedAdmin] = SeedStaff[SeedAdmin]
  BY <1>1 DEF DirectoryHolds, RowsBelong, SeedOffices
<1>4. ASSUME NEW m \in Staff
      PROVE  /\ TenantOf(m) = o => staff'[m] = SeedStaff[m] /\ office'[staff'[m].office].tenant = o
                                   /\ office'[staff'[m].office].status = "active"
             /\ TenantOf(m) # o => /\ staff'[m] = staff[m]
                                   /\ office'[staff'[m].office] = office[staff[m].office]
  <2>1. staff[m].office \in Offices
    BY <1>1 DEF DirectoryTyped, StaffRows
  <2> QED BY <1>1, <1>3, <2>1, SeedRows DEF TenantOf
<1>5. ASSUME NEW t \in DemoTokens, demoToken'[t].status = "active"
      PROVE  /\ demoToken'[t] = demoToken[t] /\ demoToken[t].tenant # o
             /\ demoToken[t].member # NoTenant =>
                  /\ demoToken[t].member \in Staff /\ Present(demoToken[t].member)
                  /\ TenantOf(demoToken[t].member) = demoToken[t].tenant
                  /\ TenantOf(demoToken[t].member) # o
  <2>1. demoToken'[t] = demoToken[t] /\ demoToken[t].tenant # o
    BY <1>1, <1>5 DEF NoToken
  <2> QED BY <1>5, <2>1 DEF DirectoryHolds, DirectoryTyped, DemoTokenRows, DemoTokensEnd, RowsBelong
<1>6. RowsBelong'
  <2>1. \A m \in Staff : office'[staff'[m].office].status # "none"
    BY <1>4 DEF DirectoryHolds, RowsBelong
  <2>2. \A t \in DemoTokens : demoToken'[t].status = "active" /\ demoToken'[t].member # NoTenant =>
          office'[staff'[demoToken'[t].member].office].tenant = demoToken'[t].tenant
    BY <1>4, <1>5 DEF TenantOf
  <2>3. staff'[SeedAdmin].office = SeedOffice /\ staff'[SeedAdmin].status = "active"
    BY <1>3, SeedRows
  <2> QED BY <2>1, <2>2, <2>3, <1>3 DEF RowsBelong, TenantOf
<1>7. AdminRemains'
  <2>1. ASSUME NEW p \in Tenants, tenant'[p].status # "none"
        PROVE  \E n \in Staff : /\ staff'[n].status = "active" /\ staff'[n].admin
                                /\ office'[staff'[n].office].tenant = p
    <3>1. CASE p = o
      <4>1. staff'[SeedAdmin].office = SeedOffice /\ staff'[SeedAdmin].status = "active" /\ staff'[SeedAdmin].admin
        BY <1>3, SeedRows
      <4> QED BY <4>1, <3>1, <1>1, <1>3
    <3>2. CASE p # o
      <4>1. tenant[p].status # "none"
        BY <2>1, <3>2, <1>1 DEF DirectoryTyped
      <4>2. PICK n \in Staff : staff[n].status = "active" /\ staff[n].admin /\ TenantOf(n) = p
        BY <4>1 DEF DirectoryHolds, AdminRemains
      <4> QED BY <4>2, <3>2, <1>4 DEF TenantOf
    <3> QED BY <3>1, <3>2
  <2> QED BY <2>1 DEF AdminRemains, TenantOf
<1>8. OneMembership'
  <2>1. ASSUME NEW m \in Staff, NEW n \in Staff, staff'[m].status \notin {"none", "removed"},
               staff'[n].status \notin {"none", "removed"}, staff'[m].address = staff'[n].address,
               m \notin {SeedAdmin, SeedGuest}, n \notin {SeedAdmin, SeedGuest}
        PROVE  m = n
    <3>1. staff'[m] = staff[m] /\ staff'[n] = staff[n]
      BY <2>1, <1>4, SeedRows
    <3> QED BY <2>1, <3>1 DEF DirectoryHolds, OneMembership, Present
  <2> QED BY <2>1, <1>1 DEF OneMembership, Present
<1>9. LiveStaffHasOffice'
  BY <1>4 DEF DirectoryHolds, LiveStaffHasOffice
<1>10. \A p \in Tenants : IsFiniteSet(Visible(p)') /\ Cardinality(Visible(p)') <= MaxTokens
  <2>1. ASSUME NEW p \in Tenants PROVE IsFiniteSet(Visible(p)') /\ Cardinality(Visible(p)') <= MaxTokens
    <3>1. IsFiniteSet(Visible(p)) /\ Cardinality(Visible(p)) <= MaxTokens /\ Cardinality(Visible(p)) \in Nat
      BY FS_CardinalityType DEF DirectoryHolds, DemoTokensEnd
    <3>2. Visible(p)' \subseteq Visible(p)
      BY <1>1 DEF Visible, NoToken
    <3>3. IsFiniteSet(Visible(p)') /\ Cardinality(Visible(p)') <= Cardinality(Visible(p))
      BY <3>1, <3>2, FS_Subset
    <3> QED BY <3>1, <3>3, FS_CardinalityType
  <2> QED BY <2>1
<1>11. \A t \in DemoTokens : demoToken'[t].status = "active" =>
         \/ demoToken'[t].member = NoTenant
         \/ staff'[demoToken'[t].member].status \notin {"none", "removed"}
  BY <1>4, <1>5 DEF Present
<1>12. DemoTokensEnd'
  BY <1>10, <1>11 DEF DemoTokensEnd, Present
<1> QED BY <1>2, <1>6, <1>7, <1>8, <1>9, <1>10, <1>12 DEF DirectoryHolds

\* A member row that appears, or changes without leaving the customer: the rows of
\* the others stay.
LEMMA StaffMoves ==
    ASSUME DirectoryHolds, Edit, NEW m \in Staff, NEW z \in StaffRows, staff' = [staff EXCEPT ![m] = z],
           z.status \notin {"none", "removed"}, z.status \in Live => office[z.office].status = "active",
           office[z.office].status # "none",
           staff[m].status # "none" => office[z.office].tenant = TenantOf(m),
           \A n \in Staff : n # m /\ Present(n) /\ staff[n].address = z.address =>
             reseeded /\ {m, n} \intersect {SeedAdmin, SeedGuest} # {},
           \A o \in Tenants : tenant[o].status # "none" => \E n \in Staff :
             staff'[n].status = "active" /\ staff'[n].admin /\ office[staff'[n].office].tenant = o,
           UNCHANGED <<tenant, office, demoToken, reseeded>>
    PROVE  DirectoryHolds'
<1>1. staff'[m] = z /\ \A n \in Staff : n # m => staff'[n] = staff[n]
  BY DEF DirectoryHolds, DirectoryTyped
<1>2. DirectoryTyped'
  BY Revise DEF DirectoryHolds, DirectoryTyped
<1>3. DemoTokensEnd' /\ \A o \in Tenants : IsFiniteSet(Visible(o))'
  BY <1>1, TokensStay DEF Present
<1>4. AdminRemains'
  BY DEF AdminRemains, TenantOf
<1>5. OneMembership'
  <2>1. OneMembership
    BY DEF DirectoryHolds
  <2>2. ASSUME NEW j \in Staff, NEW n \in Staff, j # n, Present(j)', Present(n)',
               staff'[j].address = staff'[n].address
        PROVE  reseeded /\ {j, n} \intersect {SeedAdmin, SeedGuest} # {}
    <3>1. CASE j = m
      BY <3>1, <2>2, <1>1 DEF Present
    <3>2. CASE n = m
      BY <3>2, <2>2, <1>1 DEF Present
    <3>3. CASE j # m /\ n # m
      BY <3>3, <2>1, <2>2, <1>1 DEF Present, OneMembership
    <3> QED BY <3>1, <3>2, <3>3
  <2> QED BY <2>2 DEF OneMembership
<1>6. LiveStaffHasOffice'
  BY <1>1 DEF DirectoryHolds, LiveStaffHasOffice
<1>7. \A n \in Staff : /\ office'[staff'[n].office].status # "none"
                       /\ staff[n].status # "none" =>
                            /\ staff'[n].status # "none"
                            /\ office'[staff'[n].office].tenant = office[staff[n].office].tenant
  BY <1>1 DEF DirectoryHolds, RowsBelong, TenantOf
<1>8. RowsBelong'
  BY <1>7, BelongStays
<1> QED BY <1>2, <1>3, <1>4, <1>5, <1>6, <1>8 DEF DirectoryHolds

LEMMA CreateStaffStep ==
    ASSUME DirectoryHolds, NEW m \in Staff, NEW d \in Offices, NEW a \in Addresses, CreateStaff(m, d, a)
    PROVE  DirectoryHolds'
<1>1. PICK admin \in BOOLEAN :
        staff' = [staff EXCEPT ![m] = [office |-> d, address |-> a, admin |-> admin, status |-> "invited"]]
  BY DEF CreateStaff
<1>2. PICK z : z = [office |-> d, address |-> a, admin |-> admin, status |-> "invited"]
  OBVIOUS
<1>3. z \in StaffRows /\ z.office = d /\ z.address = a /\ z.status = "invited"
  BY <1>2 DEF StaffRows
<1>4. staff' = [staff EXCEPT ![m] = z] /\ staff[m].status = "none" /\ office[d].status = "active" /\ ~Assigned(a)
  BY <1>1, <1>2 DEF CreateStaff
<1>5. \A n \in Staff : n # m /\ Present(n) => staff[n].address # z.address
  BY <1>3, <1>4 DEF Assigned
<1>6. \A o \in Tenants : tenant[o].status # "none" => \E n \in Staff :
             staff'[n].status = "active" /\ staff'[n].admin /\ office[staff'[n].office].tenant = o
  BY <1>4 DEF DirectoryHolds, DirectoryTyped, AdminRemains, TenantOf
<1>7. /\ office[z.office].status # "none" /\ z.status \notin {"none", "removed"}
      /\ z.status \in Live => office[z.office].status = "active"
  BY <1>3, <1>4
<1>8. /\ \A n \in Staff : n # m /\ Present(n) /\ staff[n].address = z.address =>
           reseeded /\ {m, n} \intersect {SeedAdmin, SeedGuest} # {}
      /\ staff[m].status # "none" => office[z.office].tenant = TenantOf(m)
  BY <1>4, <1>5
<1>9. Edit /\ UNCHANGED <<tenant, office, demoToken, reseeded>>
  BY DEF CreateStaff
<1> QED BY <1>3, <1>4, <1>6, <1>7, <1>8, <1>9, StaffMoves

\* Where the last administrator may not go, another remains.
LEMMA AnotherRemains ==
    ASSUME DirectoryHolds, NEW m \in Staff, NEW admin \in BOOLEAN, NEW next, PrivilegedRemains(m, admin, next),
           staff[m].status = "active", staff[m].admin, ~(admin /\ next = "active")
    PROVE  \E n \in Staff : n # m /\ staff[n].status = "active" /\ staff[n].admin /\ TenantOf(n) = TenantOf(m)
<1>1. PICK admins : admins = {n \in Staff : staff[n].status = "active" /\ staff[n].admin
                                              /\ TenantOf(n) = TenantOf(m)}
  OBVIOUS
<1>2. m \in admins /\ Cardinality(admins) > 1
  BY <1>1 DEF PrivilegedRemains
<1>3. Cardinality({m}) = 1
  BY FS_Singleton
<1>4. admins # {m}
  BY <1>2, <1>3
<1> QED BY <1>1, <1>2, <1>4

LEMMA UpdateStaffStep ==
    ASSUME DirectoryHolds, NEW m \in Staff, UpdateStaff(m)
    PROVE  DirectoryHolds'
<1>1. PICK d \in Offices, admin \in BOOLEAN, next \in {"invited", "active", "suspended"} :
        /\ office[d].tenant = TenantOf(m)
        /\ d # staff[m].office \/ next \in Live => office[d].status = "active"
        /\ PrivilegedRemains(m, admin, next)
        /\ staff' = [staff EXCEPT ![m].office = d, ![m].admin = admin, ![m].status = next]
  BY DEF UpdateStaff
<1>2. PICK x \in StaffRows : x = staff[m]
  BY DEF DirectoryHolds, DirectoryTyped
<1>3. PICK z : z = [x EXCEPT !.office = d, !.admin = admin, !.status = next]
  OBVIOUS
<1>4. z \in StaffRows /\ z.office = d /\ z.admin = admin /\ z.status = next /\ z.address = x.address
  BY <1>3 DEF StaffRows
<1>5. staff' = [staff EXCEPT ![m] = z]
  BY <1>1, <1>2, <1>3
<1>6. \A n \in Staff : n # m /\ Present(n) /\ staff[n].address = z.address =>
        reseeded /\ {m, n} \intersect {SeedAdmin, SeedGuest} # {}
  BY <1>2, <1>4 DEF UpdateStaff, DirectoryHolds, OneMembership
<1>7. ASSUME NEW o \in Tenants, tenant[o].status # "none"
      PROVE  \E n \in Staff : staff'[n].status = "active" /\ staff'[n].admin /\ office[staff'[n].office].tenant = o
  <2>1. staff'[m] = z /\ \A n \in Staff : n # m => staff'[n] = staff[n]
    BY <1>5 DEF DirectoryHolds, DirectoryTyped
  <2>2. PICK n \in Staff : staff[n].status = "active" /\ staff[n].admin /\ TenantOf(n) = o
    BY <1>7 DEF DirectoryHolds, AdminRemains
  <2>3. CASE n # m
    BY <2>1, <2>2, <2>3 DEF TenantOf
  <2>4. CASE n = m /\ admin /\ next = "active"
    BY <1>1, <1>4, <2>1, <2>2, <2>4
  <2>5. CASE n = m /\ ~(admin /\ next = "active")
    <3>1. PICK k \in Staff : k # m /\ staff[k].status = "active" /\ staff[k].admin /\ TenantOf(k) = TenantOf(m)
      BY <1>1, <2>2, <2>5, AnotherRemains
    <3> QED BY <2>1, <2>2, <2>5, <3>1 DEF TenantOf
  <2> QED BY <2>3, <2>4, <2>5
<1>8. /\ z.status \notin {"none", "removed"} /\ (z.status \in Live => office[z.office].status = "active")
      /\ office[z.office].status # "none" /\ office[z.office].tenant = TenantOf(m)
  BY <1>1, <1>4 DEF DirectoryHolds, RowsBelong
<1>9. Edit /\ UNCHANGED <<tenant, office, demoToken, reseeded>>
  BY DEF UpdateStaff
<1>10. staff[m].status # "none" => office[z.office].tenant = TenantOf(m)
  BY <1>8
<1>11. \A o \in Tenants : tenant[o].status # "none" => \E n \in Staff :
             staff'[n].status = "active" /\ staff'[n].admin /\ office[staff'[n].office].tenant = o
  BY <1>7
<1>12. /\ z.status \notin {"none", "removed"} /\ office[z.office].status # "none"
       /\ z.status \in Live => office[z.office].status = "active"
  BY <1>8
<1>13. z \in StaffRows
  BY <1>4
<1> QED BY <1>5, <1>6, <1>9, <1>10, <1>11, <1>12, <1>13, StaffMoves


LEMMA RemoveStaffStep ==
    ASSUME DirectoryHolds, NEW m \in Staff, RemoveStaff(m)
    PROVE  DirectoryHolds'
<1>1. PICK x \in StaffRows : x = staff[m]
  BY DEF DirectoryHolds, DirectoryTyped
<1>2. PICK z : z = [x EXCEPT !.status = "removed"]
  OBVIOUS
<1>3. z \in StaffRows /\ z.status = "removed" /\ z.office = x.office
  BY <1>2 DEF StaffRows
<1>4. /\ staff' = [staff EXCEPT ![m] = z] /\ Edit /\ UNCHANGED <<tenant, office, reseeded>>
      /\ staff[m].status \in {"invited", "suspended"}
  BY <1>1, <1>2 DEF RemoveStaff
<1>5. staff'[m] = z /\ \A n \in Staff : n # m => staff'[n] = staff[n]
  BY <1>4 DEF DirectoryHolds, DirectoryTyped
<1>6. ASSUME NEW t \in DemoTokens
      PROVE  /\ demoToken'[t] \in DemoTokenRows
             /\ demoToken'[t].tenant = demoToken[t].tenant /\ demoToken'[t].member = demoToken[t].member
             /\ demoToken'[t].deleted = demoToken[t].deleted
             /\ demoToken'[t].status = "active" => demoToken[t].status = "active" /\ demoToken[t].member # m
  <2>1. PICK k \in DemoTokenRows : k = demoToken[t]
    BY DEF DirectoryHolds, DirectoryTyped
  <2>2. PICK c : c = [k EXCEPT !.status = "revoked"]
    OBVIOUS
  <2>3. /\ c \in DemoTokenRows /\ c.tenant = k.tenant /\ c.member = k.member
        /\ c.deleted = k.deleted /\ c.status = "revoked"
    BY <2>2 DEF DemoTokenRows
  <2>4. demoToken'[t] = IF k.member = m /\ k.status = "active" THEN c ELSE k
    BY <2>1, <2>2 DEF RemoveStaff
  <2> QED BY <2>1, <2>3, <2>4
<1>7. demoToken' \in [DemoTokens -> DemoTokenRows]
  BY <1>6 DEF RemoveStaff
<1>8. DirectoryTyped'
  BY <1>3, <1>4, <1>7, Revise DEF DirectoryHolds, DirectoryTyped
<1>9. \A o \in Tenants : Visible(o)' = Visible(o)
  BY <1>6 DEF Visible
<1>10. \A o \in Tenants : IsFiniteSet(Visible(o))' /\ Cardinality(Visible(o))' <= MaxTokens
  BY <1>9 DEF DirectoryHolds, DemoTokensEnd
<1>11. ASSUME NEW t \in DemoTokens, demoToken'[t].status = "active", demoToken'[t].member # NoTenant
       PROVE  staff'[demoToken'[t].member].status \notin {"none", "removed"}
  <2>1. PICK n \in Staff : n = demoToken[t].member /\ Present(n) /\ n # m
    BY <1>6, <1>11 DEF DirectoryHolds, DirectoryTyped, DemoTokenRows, DemoTokensEnd
  <2> QED BY <1>5, <1>6, <2>1 DEF Present
<1>12. DemoTokensEnd'
  BY <1>10, <1>11 DEF DemoTokensEnd, Present
<1>13. AdminRemains'
  BY <1>4, <1>5 DEF DirectoryHolds, AdminRemains, TenantOf
<1>14. OneMembership'
  BY <1>3, <1>5 DEF DirectoryHolds, OneMembership, Present
<1>15. LiveStaffHasOffice'
  BY <1>3, <1>4, <1>5 DEF DirectoryHolds, LiveStaffHasOffice, Live
<1>16. \A n \in Staff : /\ office'[staff'[n].office].status # "none"
                        /\ staff[n].status # "none" =>
                             /\ staff'[n].status # "none"
                             /\ office'[staff'[n].office].tenant = office[staff[n].office].tenant
  BY <1>1, <1>3, <1>4, <1>5 DEF DirectoryHolds, RowsBelong
<1>17. RowsBelong'
  BY <1>4, <1>6, <1>16, BelongStays
<1> QED BY <1>8, <1>10, <1>12, <1>13, <1>14, <1>15, <1>17 DEF DirectoryHolds

-----------------------------------------------------------------------------
(* The tokens.                                                             *)

\* A token that changes, and leaves the cap and its member as they must be.
LEMMA TokenMoves ==
    ASSUME DirectoryHolds, Edit, NEW t \in DemoTokens, NEW k \in DemoTokenRows,
           demoToken' = [demoToken EXCEPT ![t] = k],
           k.status = "active" =>
             k.member = NoTenant \/ (Present(k.member) /\ TenantOf(k.member) = k.tenant),
           \A o \in Tenants : IsFiniteSet(Visible(o)') /\ Cardinality(Visible(o)') <= MaxTokens,
           UNCHANGED <<tenant, office, staff, reseeded>>
    PROVE  DirectoryHolds'
<1>1. DirectoryTyped'
  BY Revise DEF DirectoryHolds, DirectoryTyped
<1>2. \A u \in DemoTokens : demoToken'[u] = k \/ demoToken'[u] = demoToken[u]
  BY DEF DirectoryHolds, DirectoryTyped
<1>3. DemoTokensEnd'
  BY <1>2 DEF DirectoryHolds, DemoTokensEnd, Present
<1>4. (AdminRemains /\ OneMembership /\ LiveStaffHasOffice)'
  BY DEF DirectoryHolds, AdminRemains, OneMembership, LiveStaffHasOffice, TenantOf, Present
<1>5. RowsBelong'
  BY <1>2 DEF DirectoryHolds, RowsBelong, TenantOf
<1> QED BY <1>1, <1>3, <1>4, <1>5 DEF DirectoryHolds

LEMMA IssueTokenStep ==
    ASSUME DirectoryHolds, NEW t \in DemoTokens, NEW o \in Tenants, IssueToken(t, o)
    PROVE  DirectoryHolds'
<1>1. PICK m \in Staff \union {NoTenant} :
        /\ m \in Staff => staff[m].status \in Live /\ TenantOf(m) = o
        /\ demoToken' = [demoToken EXCEPT ![t] =
             [tenant |-> o, member |-> m, status |-> "active", deleted |-> FALSE]]
  BY DEF IssueToken
<1>2. PICK k : k = [tenant |-> o, member |-> m, status |-> "active", deleted |-> FALSE]
  OBVIOUS
<1>3. k \in DemoTokenRows /\ k.tenant = o /\ k.member = m /\ k.deleted = FALSE
  BY <1>2 DEF DemoTokenRows
<1>4. demoToken' = [demoToken EXCEPT ![t] = k]
  BY <1>1, <1>2
<1>5. k.member = NoTenant \/ (Present(k.member) /\ TenantOf(k.member) = k.tenant)
  BY <1>1, <1>3 DEF Present, Live
<1>6. ASSUME NEW p \in Tenants
      PROVE  IsFiniteSet(Visible(p)') /\ Cardinality(Visible(p)') <= MaxTokens
  <2>1. IsFiniteSet(Visible(p)) /\ Cardinality(Visible(p)) <= MaxTokens /\ Cardinality(Visible(p)) \in Nat
    BY FS_CardinalityType DEF DirectoryHolds, DemoTokensEnd
  <2>2. CASE p = o
    <3>1. Visible(p)' = Visible(p) \union {t}
      BY <1>3, <1>4, <2>2 DEF DirectoryHolds, DirectoryTyped, Visible
    <3>2. Cardinality(Visible(p)) < MaxTokens
      BY <2>2 DEF IssueToken
    <3>3. IsFiniteSet(Visible(p) \union {t})
          /\ (Cardinality(Visible(p) \union {t}) = Cardinality(Visible(p))
              \/ Cardinality(Visible(p) \union {t}) = Cardinality(Visible(p)) + 1)
      BY <2>1, FS_AddElement
    <3> QED BY <2>1, <3>1, <3>2, <3>3, DemoAssumption
  <2>3. CASE p # o
    <3>1. Visible(p)' \subseteq Visible(p)
      BY <1>3, <1>4, <2>3 DEF DirectoryHolds, DirectoryTyped, Visible
    <3>2. IsFiniteSet(Visible(p)') /\ Cardinality(Visible(p)') <= Cardinality(Visible(p))
      BY <2>1, <3>1, FS_Subset
    <3> QED BY <2>1, <3>2, FS_CardinalityType, DemoAssumption
  <2> QED BY <2>2, <2>3
<1> QED BY <1>3, <1>4, <1>5, <1>6, TokenMoves DEF IssueToken

\* Revoking and deleting a token.
LEMMA TokenEndsStep ==
    ASSUME DirectoryHolds, NEW t \in DemoTokens, RevokeDemoToken(t) \/ HideToken(t)
    PROVE  DirectoryHolds'
<1>1. PICK x \in DemoTokenRows : x = demoToken[t]
  BY DEF DirectoryHolds, DirectoryTyped
<1>2. PICK k \in DemoTokenRows : /\ demoToken' = [demoToken EXCEPT ![t] = k] /\ k.status # "active"
                                 /\ k.tenant = x.tenant /\ (x.deleted => k.deleted)
  <2>1. PICK a, b : a = [x EXCEPT !.status = "revoked"] /\ b = [x EXCEPT !.deleted = TRUE]
    OBVIOUS
  <2>2. a \in DemoTokenRows /\ a.status = "revoked" /\ a.tenant = x.tenant /\ a.deleted = x.deleted
    BY <2>1 DEF DemoTokenRows
  <2>3. b \in DemoTokenRows /\ b.status = x.status /\ b.tenant = x.tenant /\ b.deleted = TRUE
    BY <2>1 DEF DemoTokenRows
  <2>4. CASE RevokeDemoToken(t)
    BY <1>1, <2>1, <2>2, <2>4 DEF RevokeDemoToken
  <2>5. CASE HideToken(t)
    BY <1>1, <2>1, <2>3, <2>5 DEF HideToken
  <2> QED BY <2>4, <2>5
<1>3. ASSUME NEW p \in Tenants
      PROVE  IsFiniteSet(Visible(p)') /\ Cardinality(Visible(p)') <= MaxTokens
  <2>1. IsFiniteSet(Visible(p)) /\ Cardinality(Visible(p)) <= MaxTokens /\ Cardinality(Visible(p)) \in Nat
    BY FS_CardinalityType DEF DirectoryHolds, DemoTokensEnd
  <2>2. Visible(p)' \subseteq Visible(p)
    BY <1>1, <1>2 DEF DirectoryHolds, DirectoryTyped, Visible
  <2>3. IsFiniteSet(Visible(p)') /\ Cardinality(Visible(p)') <= Cardinality(Visible(p))
    BY <2>1, <2>2, FS_Subset
  <2> QED BY <2>1, <2>3, FS_CardinalityType, DemoAssumption
<1>4. Edit /\ UNCHANGED <<tenant, office, staff, reseeded>>
  BY DEF RevokeDemoToken, HideToken
<1> QED BY <1>2, <1>3, <1>4, TokenMoves


-----------------------------------------------------------------------------
(* The invariant.                                                          *)

LEMMA CustomerSteps ==
    ASSUME DemoInv, NEW o \in Tenants,
           UpdateTenant(o) \/ ArchiveTenant(o) \/ RestoreTenant(o) \/ SimulateTopup(o)
    PROVE  DemoInv'
<1>1. BoardsHold'
  BY TouchedHolds DEF DemoInv, UpdateTenant, ArchiveTenant, RestoreTenant, SimulateTopup
<1>2. CASE UpdateTenant(o)
  <2>1. PICK s \in {"active", "suspended", "archived"} : tenant' = [tenant EXCEPT ![o].status = s]
    BY <1>2 DEF UpdateTenant
  <2> QED BY <1>1, <1>2, <2>1, TenantStatusStep DEF DemoInv, UpdateTenant
<1>3. CASE ArchiveTenant(o)
  BY <1>1, <1>3, TenantStatusStep DEF DemoInv, ArchiveTenant
<1>4. CASE RestoreTenant(o)
  BY <1>1, <1>4, TenantStatusStep DEF DemoInv, RestoreTenant
<1>5. CASE SimulateTopup(o)
  BY <1>1, <1>5, SimulateTopupStep DEF DemoInv
<1> QED BY <1>2, <1>3, <1>4, <1>5

LEMMA NewCustomerStep ==
    ASSUME DemoInv, NEW o \in Tenants, NEW d \in Offices, NEW m \in Staff, NEW a \in Addresses,
           CreateTenant(o, d, m, a)
    PROVE  DemoInv'
  BY CreateTenantStep, BoardsUntouched DEF DemoInv, CreateTenant

LEMMA OfficeSteps ==
    ASSUME DemoInv, NEW d \in Offices,
           RenameOffice(d) \/ ArchiveOffice(d) \/ \E o \in Tenants : CreateOffice(o, d)
    PROVE  DemoInv'
<1>1. BoardsHold'
  BY TouchedHolds DEF DemoInv, RenameOffice, ArchiveOffice, CreateOffice
<1>2. CASE RenameOffice(d)
  <2>1. tenant' \in [Tenants -> TenantRows]
    BY <1>2 DEF DemoInv, DirectoryHolds, DirectoryTyped, RenameOffice
  <2>2. DirectoryHolds'
    BY <1>2, <2>1, TenantsMove DEF DemoInv, RenameOffice
  <2> QED BY <1>1, <2>2 DEF DemoInv
<1>3. CASE ArchiveOffice(d)
  BY <1>1, <1>3, ArchiveOfficeStep DEF DemoInv
<1>4. CASE \E o \in Tenants : CreateOffice(o, d)
  BY <1>1, <1>4, CreateOfficeStep DEF DemoInv
<1> QED BY <1>2, <1>3, <1>4

LEMMA StaffSteps ==
    ASSUME DemoInv, NEW m \in Staff,
           \/ UpdateStaff(m) \/ RemoveStaff(m)
           \/ \E d \in Offices, a \in Addresses : CreateStaff(m, d, a)
    PROVE  DemoInv'
<1>1. BoardsHold'
  BY TouchedHolds DEF DemoInv, UpdateStaff, RemoveStaff, CreateStaff
<1>2. DirectoryHolds'
  BY UpdateStaffStep, RemoveStaffStep, CreateStaffStep DEF DemoInv
<1> QED BY <1>1, <1>2 DEF DemoInv

LEMMA DemoTokenSteps ==
    ASSUME DemoInv, NEW t \in DemoTokens,
           RevokeDemoToken(t) \/ HideToken(t) \/ \E o \in Tenants : IssueToken(t, o)
    PROVE  DemoInv'
<1>1. BoardsHold'
  BY BoardsUntouched DEF DemoInv, RevokeDemoToken, HideToken, IssueToken
<1>2. DirectoryHolds'
  BY TokenEndsStep, IssueTokenStep DEF DemoInv
<1> QED BY <1>1, <1>2 DEF DemoInv

LEMMA DirectoryUntouched ==
  DirectoryHolds /\ UNCHANGED <<tenant, office, staff, demoToken, reseeded, demoEdits>> => DirectoryHolds'
  BY DEF DirectoryHolds, DirectoryTyped, RowsBelong, AdminRemains, OneMembership, LiveStaffHasOffice, DemoTokensEnd,
     TenantOf, Present, Visible

LEMMA BoardSteps ==
    ASSUME DemoInv,
           \/ \E r \in BoardReaders : BuildBoard(r) \/ StoreBoard(r) \/ \E o \in Tenants : ReadRevision(r, o)
           \/ ResetDemo \/ ClearBoards \/ \E o \in Tenants : ResetTenant(o)
    PROVE  DemoInv'
<1>1. CASE \E r \in BoardReaders : BuildBoard(r) \/ StoreBoard(r) \/ \E o \in Tenants : ReadRevision(r, o)
  <2>1. BoardsHold'
    BY <1>1, BuildBoardHolds, StoreBoardHolds, ReadRevisionHolds DEF DemoInv
  <2>2. UNCHANGED <<tenant, office, staff, demoToken, reseeded, demoEdits>>
    BY <1>1 DEF BuildBoard, StoreBoard, ReadRevision
  <2> QED BY <2>1, <2>2, DirectoryUntouched DEF DemoInv
<1>2. CASE ResetDemo
  BY <1>2, ResetStep, BoardsCleared DEF DemoInv, ResetDemo, NewNamespace
<1>3. CASE ClearBoards
  BY <1>3, DirectoryUntouched, BoardsCleared DEF DemoInv, ClearBoards
<1>4. CASE \E o \in Tenants : ResetTenant(o)
  BY <1>4, ResetTenantStep, BoardsCleared DEF DemoInv, ResetTenant, NewNamespace
<1> QED BY <1>1, <1>2, <1>3, <1>4

LEMMA DemoSteps == DemoInv /\ [DemoNext]_demoVars => DemoInv'
<1> SUFFICES ASSUME DemoInv, [DemoNext]_demoVars PROVE DemoInv'
  OBVIOUS
<1>1. CASE UNCHANGED demoVars
  BY <1>1, DirectoryUntouched, BoardsUntouched DEF demoVars, DemoInv, boardVars
<1>2. CASE DemoNext
  BY <1>2, CustomerSteps, NewCustomerStep, OfficeSteps, StaffSteps, DemoTokenSteps, BoardSteps DEF DemoNext
<1> QED BY <1>1, <1>2

\* The invariant of the demonstration store holds in every reachable state
\* (InMemoryOrganizationStore and the boards the HTTP layer caches).
THEOREM DemoInvariant == DemoSpec => []DemoInv
<1> QED BY DemoStart, DemoSteps, PTL DEF DemoSpec

\* Every customer keeps an administrator who can act; an address signs in to one
\* customer, until a customer is reset alone, and from then on only a member of the
\* seed can share one; nobody who left holds a working token, the cap holds, and a
\* board that is found in the cache shows the directory as it is: for any number of
\* rows and resets.
THEOREM DemoSound == DemoSpec => []DemoIsSound
<1>1. DemoInv => DemoIsSound
  BY DEF DemoInv, DirectoryHolds, BoardsHold, DemoIsSound
<1> QED BY <1>1, DemoInvariant, PTL

\* The rows of the demonstration store keep their types.
THEOREM DemoTypeCorrect == DemoSpec => []DemoTypeOK
<1>1. DemoInv => DemoTypeOK
  BY DEF DemoInv, DirectoryHolds, DirectoryTyped, BoardsHold, DemoTypeOK, TenantRows, OfficeRows, StaffRows,
     DemoTokenRows, BoardRequests
<1> QED BY <1>1, DemoInvariant, PTL

-----------------------------------------------------------------------------
(* The office as a whole.                                                  *)

\* Whatever component a behaviour of the office runs, it is a behaviour of
\* each of them: the others stand still.
LEMMA OfficeRuns ==
  MCSpec => /\ AccountsSpec /\ ClaimsSpec /\ MemberSpec /\ OrdersSpec /\ AdoptionSpec
            /\ PilotSpec /\ RotationSpec /\ ReadsSpec /\ DemoSpec /\ ProjectionSpec
<1>1. MCInit => AccountsInit
  BY DEF MCInit
<1>2. [MCNext]_backVars => [AccountsNext]_accountVars
  BY DEF MCNext, backVars
<1>3. MCInit => ClaimsInit
  BY DEF MCInit
<1>4. [MCNext]_backVars => [ClaimsNext]_claimVars
  BY DEF MCNext, backVars
<1>5. MCInit => MemberInit
  BY DEF MCInit
<1>6. [MCNext]_backVars => [MemberNext]_memberVars
  BY DEF MCNext, backVars
<1>7. MCInit => OrdersInit
  BY DEF MCInit
<1>8. [MCNext]_backVars => [OrdersNext]_orderVars
  BY DEF MCNext, backVars, OrdersNext
<1>9. MCInit => AdoptionInit
  BY DEF MCInit
<1>10. [MCNext]_backVars => [AdoptionNext]_adoptionVars
  BY DEF MCNext, backVars
<1>11. MCInit => PilotInit
  BY DEF MCInit
<1>12. [MCNext]_backVars => [PilotNext]_pilotVars
  BY DEF MCNext, backVars
<1>13. MCInit => RotationInit
  BY DEF MCInit
<1>14. [MCNext]_backVars => [RotationNext]_rotationVars
  BY DEF MCNext, backVars
<1>15. MCInit => ReadsInit
  BY DEF MCInit
<1>16. [MCNext]_backVars => [ReadsNext]_readsVars
  BY DEF MCNext, backVars
<1>17. MCInit => DemoInit
  BY DEF MCInit
<1>18. [MCNext]_backVars => [DemoNext]_demoVars
  BY DEF MCNext, backVars
<1>19. MCInit => ProjectionInit
  BY DEF MCInit
<1>20. [MCNext]_backVars => [ProjectionNext]_projectionVars
  BY DEF MCNext, backVars
<1> QED BY <1>1, <1>2, <1>3, <1>4, <1>5, <1>6, <1>7, <1>8, <1>9, <1>10, <1>11, <1>12, <1>13, <1>14, <1>15, <1>16, <1>17, <1>18, <1>19, <1>20, PTL
   DEF MCSpec, AccountsSpec, ClaimsSpec, MemberSpec, OrdersSpec, AdoptionSpec, PilotSpec, RotationSpec, ReadsSpec, DemoSpec,
       ProjectionSpec

\* A person's account stays sound in the office (AccountsSound, for its runs).
THEOREM OfficeAccountsSound == MCSpec => []AccountsAreSound
BY OfficeRuns, AccountsSound, PTL

\* A membership is claimed by one account, and by its own, and the proxy grants
\* what the directory says once the queue is drained, whatever requests and workers
\* run and die, unless a job was given up or recorded as sent in failure.
THEOREM OfficeMembershipsSound == MCSpec => []MembershipsAreSound
<1>1. ClaimsAreSound /\ MembersAreSound => MembershipsAreSound
  BY DEF MembershipsAreSound
<1> QED BY <1>1, OfficeRuns, ClaimsSound, MembersSound, PTL

\* Orders are credited once and what is paid is credited, in the office.
THEOREM OfficeOrdersSound == MCSpec => []OrdersAreSound
BY OfficeRuns, OrdersSound, PTL

\* What is taken over from before is taken over whole: an organization found
\* upstream with its keys, and the pilot's member with the operator's credit.
THEOREM OfficeTakeoversSound == MCSpec => []TakeoversAreSound
<1>1. AdoptionIsSound /\ PilotIsSound => TakeoversAreSound
  BY DEF TakeoversAreSound
<1> QED BY <1>1, OfficeRuns, AdoptionSound, PilotSound, PTL

\* A person's key is replaced without being lost, and a leader is shown no keys
\* of a team that are older than the last change they know of.
THEOREM OfficeKeysSound == MCSpec => []KeysAreSound
<1>1. RotationIsSafe /\ ReadsAreFresh => KeysAreSound
  BY DEF KeysAreSound
<1> QED BY <1>1, OfficeRuns, RotationSafe, ReadsFresh, PTL

\* The demonstration store keeps its rules in the office.
THEOREM OfficeDemoSound == MCSpec => []DemoIsSound
BY OfficeRuns, DemoSound, PTL

\* The proxy comes to enforce what the administrators have made of the
\* directory, in the office, with the exceptions ProjectionIsSound names.
THEOREM OfficeProjectionSound == MCSpec => []ProjectionIsSound
BY OfficeRuns, ProjectionSound, PTL

\* What a person was promised is not taken back: a delivered link keeps working
\* until it is used or superseded, the password changes, or a login writes the
\* hash anew; an applied adoption stays applied.
THEOREM OfficePromisesStay == MCSpec => PromisesStay
BY OfficeRuns, DeliveredLinksStay, AppliedForGood, PTL DEF PromisesStay

\* Type correctness of the office.
THEOREM OfficeTypeCorrect == MCSpec => []BackofficeTypeOK
<1>1. /\ AccountsTypeOK /\ ClaimsTypeOK /\ MemberTypeOK /\ OrdersTypeOK /\ ProjectionTypeOK
      /\ AdoptionTypeOK /\ PilotTypeOK /\ RotationTypeOK /\ ReadsTypeOK /\ DemoTypeOK
      => BackofficeTypeOK
  BY DEF BackofficeTypeOK
<1> QED BY <1>1, OfficeRuns, AccountsTypeCorrect, ClaimsTypeCorrect, MemberTypeCorrect, OrdersTypeCorrect,
   ProjectionTypeCorrect, AdoptionTypeCorrect, PilotTypeCorrect, RotationTypeCorrect, ReadsTypeCorrect,
   DemoTypeCorrect, PTL

================================================================================
