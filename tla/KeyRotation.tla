------------------------------ MODULE KeyRotation ------------------------------
(***************************************************************************)
(* A person's access keys: the proxy holds the keys, the vault (a sqlite   *)
(* file) their secrets and the rotations that wait for their old key.  A   *)
(* rotation replaces the key in one call where the proxy is licensed for   *)
(* it; otherwise it makes a replacement, stores its secret and deletes the *)
(* old key.  Nothing locks the two stores: two requests may rotate one     *)
(* key, the owner may delete either key meanwhile, a team leader may block *)
(* and delete them, and any call, any write to the vault and the process   *)
(* may fail.                                                               *)
(***************************************************************************)
EXTENDS Naturals, FiniteSets

CONSTANTS
  Secrets, FirstKey, NoKey,  \* the keys there may be, the one there is at first
  KeyUsers,                  \* requests of the owner and of the leader
  MaxKeyFaults               \* bound: calls that fail or lose their answer, processes that die

ASSUME RotationAssumption ==
  FirstKey \in Secrets /\ NoKey \notin Secrets /\ MaxKeyFaults \in Nat

VARIABLES
  keys,        \* the proxy: "none", "active", "blocked" or "deleted"
  vault,       \* key_secrets
  pending,     \* pending_key_rotations with the target "old": the replacement of a key
  request,
  loose,       \* keys whose secret an answer has shown, or that were lost with the call
               \* or the request that made them
  replaced,    \* pairs of a key deleted by a rotation and its replacement
  keyFaults

rotationVars == <<keys, vault, pending, request, loose, replaced, keyFaults>>
keyHistory == <<loose, replaced>>

AtDesk == [pc |-> "idle", old |-> NoKey, new |-> NoKey]
Owned == {k \in Secrets : keys[k] \in {"active", "blocked"}}
Fresh == {k \in Secrets : keys[k] = "none"}

RotationInit ==
  /\ keys = [k \in Secrets |-> IF k = FirstKey THEN "active" ELSE "none"]
  /\ vault \in {{}, {FirstKey}} /\ pending = [k \in Secrets |-> NoKey]
  /\ request = [u \in KeyUsers |-> AtDesk]
  /\ loose = {FirstKey} /\ replaced = {} /\ keyFaults = 0

RequestAt(u, step) == request[u].pc = step
RequestGoes(u, step) == request' = [request EXCEPT ![u].pc = step]
RequestEnds(u) == request' = [request EXCEPT ![u] = AtDesk]
KeyFault == keyFaults < MaxKeyFaults /\ keyFaults' = keyFaults + 1
FaultOr(fails) == IF fails THEN KeyFault ELSE UNCHANGED keyFaults

-----------------------------------------------------------------------------
(* Rotating a key *)

\* regenerate_my_key: refused while a rotation of the key is pending.
BeginRotation(u, old) ==
  /\ RequestAt(u, "idle") /\ pending[old] = NoKey
  /\ \E mode \in {"atomic", "owned"} :
       request' = [request EXCEPT ![u] = [pc |-> mode, old |-> old, new |-> NoKey]]
  /\ UNCHANGED <<keys, vault, pending, keyHistory, keyFaults>>

\* regenerate_key: one call.  An answer that is lost loses the new secret.
Regenerate(u) ==
  LET old == request[u].old IN
  /\ RequestAt(u, "atomic")
  /\ \/ /\ old \in Owned
        /\ \E new \in Fresh, lost \in BOOLEAN :
             /\ keys' = [keys EXCEPT ![old] = "deleted", ![new] = "active"]
             /\ loose' = IF lost THEN loose \union {new} ELSE loose
             /\ FaultOr(lost)
             /\ IF lost THEN RequestEnds(u)
                ELSE request' = [request EXCEPT ![u].pc = "regenerated", ![u].new = new]
     \/ /\ old \in Owned => KeyFault
        /\ old \notin Owned => UNCHANGED keyFaults
        /\ RequestEnds(u) /\ UNCHANGED <<keys, loose>>
     \/ RequestGoes(u, "owned") /\ UNCHANGED <<keys, loose, keyFaults>>
  /\ UNCHANGED <<vault, pending, replaced>>

\* KeyVault.replace; the answer shows the secret whether or not it was stored.
ReplaceInVault(u) ==
  LET old == request[u].old  new == request[u].new IN
  /\ RequestAt(u, "regenerated")
  /\ \/ /\ vault' = (vault \ {old}) \union {new}
        /\ pending' = [pending EXCEPT ![old] = NoKey]
     \/ UNCHANGED <<vault, pending>>
  /\ loose' = loose \union {new}
  /\ RequestEnds(u) /\ UNCHANGED <<keys, replaced, keyFaults>>

\* create_replacement_key reads the key first: only one in order is replaced.
ReadOwnedKey(u) ==
  /\ RequestAt(u, "owned")
  /\ \/ keys[request[u].old] = "active" /\ RequestGoes(u, "creating")
     \/ keys[request[u].old] # "active" /\ RequestEnds(u)
  /\ UNCHANGED <<keys, vault, pending, keyHistory, keyFaults>>

\* /key/generate and the budget written after it: a failure of either after the
\* key was made ends the request without the key.
CreateReplacement(u) ==
  /\ RequestAt(u, "creating")
  /\ \/ \E new \in Fresh, fails \in BOOLEAN :
          /\ keys' = [keys EXCEPT ![new] = "active"]
          /\ loose' = IF fails THEN loose \union {new} ELSE loose
          /\ FaultOr(fails)
          /\ IF fails THEN RequestEnds(u)
             ELSE request' = [request EXCEPT ![u].pc = "created", ![u].new = new]
     \/ KeyFault /\ RequestEnds(u) /\ UNCHANGED <<keys, loose>>
  /\ UNCHANGED <<vault, pending, replaced>>

\* Mutant: deletes the old key whether or not the new one is stored.
StoreReplacementRegardless(u) ==
  /\ RequestAt(u, "created") /\ RequestGoes(u, "stored")
  /\ vault' \in {vault, vault \union {request[u].new}}
  /\ UNCHANGED <<keys, pending, keyHistory, keyFaults>>

StoreReplacement(u) ==
  /\ RequestAt(u, "created")
  /\ \/ vault' = vault \union {request[u].new} /\ RequestGoes(u, "stored")
     \/ RequestGoes(u, "compensating") /\ UNCHANGED vault
  /\ UNCHANGED <<keys, pending, keyHistory, keyFaults>>

\* delete_key: the listing, the call and its confirmation.  `seen` is whether the
\* caller learns that the key is gone.
DeletesUpstream(key, seen) ==
  \/ seen /\ key \in Owned /\ keys' = [keys EXCEPT ![key] = "deleted"] /\ UNCHANGED keyFaults
  \/ ~seen /\ key \in Owned /\ KeyFault /\ keys' \in {keys, [keys EXCEPT ![key] = "deleted"]}
  \/ ~seen /\ key \notin Owned /\ UNCHANGED <<keys, keyFaults>>

\* The replacement could not be stored: it is deleted, or shown once with a warning.
Compensate(u) ==
  LET new == request[u].new IN
  /\ RequestAt(u, "compensating") /\ RequestEnds(u)
  /\ \E seen \in BOOLEAN :
       /\ DeletesUpstream(new, seen)
       /\ loose' = IF seen THEN loose ELSE loose \union {new}
  /\ UNCHANGED <<vault, pending, replaced>>

DeleteOldKey(u) ==
  LET old == request[u].old  new == request[u].new IN
  /\ RequestAt(u, "stored")
  /\ \E seen \in BOOLEAN :
       DeletesUpstream(old, seen) /\ RequestGoes(u, IF seen THEN "forgetting" ELSE "undisabled")
  /\ replaced' = IF keys' # keys THEN replaced \union {<<old, new>>} ELSE replaced
  /\ UNCHANGED <<vault, pending, loose>>

RecordPending(u) ==
  /\ RequestAt(u, "undisabled") /\ RequestEnds(u)
  /\ pending' \in {pending, [pending EXCEPT ![request[u].old] = request[u].new]}
  /\ UNCHANGED <<keys, vault, keyHistory, keyFaults>>

-----------------------------------------------------------------------------
(* Finishing a rotation later, and deleting a key *)

\* disable_old_key: the replacement must still be the person's.
DisableOldKey(u, old) ==
  LET new == pending[old] IN
  /\ RequestAt(u, "idle") /\ new \in Owned
  /\ request' = [request EXCEPT ![u] =
       [pc |-> IF old \in Owned THEN "disabling" ELSE "completing", old |-> old, new |-> new]]
  /\ UNCHANGED <<keys, vault, pending, keyHistory, keyFaults>>

DisablePending(u) ==
  LET old == request[u].old IN
  /\ RequestAt(u, "disabling")
  /\ \E seen \in BOOLEAN :
       DeletesUpstream(old, seen) /\ IF seen THEN RequestGoes(u, "completing") ELSE RequestEnds(u)
  /\ replaced' = IF keys' # keys THEN replaced \union {<<old, request[u].new>>} ELSE replaced
  /\ UNCHANGED <<vault, pending, loose>>

CompletePending(u) ==
  LET old == request[u].old IN
  /\ RequestAt(u, "completing") /\ RequestEnds(u)
  /\ \/ vault' = vault \ {old} /\ pending' = [pending EXCEPT ![old] = NoKey]
     \/ UNCHANGED <<vault, pending>>
  /\ UNCHANGED <<keys, keyHistory, keyFaults>>

\* revoke_team_key of a key not blocked yet.
RevokeTeamKey(key) ==
  /\ keys[key] = "active" /\ keys' = [keys EXCEPT ![key] = "blocked"]
  /\ UNCHANGED <<vault, pending, request, keyHistory, keyFaults>>

\* delete_my_key, and delete_team_key of a blocked one.
DeleteKey(u, key) ==
  /\ RequestAt(u, "idle") /\ key \in Owned
  /\ \E seen \in BOOLEAN :
       /\ DeletesUpstream(key, seen)
       /\ request' = IF seen
            THEN [request EXCEPT ![u] = [pc |-> "forgetting", old |-> key, new |-> NoKey]]
            ELSE request
  /\ UNCHANGED <<vault, pending, keyHistory>>

\* KeyVault.delete: the secret and every rotation that names the key.
ForgetSecret(u) ==
  LET key == request[u].old IN
  /\ RequestAt(u, "forgetting") /\ RequestEnds(u)
  /\ \/ /\ vault' = vault \ {key}
        /\ pending' = [k \in Secrets |-> IF k = key \/ pending[k] = key THEN NoKey ELSE pending[k]]
     \/ UNCHANGED <<vault, pending>>
  /\ UNCHANGED <<keys, keyHistory, keyFaults>>

\* The process dies; a key made and not yet stored is known to nobody.
RequestDies(u) ==
  /\ ~RequestAt(u, "idle") /\ KeyFault /\ RequestEnds(u)
  /\ loose' = loose \union ({request[u].new} \cap Secrets)
  /\ UNCHANGED <<keys, vault, pending, replaced>>

RotationNext ==
  \/ \E u \in KeyUsers, k \in Secrets :
       BeginRotation(u, k) \/ DisableOldKey(u, k) \/ DeleteKey(u, k)
  \/ \E u \in KeyUsers :
       \/ Regenerate(u) \/ ReplaceInVault(u) \/ ReadOwnedKey(u) \/ CreateReplacement(u)
       \/ StoreReplacement(u) \/ Compensate(u) \/ DeleteOldKey(u) \/ RecordPending(u)
       \/ DisablePending(u) \/ CompletePending(u) \/ ForgetSecret(u) \/ RequestDies(u)
  \/ \E k \in Secrets : RevokeTeamKey(k)

RotationSpec == RotationInit /\ [][RotationNext]_rotationVars

-----------------------------------------------------------------------------
RotationTypeOK ==
  /\ keys \in [Secrets -> {"none", "active", "blocked", "deleted"}]
  /\ vault \subseteq Secrets /\ pending \in [Secrets -> Secrets \union {NoKey}]
  /\ \A u \in KeyUsers : {request[u].old, request[u].new} \subseteq Secrets \union {NoKey}
  /\ loose \subseteq Secrets /\ replaced \subseteq Secrets \X Secrets
  /\ keyFaults \in 0..MaxKeyFaults

StoredOrGone(k) == k \in vault \/ keys[k] \in {"blocked", "deleted"}

\* A rotation never takes a key away for nothing: the secret of the replacement can
\* be revealed for as long as nobody has taken the replacement away as well.
NothingForNothing == \A pair \in replaced : StoredOrGone(pair[2])

\* A rotation left pending can be finished: its replacement is stored, until it is
\* itself taken away.
PendingIsStored == \A k \in Secrets : pending[k] # NoKey => StoredOrGone(pending[k])

\* A key that works is held by somebody: its secret is in the vault, was shown, or is
\* in the hands of a request, unless the call that made it failed or never ended.
WorkingKeysAreHeld ==
  \A k \in Secrets :
    keys[k] = "active" => k \in vault \union loose \union {request[u].new : u \in KeyUsers}

\* main.regenerate_my_key, disable_old_key and KeyVault, whoever else acts meanwhile.
RotationIsSafe == NothingForNothing /\ PendingIsStored /\ WorkingKeysAreHeld
==============================================================================
