---------------------------- MODULE NodeRegistry ----------------------------
(***************************************************************************)
(* Who may claim: enrollment tokens, the workers table and the worker      *)
(* credentials (store.py), and the handlers of server.py that touch them.  *)
(* Each store call is atomic, but a handler makes several of them, so the  *)
(* handlers of different API threads interleave between any two calls and  *)
(* may die there: enroll_node makes four, advertise_worker_capabilities    *)
(* reads the row and writes all of it back, claim_worker checks the row    *)
(* before it claims.                                                       *)
(*                                                                         *)
(* A secret is named by the token whose enrollment created it: secrets are *)
(* fresh, and only their equality is ever tested.                          *)
(***************************************************************************)
EXTENDS Integers

CONSTANTS Nodes,         \* worker ids
          Tokens,        \* enrollment tokens an operator may issue
          Handlers,      \* API threads
          Labels,        \* capability labels
          TokenSeconds,  \* lifetime of an enrollment token
          NULL

ASSUME RegistryAssumption ==
    /\ TokenSeconds \in Nat \ {0}
    /\ NULL \notin Nodes \cup Tokens

VARIABLES token,         \* node_enrollment_tokens, by token
          worker,        \* workers, by id
          credential,    \* worker_credentials, by worker id
          handler,       \* what each API thread has read so far, or NULL
          claims,        \* capabilities claim_next was called with, by worker
          joined,        \* ghost: how often a token was consumed
          granted,       \* ghost: all an operator ever allowed a worker
          drained        \* ghost: the operator's last word on draining

tables == <<token, worker, credential>>
ghosts == <<claims, joined, granted, drained>>
registryVars == <<tables, handler, ghosts>>

WorkerStatuses == {"ready", "offline"}

TokenRow == [node : Nodes, grant : SUBSET Labels, left : 0 .. TokenSeconds,
             used : BOOLEAN]
\* grant is metadata.enrollment_capabilities; {} when the key is missing.
WorkerRow == [capabilities : SUBSET Labels, grant : SUBSET Labels,
              status : WorkerStatuses, draining : BOOLEAN]
CredentialRow == [secret : Tokens, revoked : BOOLEAN]

\* A row is never mistaken for a missing one.
ASSUME RowAssumption ==
    NULL \notin TokenRow /\ NULL \notin WorkerRow /\ NULL \notin CredentialRow

Enrolling == [at : {"validated", "consumed", "registered"}, token : Tokens,
              node : Nodes, grant : SUBSET Labels, capabilities : SUBSET Labels]
Working == [at : {"admitted"}, node : Nodes, admin : BOOLEAN]
Holding == [at : {"advertise", "claim"}, node : Nodes, row : WorkerRow]

RegistryTypeOK ==
    /\ token \in [Tokens -> TokenRow \cup {NULL}]
    /\ worker \in [Nodes -> WorkerRow \cup {NULL}]
    /\ credential \in [Nodes -> CredentialRow \cup {NULL}]
    /\ handler \in [Handlers -> Enrolling \cup Working \cup Holding \cup {NULL}]
    /\ claims \in [Nodes -> SUBSET Labels]
    /\ joined \in [Tokens -> Nat]
    /\ granted \in [Nodes -> SUBSET Labels]
    /\ drained \in [Nodes -> BOOLEAN]

RegistryInit ==
    /\ token = [t \in Tokens |-> NULL]
    /\ worker = [n \in Nodes |-> NULL]
    /\ credential = [n \in Nodes |-> NULL]
    /\ handler = [h \in Handlers |-> NULL]
    /\ claims = [n \in Nodes |-> {}]
    /\ joined = [t \in Tokens |-> 0]
    /\ granted = [n \in Nodes |-> {}]
    /\ drained = [n \in Nodes |-> FALSE]

Row(capabilities, grant, status, draining) ==
    [capabilities |-> capabilities, grant |-> grant, status |-> status,
     draining |-> draining]

Holds(h, step) == handler[h] # NULL /\ handler[h].at = step
Keeps(h, memory) == handler' = [handler EXCEPT ![h] = memory]
Replies(h) == Keeps(h, NULL)

-----------------------------------------------------------------------------
\* issue_enrollment_token
IssueToken(t, n, grant) ==
    /\ token[t] = NULL
    /\ token' = [token EXCEPT ![t] = [node |-> n, grant |-> grant,
                                      left |-> TokenSeconds, used |-> FALSE]]
    /\ UNCHANGED <<worker, credential, handler, ghosts>>

\* get_enrollment_token and consume_enrollment_token test the same.
TokenIsValid(t) == token[t] # NULL /\ ~token[t].used /\ token[t].left > 0

\* enroll_node up to the consumption: the node reports what it detected (all
\* that was approved if it reports nothing), which may not exceed the token.
EnrollValidates(h, t, detected) ==
    /\ handler[h] = NULL
    /\ TokenIsValid(t)
    /\ detected \subseteq token[t].grant
    /\ Keeps(h, [at |-> "validated", token |-> t, node |-> token[t].node,
                 grant |-> token[t].grant, capabilities |-> detected])
    /\ UNCHANGED <<tables, ghosts>>

\* Variant: what the handler read before is trusted.
TrustsItsRead(t) == TRUE

\* The atomic re-check inside consume_enrollment_token.
StillUnused(t) == TokenIsValid(t)

EnrollConsumes(h) ==
    /\ Holds(h, "validated")
    /\ LET t == handler[h].token IN
         /\ StillUnused(t)
         /\ token' = [token EXCEPT ![t].used = TRUE]
         /\ joined' = [joined EXCEPT ![t] = @ + 1]
         /\ granted' = [granted EXCEPT ![handler[h].node] = @ \cup handler[h].grant]
    /\ Keeps(h, [handler[h] EXCEPT !.at = "consumed"])
    /\ UNCHANGED <<worker, credential, claims, drained>>

\* 409: somebody else consumed it, or it expired since.
EnrollTooLate(h) ==
    /\ Holds(h, "validated")
    /\ ~StillUnused(handler[h].token)
    /\ Replies(h)
    /\ UNCHANGED <<tables, ghosts>>

\* Variant: the credential is created before the worker is registered.
CredentialFirst(h) ==
    /\ Holds(h, "consumed")
    /\ credential' = [credential EXCEPT ![handler[h].node] =
                        [secret |-> handler[h].token, revoked |-> FALSE]]
    /\ Keeps(h, [handler[h] EXCEPT !.at = "registered"])
    /\ UNCHANGED <<token, worker, ghosts>>

\* register_worker overwrites every column of an existing row.
EnrollRegisters(h) ==
    /\ Holds(h, "consumed")
    /\ worker' = [worker EXCEPT ![handler[h].node] =
                    Row(handler[h].capabilities, handler[h].grant, "ready", FALSE)]
    /\ drained' = [drained EXCEPT ![handler[h].node] = FALSE]
    /\ Keeps(h, [handler[h] EXCEPT !.at = "registered"])
    /\ UNCHANGED <<token, credential, claims, joined, granted>>

\* create_worker_credential replaces the old secret and any revocation.
EnrollReplies(h) ==
    /\ Holds(h, "registered")
    /\ credential' = [credential EXCEPT ![handler[h].node] =
                        [secret |-> handler[h].token, revoked |-> FALSE]]
    /\ Replies(h)
    /\ UNCHANGED <<token, worker, ghosts>>

-----------------------------------------------------------------------------
\* The operator's calls, one store call each.
RegisterWorker(n, capabilities, status, draining) ==
    /\ worker' = [worker EXCEPT ![n] = Row(capabilities, {}, status, draining)]
    /\ granted' = [granted EXCEPT ![n] = @ \cup capabilities]
    /\ drained' = [drained EXCEPT ![n] = draining]
    /\ UNCHANGED <<token, credential, handler, claims, joined>>

DrainWorker(n, draining) ==
    /\ worker[n] # NULL
    /\ worker' = [worker EXCEPT ![n].draining = draining]
    /\ drained' = [drained EXCEPT ![n] = draining]
    /\ UNCHANGED <<token, credential, handler, claims, joined, granted>>

RevokeWorkerCredential(n) ==
    /\ credential[n] # NULL /\ ~credential[n].revoked
    /\ credential' = [credential EXCEPT ![n].revoked = TRUE]
    /\ UNCHANGED <<token, worker, handler, ghosts>>

-----------------------------------------------------------------------------
\* require_worker_token: the live secret of that worker, or the admin token.
RequireWorkerToken(h, n, t) ==
    /\ handler[h] = NULL
    /\ credential[n] # NULL /\ credential[n].secret = t /\ ~credential[n].revoked
    /\ Keeps(h, [at |-> "admitted", node |-> n, admin |-> FALSE])
    /\ UNCHANGED <<tables, ghosts>>

RequireAdmin(h, n) ==
    /\ handler[h] = NULL
    /\ Keeps(h, [at |-> "admitted", node |-> n, admin |-> TRUE])
    /\ UNCHANGED <<tables, ghosts>>

UpdatedStatus(n, status) ==
    [worker EXCEPT ![n] = IF @ = NULL THEN NULL ELSE [@ EXCEPT !.status = status]]

HeartbeatWorker(h, status) ==
    /\ Holds(h, "admitted")
    /\ worker' = UpdatedStatus(handler[h].node, status)
    /\ Replies(h)
    /\ UNCHANGED <<token, credential, ghosts>>

\* metadata.get("enrollment_capabilities") or worker.capabilities
Approved(row) == IF row.grant = {} THEN row.capabilities ELSE row.grant

\* Variant: any report is believed.
BelievesTheReport(h, row, reported) == TRUE

MayAdvertise(h, row, reported) ==
    handler[h].admin \/ reported \subseteq Approved(row)

AdvertiseReads(h, reported) ==
    /\ Holds(h, "admitted")
    /\ LET n == handler[h].node IN
         /\ worker[n] # NULL
         /\ MayAdvertise(h, worker[n], reported)
         /\ granted' = IF handler[h].admin
                       THEN [granted EXCEPT ![n] = @ \cup reported] ELSE granted
         /\ Keeps(h, [at |-> "advertise", node |-> n,
                      row |-> [worker[n] EXCEPT !.capabilities = reported]])
    /\ UNCHANGED <<tables, claims, joined, drained>>

\* Every column goes back as it was read.
AdvertiseWrites(h) ==
    /\ Holds(h, "advertise")
    /\ worker' = [worker EXCEPT ![handler[h].node] = handler[h].row]
    /\ Replies(h)
    /\ UNCHANGED <<token, credential, ghosts>>

MayClaim(row) == ~row.draining /\ row.status # "offline"

ClaimReads(h) ==
    /\ Holds(h, "admitted")
    /\ LET n == handler[h].node IN
         /\ worker[n] # NULL
         /\ MayClaim(worker[n])
         /\ Keeps(h, [at |-> "claim", node |-> n, row |-> worker[n]])
    /\ UNCHANGED <<tables, ghosts>>

\* claim_next runs with what was read (its effect on jobs is JudgeStore's).
ClaimRuns(h) ==
    /\ Holds(h, "claim")
    /\ claims' = [claims EXCEPT ![handler[h].node] = @ \cup handler[h].row.capabilities]
    /\ Replies(h)
    /\ UNCHANGED <<tables, joined, granted, drained>>

\* 404, 422 or 204 from either of the two.
TurnedAway(h, reported) ==
    /\ Holds(h, "admitted")
    /\ LET row == worker[handler[h].node] IN
         ~(row # NULL /\ MayAdvertise(h, row, reported) /\ MayClaim(row))
    /\ Replies(h)
    /\ UNCHANGED <<tables, ghosts>>

\* The API process dies, or the next store call raises.
HandlerDies(h) ==
    /\ handler[h] # NULL
    /\ Replies(h)
    /\ UNCHANGED <<tables, ghosts>>

TokensAge ==
    /\ \E t \in Tokens : token[t] # NULL /\ token[t].left > 0
    /\ token' = [t \in Tokens |->
                    IF token[t] # NULL /\ token[t].left > 0
                    THEN [token[t] EXCEPT !.left = @ - 1] ELSE token[t]]
    /\ UNCHANGED <<worker, credential, handler, ghosts>>

-----------------------------------------------------------------------------
Operator ==
    \/ \E t \in Tokens, n \in Nodes, g \in SUBSET Labels : IssueToken(t, n, g)
    \/ \E n \in Nodes, c \in SUBSET Labels, s \in WorkerStatuses, d \in BOOLEAN :
          RegisterWorker(n, c, s, d)
    \/ \E n \in Nodes, d \in BOOLEAN : DrainWorker(n, d)
    \/ \E n \in Nodes : RevokeWorkerCredential(n)

Enrollment(h) ==
    \/ \E t \in Tokens, c \in SUBSET Labels : EnrollValidates(h, t, c)
    \/ EnrollConsumes(h) \/ EnrollTooLate(h) \/ EnrollRegisters(h) \/ EnrollReplies(h)

WorkerCall(h) ==
    \/ \E n \in Nodes, t \in Tokens : RequireWorkerToken(h, n, t)
    \/ \E n \in Nodes : RequireAdmin(h, n)
    \/ \E s \in WorkerStatuses : HeartbeatWorker(h, s)
    \/ \E c \in SUBSET Labels : AdvertiseReads(h, c) \/ TurnedAway(h, c)
    \/ AdvertiseWrites(h) \/ ClaimReads(h) \/ ClaimRuns(h)

RegistryNext ==
    \/ Operator
    \/ \E h \in Handlers : Enrollment(h) \/ WorkerCall(h) \/ HandlerDies(h)
    \/ TokensAge

RegistrySpec == RegistryInit /\ [][RegistryNext]_registryVars

-----------------------------------------------------------------------------
\* "The node consumes it once": however many handlers validated the same join
\* token before the first of them consumed it, one enrollment goes through.
TokenJoinsOnce == \A t \in Tokens : joined[t] <= 1

\* "a scoped worker credential must never manufacture a capability the
\* operator did not grant": through stale write-backs, re-enrollments and
\* reports, neither the row nor a claim ever uses more than was granted.
CapabilitiesGranted ==
    \A n \in Nodes :
        /\ worker[n] # NULL => worker[n].capabilities \subseteq granted[n]
        /\ claims[n] \subseteq granted[n]

\* enroll_node registers the worker before it creates its credential: whoever
\* holds a credential finds its row, also when a handler dies in between.
CredentialedIsRegistered ==
    \A n \in Nodes : credential[n] # NULL => worker[n] # NULL

\* A node "may be drained from the operator API before maintenance": once
\* drained it stays so until an operator or a new enrollment says otherwise.
DrainSticks ==
    \A n \in Nodes : worker[n] # NULL /\ drained[n] => worker[n].draining
=============================================================================
