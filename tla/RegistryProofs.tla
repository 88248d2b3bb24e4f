--------------------------- MODULE RegistryProofs ---------------------------
(***************************************************************************)
(* What the node registry guarantees for any numbers of nodes, tokens,     *)
(* labels and API threads, whatever the handlers read before others wrote. *)
(***************************************************************************)
EXTENDS NodeRegistry, TLAPS

\* Every call keeps the tables and the handlers' memories well typed.
LEMMA RegistryTypeStep ==
    ASSUME RegistryTypeOK, [RegistryNext]_registryVars PROVE RegistryTypeOK'
  <1> USE RegistryAssumption, RowAssumption DEF RegistryTypeOK
  <1>1. ASSUME NEW t \in Tokens, NEW n \in Nodes, NEW g \in SUBSET Labels, IssueToken(t, n, g)
        PROVE  RegistryTypeOK'
    <2>1. [node |-> n, grant |-> g, left |-> TokenSeconds, used |-> FALSE] \in TokenRow
      BY DEF TokenRow
    <2> QED BY <1>1, <2>1 DEF IssueToken, ghosts
  <1>2. ASSUME NEW n \in Nodes, NEW c \in SUBSET Labels, NEW s \in WorkerStatuses, NEW d \in BOOLEAN,
               RegisterWorker(n, c, s, d)
        PROVE  RegistryTypeOK'
    <2>1. Row(c, {}, s, d) \in WorkerRow
      BY DEF Row, WorkerRow
    <2> QED BY <1>2, <2>1 DEF RegisterWorker
  <1>3. ASSUME NEW n \in Nodes, NEW d \in BOOLEAN, DrainWorker(n, d) PROVE RegistryTypeOK'
    <2>1. [worker[n] EXCEPT !.draining = d] \in WorkerRow
      BY <1>3 DEF DrainWorker, WorkerRow
    <2> QED BY <1>3, <2>1 DEF DrainWorker
  <1>4. ASSUME NEW n \in Nodes, RevokeWorkerCredential(n) PROVE RegistryTypeOK'
    <2>1. [credential[n] EXCEPT !.revoked = TRUE] \in CredentialRow
      BY <1>4 DEF RevokeWorkerCredential, CredentialRow
    <2> QED BY <1>4, <2>1 DEF RevokeWorkerCredential, ghosts
  <1>5. ASSUME NEW h \in Handlers, Enrollment(h) PROVE RegistryTypeOK'
    <2>1. ASSUME NEW t \in Tokens, NEW c \in SUBSET Labels, EnrollValidates(h, t, c) PROVE RegistryTypeOK'
      <3>1. token[t] \in TokenRow
        BY <2>1 DEF EnrollValidates, TokenIsValid
      <3>2. [at |-> "validated", token |-> t, node |-> token[t].node,
             grant |-> token[t].grant, capabilities |-> c] \in Enrolling
        BY <3>1 DEF Enrolling, TokenRow
      <3> QED BY <2>1, <3>2 DEF EnrollValidates, Keeps, tables, ghosts
    <2>2. ASSUME handler[h] # NULL, handler[h].at \in {"validated", "consumed", "registered"}
          PROVE  handler[h] \in Enrolling
      BY <2>2 DEF Enrolling, Working, Holding
    <2>3. CASE EnrollConsumes(h)
      <3>1. handler[h] \in Enrolling /\ token[handler[h].token] \in TokenRow
        BY <2>2, <2>3 DEF EnrollConsumes, Holds, StillUnused, TokenIsValid, Enrolling
      <3>2. /\ [handler[h] EXCEPT !.at = "consumed"] \in Enrolling
            /\ [token[handler[h].token] EXCEPT !.used = TRUE] \in TokenRow
            /\ handler[h].token \in Tokens /\ handler[h].node \in Nodes /\ handler[h].grant \in SUBSET Labels
        BY <3>1 DEF Enrolling, TokenRow
      <3>3. token' \in [Tokens -> TokenRow \cup {NULL}] /\ joined' \in [Tokens -> Nat]
        BY <2>3, <3>2 DEF EnrollConsumes
      <3>4. granted' \in [Nodes -> SUBSET Labels]
        BY <2>3, <3>2 DEF EnrollConsumes
      <3> QED BY <2>3, <3>2, <3>3, <3>4 DEF EnrollConsumes, Keeps
    <2>4. CASE EnrollTooLate(h)
      BY <2>4 DEF EnrollTooLate, Replies, Keeps, tables, ghosts
    <2>5. CASE EnrollRegisters(h)
      <3>1. handler[h] \in Enrolling
        BY <2>2, <2>5 DEF EnrollRegisters, Holds
      <3>2. /\ [handler[h] EXCEPT !.at = "registered"] \in Enrolling
            /\ Row(handler[h].capabilities, handler[h].grant, "ready", FALSE) \in WorkerRow
            /\ handler[h].node \in Nodes
        BY <3>1 DEF Enrolling, Row, WorkerRow, WorkerStatuses
      <3> QED BY <2>5, <3>2 DEF EnrollRegisters, Keeps
    <2>6. CASE EnrollReplies(h)
      <3>1. handler[h] \in Enrolling
        BY <2>2, <2>6 DEF EnrollReplies, Holds
      <3>2. [secret |-> handler[h].token, revoked |-> FALSE] \in CredentialRow /\ handler[h].node \in Nodes
        BY <3>1 DEF Enrolling, CredentialRow
      <3> QED BY <2>6, <3>2 DEF EnrollReplies, Replies, Keeps, ghosts
    <2> QED BY <1>5, <2>1, <2>3, <2>4, <2>5, <2>6 DEF Enrollment
  <1>6. ASSUME NEW h \in Handlers, WorkerCall(h) PROVE RegistryTypeOK'
    <2>1. ASSUME NEW n \in Nodes, NEW a \in BOOLEAN, Keeps(h, [at |-> "admitted", node |-> n, admin |-> a]),
                 UNCHANGED <<tables, ghosts>>
          PROVE  RegistryTypeOK'
      <3>1. [at |-> "admitted", node |-> n, admin |-> a] \in Working
        BY DEF Working
      <3> QED BY <2>1, <3>1 DEF Keeps, tables, ghosts
    <2>2. CASE \/ \E n \in Nodes, t \in Tokens : RequireWorkerToken(h, n, t)
               \/ \E n \in Nodes : RequireAdmin(h, n)
      BY <2>1, <2>2 DEF RequireWorkerToken, RequireAdmin
    <2>3. ASSUME Holds(h, "admitted") PROVE handler[h] \in Working /\ handler[h].node \in Nodes
      BY <2>3 DEF Holds, Enrolling, Working, Holding
    <2>4. ASSUME NEW s \in WorkerStatuses, HeartbeatWorker(h, s) PROVE RegistryTypeOK'
      <3>1. \A n \in Nodes : worker[n] # NULL => [worker[n] EXCEPT !.status = s] \in WorkerRow
        BY DEF WorkerRow
      <3> QED BY <2>3, <2>4, <3>1 DEF HeartbeatWorker, UpdatedStatus, Replies, Keeps, ghosts
    <2>5. ASSUME NEW n \in Nodes, NEW at \in {"advertise", "claim"}, NEW row \in WorkerRow
          PROVE  [at |-> at, node |-> n, row |-> row] \in Holding
      BY DEF Holding
    <2>6. ASSUME NEW c \in SUBSET Labels, AdvertiseReads(h, c) PROVE RegistryTypeOK'
      <3>1. handler[h].node \in Nodes /\ worker[handler[h].node] \in WorkerRow
        BY <2>3, <2>6 DEF AdvertiseReads
      <3>2. [worker[handler[h].node] EXCEPT !.capabilities = c] \in WorkerRow
        BY <3>1 DEF WorkerRow
      <3>3. granted' \in [Nodes -> SUBSET Labels]
        BY <2>6, <3>1 DEF AdvertiseReads
      <3> QED BY <2>5, <2>6, <3>1, <3>2, <3>3 DEF AdvertiseReads, Keeps, tables
    <2>7. CASE \E c \in SUBSET Labels : TurnedAway(h, c)
      BY <2>7 DEF TurnedAway, Replies, Keeps, tables, ghosts
    <2>8. ASSUME handler[h] # NULL, handler[h].at \in {"advertise", "claim"}
          PROVE  handler[h].node \in Nodes /\ handler[h].row \in WorkerRow
      BY <2>8 DEF Enrolling, Working, Holding
    <2>9. CASE AdvertiseWrites(h)
      BY <2>8, <2>9 DEF AdvertiseWrites, Holds, Replies, Keeps, ghosts
    <2>10. CASE ClaimReads(h)
      BY <2>3, <2>5, <2>10 DEF ClaimReads, Keeps, tables, ghosts
    <2>11. CASE ClaimRuns(h)
      <3>1. handler[h].node \in Nodes /\ handler[h].row.capabilities \in SUBSET Labels
        BY <2>8, <2>11 DEF ClaimRuns, Holds, WorkerRow
      <3>2. claims' \in [Nodes -> SUBSET Labels]
        BY <2>11, <3>1 DEF ClaimRuns
      <3> QED BY <2>11, <3>2 DEF ClaimRuns, Replies, Keeps, tables
    <2> QED BY <1>6, <2>2, <2>4, <2>6, <2>7, <2>9, <2>10, <2>11 DEF WorkerCall
  <1>7. ASSUME NEW h \in Handlers, HandlerDies(h) PROVE RegistryTypeOK'
    BY <1>7 DEF HandlerDies, Replies, Keeps, tables, ghosts
  <1>8. CASE TokensAge
    <2>1. \A t \in Tokens : token[t] # NULL /\ token[t].left > 0 => [token[t] EXCEPT !.left = @ - 1] \in TokenRow
      <3> SUFFICES ASSUME NEW t \in Tokens, token[t] # NULL, token[t].left > 0
                   PROVE  [token[t] EXCEPT !.left = @ - 1] \in TokenRow
        OBVIOUS
      <3>1. token[t] \in TokenRow /\ token[t].left - 1 \in 0 .. TokenSeconds
        BY DEF TokenRow
      <3>2. \A l \in 0 .. TokenSeconds : [token[t] EXCEPT !.left = l] \in TokenRow
        BY <3>1 DEF TokenRow
      <3> QED BY <3>1, <3>2
    <2> QED BY <1>8, <2>1 DEF TokensAge, ghosts
  <1>9. CASE UNCHANGED registryVars
    BY <1>9 DEF registryVars, tables, ghosts
  <1> HIDE DEF RegistryTypeOK
  <1>10. CASE Operator
    BY <1>1, <1>2, <1>3, <1>4, <1>10 DEF Operator
  <1> QED
    BY <1>5, <1>6, <1>7, <1>8, <1>9, <1>10 DEF RegistryNext

-----------------------------------------------------------------------------
(***************************************************************************)
(* The inductive invariant ties what a handler remembers to what the       *)
(* tables and the operator's grants say when it goes on.                   *)
(***************************************************************************)
\* A token that was never issued or not used yet let nobody in.
TokenInv ==
    \A t \in Tokens :
        /\ joined[t] <= 1
        /\ token[t] = NULL \/ ~token[t].used => joined[t] = 0

\* Rows and claims stay within the grants; so does the grant a row carries,
\* which later reports are measured against.
TablesInv(n) ==
    /\ worker[n] # NULL =>
         /\ worker[n].capabilities \subseteq granted[n]
         /\ worker[n].grant \subseteq granted[n]
    /\ claims[n] \subseteq granted[n]
    /\ credential[n] # NULL => worker[n] # NULL

\* What a handler will write from memory.
MemoryInv(m) ==
    m # NULL =>
        /\ m.at \in {"validated", "consumed", "registered"} => m.capabilities \subseteq m.grant
        /\ m.at \in {"consumed", "registered"} => m.grant \subseteq granted[m.node]
        /\ m.at = "registered" => worker[m.node] # NULL
        /\ m.at \in {"advertise", "claim"} =>
             m.row.capabilities \subseteq granted[m.node] /\ m.row.grant \subseteq granted[m.node]

RegistryInv ==
    /\ RegistryTypeOK
    /\ TokenInv
    /\ \A n \in Nodes : TablesInv(n)
    /\ \A h \in Handlers : MemoryInv(handler[h])

\* Grants only grow, and a registered node stays registered: whatever a handler
\* knew of either still holds when it goes on.
LEMMA RegistryGrows ==
    ASSUME RegistryTypeOK, [RegistryNext]_registryVars, NEW n \in Nodes
    PROVE  granted[n] \subseteq granted'[n] /\ (worker[n] # NULL => worker'[n] # NULL)
  <1>0. RegistryTypeOK'
    BY RegistryTypeStep
  <1> USE RowAssumption DEF RegistryTypeOK
  <1>1. CASE Operator
    <2>1. ASSUME NEW m \in Nodes, NEW c \in SUBSET Labels, NEW s \in WorkerStatuses, NEW d \in BOOLEAN,
                 RegisterWorker(m, c, s, d)
          PROVE  granted[n] \subseteq granted'[n] /\ (worker[n] # NULL => worker'[n] # NULL)
      <3>1. Row(c, {}, s, d) \in WorkerRow
        BY DEF Row, WorkerRow
      <3> QED BY <2>1, <3>1 DEF RegisterWorker
    <2>2. ASSUME NEW m \in Nodes, NEW d \in BOOLEAN, DrainWorker(m, d)
          PROVE  granted[n] \subseteq granted'[n] /\ (worker[n] # NULL => worker'[n] # NULL)
      <3>1. [worker[m] EXCEPT !.draining = d] \in WorkerRow
        BY <2>2 DEF DrainWorker, WorkerRow
      <3> QED BY <2>2, <3>1 DEF DrainWorker
    <2>3. ASSUME UNCHANGED <<granted, worker>>
          PROVE  granted[n] \subseteq granted'[n] /\ (worker[n] # NULL => worker'[n] # NULL)
      BY <2>3
    <2> HIDE DEF RegistryTypeOK
    <2> QED BY <1>1, <2>1, <2>2, <2>3 DEF Operator, IssueToken, RevokeWorkerCredential, ghosts
  <1>2. ASSUME NEW h \in Handlers, Enrollment(h)
        PROVE  granted[n] \subseteq granted'[n] /\ (worker[n] # NULL => worker'[n] # NULL)
    <2>1. CASE EnrollConsumes(h)
      BY <2>1 DEF EnrollConsumes
    <2>2. CASE EnrollRegisters(h)
      <3>1. handler[h] \in Enrolling
        BY <2>2 DEF EnrollRegisters, Holds, Enrolling, Working, Holding
      <3>2. Row(handler[h].capabilities, handler[h].grant, "ready", FALSE) \in WorkerRow
        BY <3>1 DEF Enrolling, Row, WorkerRow, WorkerStatuses
      <3> QED BY <2>2, <3>2 DEF EnrollRegisters
    <2> QED
      BY <1>2, <2>1, <2>2 DEF Enrollment, EnrollValidates, EnrollTooLate, EnrollReplies, tables, ghosts
  <1>3. ASSUME NEW h \in Handlers, WorkerCall(h)
        PROVE  granted[n] \subseteq granted'[n] /\ (worker[n] # NULL => worker'[n] # NULL)
    <2>1. ASSUME NEW s \in WorkerStatuses, HeartbeatWorker(h, s)
          PROVE  granted[n] \subseteq granted'[n] /\ (worker[n] # NULL => worker'[n] # NULL)
      <3>1. worker[n] # NULL => [worker[n] EXCEPT !.status = s] \in WorkerRow
        BY DEF WorkerRow
      <3> QED BY <2>1, <3>1 DEF HeartbeatWorker, UpdatedStatus, ghosts
    <2>2. CASE AdvertiseWrites(h)
      <3>1. handler[h].row \in WorkerRow
        BY <2>2 DEF AdvertiseWrites, Holds, Enrolling, Working, Holding
      <3> QED BY <2>2, <3>1 DEF AdvertiseWrites, ghosts
    <2>3. ASSUME NEW c \in SUBSET Labels, AdvertiseReads(h, c)
          PROVE  granted[n] \subseteq granted'[n] /\ (worker[n] # NULL => worker'[n] # NULL)
      BY <2>3 DEF AdvertiseReads, tables
    <2> QED
      BY <1>3, <2>1, <2>2, <2>3
      DEF WorkerCall, RequireWorkerToken, RequireAdmin, TurnedAway, ClaimReads, ClaimRuns, tables, ghosts
  <1> HIDE DEF RegistryTypeOK
  <1> QED
    BY <1>1, <1>2, <1>3 DEF RegistryNext, HandlerDies, TokensAge, registryVars, tables, ghosts

\* So a handler that does nothing in a step remembers nothing wrong after it.
LEMMA MemoryKept ==
    ASSUME RegistryInv, [RegistryNext]_registryVars, NEW k \in Handlers,
           handler'[k] \in {handler[k], NULL}
    PROVE  MemoryInv(handler[k])'
  <1>1. handler[k] # NULL /\ handler[k].at # "admitted" => handler[k].node \in Nodes
    BY DEF RegistryInv, RegistryTypeOK, Enrolling, Working, Holding
  <1> QED BY <1>1, RegistryGrows DEF RegistryInv, MemoryInv

\* A join token lets one enrollment through, however many handlers read it as
\* valid: the consumption looks at it again.
LEMMA TokenInvStep ==
    ASSUME RegistryInv, [RegistryNext]_registryVars PROVE TokenInv'
  <1> USE RowAssumption DEF RegistryInv, RegistryTypeOK, TokenInv
  <1>1. CASE UNCHANGED <<token, joined>>
    BY <1>1
  <1>2. ASSUME NEW t \in Tokens, NEW n \in Nodes, NEW g \in SUBSET Labels, IssueToken(t, n, g) PROVE TokenInv'
    BY <1>2 DEF IssueToken, ghosts
  <1>3. ASSUME NEW h \in Handlers, EnrollConsumes(h) PROVE TokenInv'
    <2>1. handler[h].token \in Tokens
      BY <1>3 DEF EnrollConsumes, Holds, Enrolling, Working, Holding
    <2>2. token[handler[h].token] \in TokenRow /\ ~ token[handler[h].token].used
      BY <1>3, <2>1 DEF EnrollConsumes, StillUnused, TokenIsValid
    <2>3. token'[handler[h].token] \in TokenRow /\ token'[handler[h].token].used
      BY <1>3, <2>1, <2>2 DEF EnrollConsumes, TokenRow
    <2>4. joined'[handler[h].token] = 1
      BY <1>3, <2>1, <2>2 DEF EnrollConsumes
    <2>5. \A t \in Tokens \ {handler[h].token} : token'[t] = token[t] /\ joined'[t] = joined[t]
      BY <1>3, <2>1 DEF EnrollConsumes
    <2> QED BY <2>3, <2>4, <2>5
  <1>4. CASE TokensAge
    <2>1. ASSUME NEW t \in Tokens PROVE (token'[t] = NULL \/ ~token'[t].used) => joined'[t] = 0
      <3>1. CASE token[t] # NULL /\ token[t].left > 0
        <4>1. token[t] \in TokenRow
          BY <3>1
        <4>2. token'[t].used = token[t].used
          BY <1>4, <3>1, <4>1 DEF TokensAge, TokenRow
        <4>3. token'[t] # NULL
          <5>1. RegistryTypeOK'
            BY RegistryTypeStep
          <5>2. token[t].left - 1 \in 0 .. TokenSeconds
            BY <3>1, <4>1, RegistryAssumption DEF TokenRow
          <5>3. \A l \in 0 .. TokenSeconds : [token[t] EXCEPT !.left = l] \in TokenRow
            BY <4>1 DEF TokenRow
          <5> QED BY <1>4, <3>1, <5>2, <5>3 DEF TokensAge
        <4> QED BY <1>4, <3>1, <4>2, <4>3 DEF TokensAge, ghosts
      <3>2. CASE ~ (token[t] # NULL /\ token[t].left > 0)
        BY <1>4, <3>2 DEF TokensAge, ghosts
      <3> QED BY <3>1, <3>2
    <2> QED BY <1>4, <2>1 DEF TokensAge, ghosts
  <1> HIDE DEF RegistryInv, RegistryTypeOK, TokenInv
  <1>5. CASE Operator
    BY <1>1, <1>2, <1>5 DEF Operator, RegisterWorker, DrainWorker, RevokeWorkerCredential, ghosts
  <1>6. ASSUME NEW h \in Handlers, Enrollment(h) \/ WorkerCall(h) \/ HandlerDies(h) PROVE TokenInv'
    BY <1>1, <1>3, <1>6
    DEF Enrollment, EnrollValidates, EnrollTooLate, EnrollRegisters, EnrollReplies, WorkerCall,
        RequireWorkerToken, RequireAdmin, HeartbeatWorker, AdvertiseReads, AdvertiseWrites, ClaimReads,
        ClaimRuns, TurnedAway, HandlerDies, tables, ghosts
  <1> QED BY <1>1, <1>4, <1>5, <1>6 DEF RegistryNext, registryVars, tables, ghosts
\* The rows and claims of a node stay within what it was ever granted.
LEMMA TablesInvStep ==
    ASSUME RegistryInv, [RegistryNext]_registryVars, NEW n \in Nodes PROVE TablesInv(n)'
  <1>0. TablesInv(n)
    BY DEF RegistryInv
  <1>1. granted[n] \subseteq granted'[n] /\ (worker[n] # NULL => worker'[n] # NULL)
    BY RegistryGrows DEF RegistryInv
  <1>2. ASSUME worker'[n] = worker[n], claims'[n] = claims[n], credential'[n] = NULL \/ credential[n] # NULL
        PROVE  TablesInv(n)'
    BY <1>0, <1>1, <1>2 DEF TablesInv
  <1>3. ASSUME claims'[n] = claims[n], credential'[n] = NULL \/ credential[n] # NULL, worker'[n] # NULL,
               worker'[n].capabilities \subseteq granted'[n], worker'[n].grant \subseteq granted'[n]
        PROVE  TablesInv(n)'
    BY <1>0, <1>1, <1>3 DEF TablesInv
  <1> USE RowAssumption
  <1>4. ASSUME NEW m \in Nodes, NEW c \in SUBSET Labels, NEW s \in WorkerStatuses, NEW d \in BOOLEAN,
               RegisterWorker(m, c, s, d)
        PROVE  TablesInv(n)'
    <2>1. claims' = claims /\ credential' = credential
      BY <1>4 DEF RegisterWorker
    <2>2. CASE m # n
      BY <1>2, <1>4, <2>1, <2>2 DEF RegisterWorker, RegistryInv, RegistryTypeOK
    <2>3. CASE m = n
      <3>1. Row(c, {}, s, d) \in WorkerRow
        BY DEF Row, WorkerRow
      <3>2. worker'[n] = Row(c, {}, s, d) /\ c \subseteq granted'[n]
        BY <1>4, <2>3 DEF RegisterWorker, RegistryInv, RegistryTypeOK
      <3>3. worker'[n].capabilities = c /\ worker'[n].grant = {}
        BY <3>2 DEF Row
      <3> QED BY <1>3, <2>1, <3>1, <3>2, <3>3
    <2> QED BY <2>2, <2>3
  <1>5. ASSUME NEW m \in Nodes, NEW d \in BOOLEAN, DrainWorker(m, d) PROVE TablesInv(n)'
    <2>1. claims' = claims /\ credential' = credential
      BY <1>5 DEF DrainWorker
    <2>2. CASE m # n
      BY <1>2, <1>5, <2>1, <2>2 DEF DrainWorker, RegistryInv, RegistryTypeOK
    <2>3. CASE m = n
      <3>1. worker[n] \in WorkerRow /\ worker'[n] = [worker[n] EXCEPT !.draining = d]
        BY <1>5, <2>3 DEF DrainWorker, RegistryInv, RegistryTypeOK
      <3>2. worker'[n].capabilities = worker[n].capabilities /\ worker'[n].grant = worker[n].grant
        BY <3>1 DEF WorkerRow
      <3> QED BY <1>0, <1>1, <1>3, <2>1, <3>1, <3>2 DEF TablesInv
    <2> QED BY <2>2, <2>3
  <1>6. ASSUME NEW m \in Nodes, RevokeWorkerCredential(m) PROVE TablesInv(n)'
    <2>1. worker' = worker /\ claims' = claims
      BY <1>6 DEF RevokeWorkerCredential, ghosts
    <2>2. credential'[n] = NULL \/ credential[n] # NULL
      BY <1>6 DEF RevokeWorkerCredential, RegistryInv, RegistryTypeOK
    <2> QED BY <1>2, <2>1, <2>2
  <1>7. ASSUME NEW h \in Handlers, EnrollRegisters(h) PROVE TablesInv(n)'
    <2>1. claims' = claims /\ credential' = credential /\ granted' = granted
      BY <1>7 DEF EnrollRegisters
    <2>2. handler[h] \in Enrolling /\ handler[h].at = "consumed"
      BY <1>7 DEF EnrollRegisters, Holds, RegistryInv, RegistryTypeOK, Enrolling, Working, Holding
    <2>3. CASE handler[h].node # n
      BY <1>2, <1>7, <2>1, <2>3 DEF EnrollRegisters, RegistryInv, RegistryTypeOK
    <2>4. CASE handler[h].node = n
      <3>1. worker'[n] = Row(handler[h].capabilities, handler[h].grant, "ready", FALSE)
        BY <1>7, <2>4 DEF EnrollRegisters, RegistryInv, RegistryTypeOK
      <3>2. handler[h].capabilities \subseteq handler[h].grant /\ handler[h].grant \subseteq granted[n]
        BY <1>7, <2>2, <2>4 DEF EnrollRegisters, Holds, RegistryInv, MemoryInv
      <3>3. worker'[n].capabilities = handler[h].capabilities /\ worker'[n].grant = handler[h].grant
        BY <3>1 DEF Row
      <3>4. worker'[n] \in WorkerRow
        BY <2>2, <3>1 DEF Row, WorkerRow, Enrolling, WorkerStatuses
      <3> QED BY <1>3, <2>1, <3>2, <3>3, <3>4
    <2> QED BY <2>3, <2>4
  <1>8. ASSUME NEW h \in Handlers, EnrollReplies(h) PROVE TablesInv(n)'
    <2>1. worker' = worker /\ claims' = claims /\ granted' = granted
      BY <1>8 DEF EnrollReplies, ghosts
    <2>2. handler[h].node = n => worker[n] # NULL
      BY <1>8 DEF EnrollReplies, Holds, RegistryInv, MemoryInv
    <2>3. handler[h].node # n => credential'[n] = credential[n]
      BY <1>8 DEF EnrollReplies, RegistryInv, RegistryTypeOK
    <2> QED BY <1>0, <2>1, <2>2, <2>3 DEF TablesInv
  <1>9. ASSUME NEW h \in Handlers, NEW s \in WorkerStatuses, HeartbeatWorker(h, s) PROVE TablesInv(n)'
    <2>1. claims' = claims /\ credential' = credential
      BY <1>9 DEF HeartbeatWorker, ghosts
    <2>2. CASE worker[n] = NULL \/ handler[h].node # n
      BY <1>2, <1>9, <2>1, <2>2 DEF HeartbeatWorker, UpdatedStatus, RegistryInv, RegistryTypeOK
    <2>3. CASE worker[n] # NULL /\ handler[h].node = n
      <3>1. worker[n] \in WorkerRow /\ worker'[n] = [worker[n] EXCEPT !.status = s]
        BY <1>9, <2>3 DEF HeartbeatWorker, UpdatedStatus, RegistryInv, RegistryTypeOK
      <3>2. worker'[n].capabilities = worker[n].capabilities /\ worker'[n].grant = worker[n].grant
        BY <3>1 DEF WorkerRow
      <3> QED BY <1>0, <1>1, <1>3, <2>1, <2>3, <3>2 DEF TablesInv
    <2> QED BY <2>2, <2>3
  <1>10. ASSUME NEW h \in Handlers, AdvertiseWrites(h) PROVE TablesInv(n)'
    <2>1. claims' = claims /\ credential' = credential /\ granted' = granted
      BY <1>10 DEF AdvertiseWrites, ghosts
    <2>2. CASE handler[h].node # n
      BY <1>2, <1>10, <2>1, <2>2 DEF AdvertiseWrites, RegistryInv, RegistryTypeOK
    <2>3. CASE handler[h].node = n
      <3>1. handler[h].row \in WorkerRow
        BY <1>10 DEF AdvertiseWrites, Holds, RegistryInv, RegistryTypeOK, Enrolling, Working, Holding
      <3>2. worker'[n] = handler[h].row
        BY <1>10, <2>3 DEF AdvertiseWrites, RegistryInv, RegistryTypeOK
      <3>3. handler[h].row.capabilities \subseteq granted[n] /\ handler[h].row.grant \subseteq granted[n]
        BY <1>10, <2>3 DEF AdvertiseWrites, Holds, RegistryInv, MemoryInv
      <3> QED BY <1>3, <2>1, <3>1, <3>2, <3>3
    <2> QED BY <2>2, <2>3
  <1>11. ASSUME NEW h \in Handlers, ClaimRuns(h) PROVE TablesInv(n)'
    <2>1. worker' = worker /\ credential' = credential /\ granted' = granted
      BY <1>11 DEF ClaimRuns, tables
    <2>2. handler[h].node = n => handler[h].row.capabilities \subseteq granted[n]
      BY <1>11 DEF ClaimRuns, Holds, RegistryInv, MemoryInv
    <2>3. claims'[n] = IF handler[h].node = n THEN claims[n] \cup handler[h].row.capabilities ELSE claims[n]
      BY <1>11 DEF ClaimRuns, RegistryInv, RegistryTypeOK
    <2> QED BY <1>0, <2>1, <2>2, <2>3 DEF TablesInv
  <1>12. CASE UNCHANGED <<worker, credential, claims>>
    BY <1>2, <1>12
  <1>13. CASE Operator
    BY <1>4, <1>5, <1>6, <1>12, <1>13 DEF Operator, IssueToken, ghosts
  <1>14. ASSUME NEW h \in Handlers, Enrollment(h) PROVE TablesInv(n)'
    BY <1>7, <1>8, <1>12, <1>14
    DEF Enrollment, EnrollValidates, EnrollConsumes, EnrollTooLate, tables, ghosts
  <1>15. ASSUME NEW h \in Handlers, WorkerCall(h) PROVE TablesInv(n)'
    BY <1>9, <1>10, <1>11, <1>12, <1>15
    DEF WorkerCall, RequireWorkerToken, RequireAdmin, AdvertiseReads, ClaimReads, TurnedAway, tables, ghosts
  <1> QED
    BY <1>12, <1>13, <1>14, <1>15 DEF RegistryNext, HandlerDies, TokensAge, registryVars, tables, ghosts
\* What a handler puts into its memory, it may later write.
LEMMA MemoryInvStep ==
    ASSUME RegistryInv, [RegistryNext]_registryVars, NEW k \in Handlers PROVE MemoryInv(handler[k])'
  <1>1. CASE handler'[k] \in {handler[k], NULL}
    BY <1>1, MemoryKept
  <1> USE RowAssumption
  <1>2. ASSUME NEW t \in Tokens, NEW c \in SUBSET Labels, EnrollValidates(k, t, c)
        PROVE  MemoryInv(handler[k])'
    <2>1. handler'[k] = [at |-> "validated", token |-> t, node |-> token[t].node,
                         grant |-> token[t].grant, capabilities |-> c]
      BY <1>2 DEF EnrollValidates, Keeps, RegistryInv, RegistryTypeOK
    <2>2. handler'[k].at = "validated" /\ handler'[k].capabilities = c /\ handler'[k].grant = token[t].grant
      BY <2>1
    <2> QED BY <1>2, <2>2 DEF MemoryInv, EnrollValidates
  <1>3. CASE EnrollConsumes(k)
    <2>1. handler[k] \in Enrolling /\ handler[k].at = "validated" /\ handler[k].node \in Nodes
      BY <1>3 DEF EnrollConsumes, Holds, RegistryInv, RegistryTypeOK, Enrolling, Working, Holding
    <2>2. handler'[k] = [handler[k] EXCEPT !.at = "consumed"]
      BY <1>3 DEF EnrollConsumes, Keeps, RegistryInv, RegistryTypeOK
    <2>3. /\ handler'[k].at = "consumed"
          /\ handler'[k].node = handler[k].node /\ handler'[k].grant = handler[k].grant
          /\ handler'[k].capabilities = handler[k].capabilities
      BY <2>1, <2>2 DEF Enrolling
    <2>4. handler[k].capabilities \subseteq handler[k].grant
      BY <1>3, <2>1 DEF EnrollConsumes, Holds, RegistryInv, MemoryInv
    <2>5. handler[k].grant \subseteq granted'[handler[k].node]
      BY <1>3, <2>1 DEF EnrollConsumes, RegistryInv, RegistryTypeOK
    <2> QED BY <2>3, <2>4, <2>5 DEF MemoryInv
  <1>4. CASE EnrollRegisters(k)
    <2>1. handler[k] \in Enrolling /\ handler[k].at = "consumed" /\ handler[k].node \in Nodes
      BY <1>4 DEF EnrollRegisters, Holds, RegistryInv, RegistryTypeOK, Enrolling, Working, Holding
    <2>2. handler'[k] = [handler[k] EXCEPT !.at = "registered"]
      BY <1>4 DEF EnrollRegisters, Keeps, RegistryInv, RegistryTypeOK
    <2>3. /\ handler'[k].at = "registered"
          /\ handler'[k].node = handler[k].node /\ handler'[k].grant = handler[k].grant
          /\ handler'[k].capabilities = handler[k].capabilities
      BY <2>1, <2>2 DEF Enrolling
    <2>4. handler[k].capabilities \subseteq handler[k].grant /\ handler[k].grant \subseteq granted[handler[k].node]
      BY <1>4, <2>1 DEF EnrollRegisters, Holds, RegistryInv, MemoryInv
    <2>5. Row(handler[k].capabilities, handler[k].grant, "ready", FALSE) \in WorkerRow
      BY <2>1 DEF Enrolling, Row, WorkerRow, WorkerStatuses
    <2>6. worker'[handler[k].node] # NULL /\ granted' = granted
      BY <1>4, <2>1, <2>5 DEF EnrollRegisters, RegistryInv, RegistryTypeOK
    <2> QED BY <2>3, <2>4, <2>6 DEF MemoryInv
  <1>5. ASSUME NEW n \in Nodes, NEW a \in BOOLEAN, Keeps(k, [at |-> "admitted", node |-> n, admin |-> a])
        PROVE  MemoryInv(handler[k])'
    BY <1>5 DEF Keeps, RegistryInv, RegistryTypeOK, MemoryInv
  <1>6. ASSUME Holds(k, "admitted") PROVE handler[k].node \in Nodes
    BY <1>6 DEF Holds, RegistryInv, RegistryTypeOK, Enrolling, Working, Holding
  <1>7. ASSUME NEW n \in Nodes, worker[n] # NULL
        PROVE  /\ worker[n] \in WorkerRow
               /\ worker[n].capabilities \subseteq granted[n] /\ worker[n].grant \subseteq granted[n]
    BY <1>7 DEF RegistryInv, RegistryTypeOK, TablesInv
  <1>8. ASSUME NEW c \in SUBSET Labels, AdvertiseReads(k, c) PROVE MemoryInv(handler[k])'
    <2> DEFINE n == handler[k].node
    <2>1. n \in Nodes /\ worker[n] # NULL
      BY <1>6, <1>8 DEF AdvertiseReads
    <2>2. /\ worker[n] \in WorkerRow
          /\ worker[n].capabilities \subseteq granted[n] /\ worker[n].grant \subseteq granted[n]
      BY <1>7, <2>1
    <2>3. handler'[k] = [at |-> "advertise", node |-> n, row |-> [worker[n] EXCEPT !.capabilities = c]]
      BY <1>8 DEF AdvertiseReads, Keeps, RegistryInv, RegistryTypeOK
    <2>4. /\ handler'[k].at = "advertise" /\ handler'[k].node = n
          /\ handler'[k].row.capabilities = c /\ handler'[k].row.grant = worker[n].grant
      BY <2>2, <2>3 DEF WorkerRow
    <2>5. granted[n] \subseteq granted'[n]
      BY <2>1, RegistryGrows DEF RegistryInv
    <2>6. c \subseteq granted'[n]
      <3>1. CASE handler[k].admin
        BY <1>8, <2>1, <3>1 DEF AdvertiseReads, RegistryInv, RegistryTypeOK
      <3>2. CASE ~ handler[k].admin
        BY <1>8, <2>2, <2>5, <3>2 DEF AdvertiseReads, MayAdvertise, Approved
      <3> QED BY <3>1, <3>2
    <2> QED BY <2>2, <2>4, <2>5, <2>6 DEF MemoryInv
  <1>9. CASE ClaimReads(k)
    <2> DEFINE n == handler[k].node
    <2>1. n \in Nodes /\ worker[n] # NULL /\ granted' = granted
      BY <1>6, <1>9 DEF ClaimReads, ghosts
    <2>2. handler'[k] = [at |-> "claim", node |-> n, row |-> worker[n]]
      BY <1>9 DEF ClaimReads, Keeps, RegistryInv, RegistryTypeOK
    <2>3. handler'[k].at = "claim" /\ handler'[k].node = n /\ handler'[k].row = worker[n]
      BY <2>2
    <2> QED BY <1>7, <2>1, <2>3 DEF MemoryInv
  <1>10. ASSUME NEW h \in Handlers, h # k, NEW m, Keeps(h, m) PROVE MemoryInv(handler[k])'
    BY <1>1, <1>10 DEF Keeps, RegistryInv, RegistryTypeOK
  <1>11. ASSUME Replies(k) PROVE MemoryInv(handler[k])'
    BY <1>1, <1>11 DEF Replies, Keeps, RegistryInv, RegistryTypeOK
  <1>12. ASSUME NEW h \in Handlers, h # k, Enrollment(h) \/ WorkerCall(h) \/ HandlerDies(h)
         PROVE  MemoryInv(handler[k])'
    BY <1>10, <1>12
    DEF Enrollment, EnrollValidates, EnrollConsumes, EnrollTooLate, EnrollRegisters, EnrollReplies, WorkerCall,
        RequireWorkerToken, RequireAdmin, HeartbeatWorker, AdvertiseReads, AdvertiseWrites, ClaimReads,
        ClaimRuns, TurnedAway, HandlerDies, Replies
  <1>13. CASE Enrollment(k)
    BY <1>2, <1>3, <1>4, <1>11, <1>13 DEF Enrollment, EnrollTooLate, EnrollReplies
  <1>14. CASE WorkerCall(k)
    BY <1>5, <1>8, <1>9, <1>11, <1>14
    DEF WorkerCall, RequireWorkerToken, RequireAdmin, HeartbeatWorker, AdvertiseWrites, ClaimRuns, TurnedAway
  <1>15. CASE HandlerDies(k)
    BY <1>11, <1>15 DEF HandlerDies
  <1>16. CASE Operator
    BY <1>1, <1>16 DEF Operator, IssueToken, RegisterWorker, DrainWorker, RevokeWorkerCredential
  <1>17. CASE TokensAge \/ UNCHANGED registryVars
    BY <1>1, <1>17 DEF TokensAge, registryVars
  <1> QED
    BY <1>12, <1>13, <1>14, <1>15, <1>16, <1>17 DEF RegistryNext

-----------------------------------------------------------------------------
\* Nothing is stored before the first call.
LEMMA RegistryInvInit == RegistryInit => RegistryInv
  <1> SUFFICES ASSUME RegistryInit PROVE RegistryInv
    OBVIOUS
  <1> USE DEF RegistryInit
  <1>1. RegistryTypeOK
    BY DEF RegistryTypeOK
  <1>2. TokenInv
    BY DEF TokenInv
  <1>3. \A n \in Nodes : TablesInv(n)
    BY DEF TablesInv
  <1>4. \A h \in Handlers : MemoryInv(handler[h])
    BY DEF MemoryInv
  <1> QED BY <1>1, <1>2, <1>3, <1>4 DEF RegistryInv

\* The registry invariant holds in every state of every interleaving of the
\* handlers, including the ones where handlers die between two store calls.
THEOREM RegistryInvariance == RegistrySpec => []RegistryInv
  <1>1. RegistryInv /\ [RegistryNext]_registryVars => RegistryInv'
    <2> SUFFICES ASSUME RegistryInv, [RegistryNext]_registryVars PROVE RegistryInv'
      OBVIOUS
    <2>1. RegistryTypeOK'
      BY RegistryTypeStep DEF RegistryInv
    <2> QED BY <2>1, TokenInvStep, TablesInvStep, MemoryInvStep DEF RegistryInv
  <1> QED BY RegistryInvInit, <1>1, PTL DEF RegistrySpec

\* consume_enrollment_token admits one enrollment per join token, for any number
\* of handlers that validated the token before it was consumed.
THEOREM JoinTokensAreUsedOnce == RegistrySpec => []TokenJoinsOnce
  <1>1. RegistryInv => TokenJoinsOnce
    BY DEF RegistryInv, TokenInv, TokenJoinsOnce
  <1> QED BY <1>1, RegistryInvariance, PTL

\* No row, and no claim made from a row read earlier, ever shows a capability
\* that no operator granted the node.
THEOREM NoCapabilityIsManufactured == RegistrySpec => []CapabilitiesGranted
  <1>1. RegistryInv => CapabilitiesGranted
    BY DEF RegistryInv, TablesInv, CapabilitiesGranted
  <1> QED BY <1>1, RegistryInvariance, PTL

\* enroll_node's order of calls: a credential always has its workers row, also
\* after a handler died in between.
THEOREM CredentialsHaveRows == RegistrySpec => []CredentialedIsRegistered
  <1>1. RegistryInv => CredentialedIsRegistered
    BY DEF RegistryInv, TablesInv, CredentialedIsRegistered
  <1> QED BY <1>1, RegistryInvariance, PTL
=============================================================================
