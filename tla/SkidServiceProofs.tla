------------------------- MODULE SkidServiceProofs -------------------------
(***************************************************************************)
(* Proofs about the skid service: for any number of callers, sessions and  *)
(* subscriptions, what it does to its OPC-UA client is what the client on  *)
(* its own may do, which keeps one keepalive task and every subscription;  *)
(* and from the first await of its stop on it opens no link any more.      *)
(***************************************************************************)
EXTENDS SkidService, TLAPS

(* Types of the client *)

LEMMA OpcTypeInit == OpcInit => OpcTypeOK
  <1> SUFFICES ASSUME OpcInit PROVE OpcTypeOK
    OBVIOUS
  <1>1. registered \in Seq(Subscriptions) /\ index \in Nat /\ faults \in Nat
    BY DEF OpcInit
  <1>2. op \in [Callers -> [session : Sessions \cup {None}, sub : Subscriptions \cup {None}]]
    BY DEF OpcInit, Idle
  <1> QED
    BY <1>1, <1>2 DEF OpcInit, OpcTypeOK

LEMMA AfterRestoringType == \A i : AfterRestoring(i) \in {"asleep", "restoring"}
  BY DEF AfterRestoring

\* Opening a session.
LEMMA OpenClientType ==
  ASSUME OpcTypeOK, OpenClient
  PROVE  OpcTypeOK'
  <1>1. client' \in Sessions
    BY DEF OpenClient, Unused
  <1>2. session' \in [Sessions -> {"none", "opening", "open", "lost", "closed"}]
    BY <1>1 DEF OpenClient, Only, OpcTypeOK
  <1>3. monitored' \in [Sessions -> SUBSET Subscriptions]
    BY DEF OpenClient, Only, OpcTypeOK
  <1>4. refused' \in [Sessions -> SUBSET Subscriptions]
    BY DEF OpenClient, Only, OpcTypeOK
  <1> QED
    BY <1>1, <1>2, <1>3, <1>4 DEF OpenClient, OpcTypeOK

\* An entry that is being restored is there.
IndexInv == linker = "restoring" => index \in DOMAIN registered

\* Before its first session and between sessions the client does not take itself to be connected.
ConnectingInv ==
  /\ linker \in {"idle", "connecting"} => ~connected
  /\ linker \in {"connecting", "restoring"} => client \in Sessions

LEMMA RestoreType ==
  ASSUME OpcTypeOK, IndexInv, Restore
  PROVE  OpcTypeOK'
  <1>1. registered[index] \in Subscriptions
    BY DEF Restore, IndexInv, OpcTypeOK
  <1>2. monitored' \in [Sessions -> SUBSET Subscriptions]
    BY <1>1 DEF Restore, OpcTypeOK
  <1>3. refused' \in [Sessions -> SUBSET Subscriptions]
    BY <1>1 DEF Restore, OpcTypeOK
  <1>4. index' \in Nat /\ linker' \in {"asleep", "restoring"}
    BY AfterRestoringType DEF Restore, OpcTypeOK
  <1>5. faults' \in Nat
    BY DEF Restore, Rejected, NoAnswer, Fault, OpcTypeOK
  <1> QED
    BY <1>2, <1>3, <1>4, <1>5 DEF Restore, OpcTypeOK

\* Operations of the callers.
LEMMA CallerType ==
  ASSUME OpcTypeOK, NEW c \in Callers,
         Operate(c) \/ Returns(c) \/ \E sub \in Subscriptions : Subscribe(c, sub)
  PROVE  OpcTypeOK'
  <1>1. CASE Operate(c)
    BY <1>1 DEF Operate, Usable, OpcTypeOK, linkVars, subscriptionVars
  <1>2. CASE Answered(c)
    BY <1>2 DEF Answered, Idle, OpcTypeOK, linkVars, subscriptionVars
  <1>3. CASE OperationFails(c)
    <2>1. faults' \in Nat
      BY <1>3 DEF OperationFails, NoAnswer, Rejected, Fault, OpcTypeOK
    <2>2. op' \in [Callers -> [session : Sessions \cup {None}, sub : Subscriptions \cup {None}]]
      BY <1>3 DEF OperationFails, Idle, OpcTypeOK
    <2>3. connected' \in BOOLEAN /\ alive' \subseteq Sessions
      BY <1>3 DEF OperationFails, HandleError, OpcTypeOK
    <2> QED
      BY <1>3, <2>1, <2>2, <2>3 DEF OperationFails, OpcTypeOK, subscriptionVars
  <1>4. CASE Subscribed(c)
    <2>1. op[c].sub \in Subscriptions
      BY <1>4 DEF Subscribed, OpcTypeOK
    <2>2. monitored' \in [Sessions -> SUBSET Subscriptions]
      BY <1>4, <2>1 DEF Subscribed, OpcTypeOK
    <2> QED
      BY <1>4, <2>2 DEF Subscribed, Idle, OpcTypeOK, linkVars
  <1>5. CASE SubscribeFails(c)
    <2>1. op[c].sub \in Subscriptions
      BY <1>5 DEF SubscribeFails, OpcTypeOK
    <2>2. refused' \in [Sessions -> SUBSET Subscriptions] /\ faults' \in Nat
      BY <1>5, <2>1 DEF SubscribeFails, NoAnswer, Rejected, Fault, OpcTypeOK
    <2> QED
      BY <1>5, <2>2 DEF SubscribeFails, Idle, OpcTypeOK, linkVars
  <1>6. ASSUME NEW sub \in Subscriptions, Subscribe(c, sub)
        PROVE  OpcTypeOK'
    BY <1>6 DEF Subscribe, Usable, OpcTypeOK, linkVars
  <1> QED
    BY <1>1, <1>2, <1>3, <1>4, <1>5, <1>6 DEF Returns

LEMMA OpcTypeStep ==
  ASSUME OpcTypeOK, IndexInv, ConnectingInv, [OpcNext]_opcVars
  PROVE  OpcTypeOK'
  <1>1. CASE Connect \/ Retry
    BY <1>1, OpenClientType DEF Connect, Retry
  <1>2. CASE Opened
    BY <1>2, AfterRestoringType DEF ConnectingInv, Opened, NewKeepalive, OpcTypeOK, subscriptionVars
  <1>3. CASE OpenFails
    <2>1. session' \in [Sessions -> {"none", "opening", "open", "lost", "closed"}]
      BY <1>3 DEF OpenFails, OpcTypeOK
    <2>2. faults' \in Nat
      BY <1>3 DEF OpenFails, Fault, OpcTypeOK
    <2> QED
      BY <1>3, <2>1, <2>2 DEF OpenFails, OpcTypeOK, subscriptionVars
  <1>4. CASE Restore
    BY <1>4, RestoreType
  <1>5. ASSUME NEW s \in Sessions, Lose(s) PROVE OpcTypeOK'
    BY <1>5 DEF Lose, Fault, OpcTypeOK, subscriptionVars
  <1>6. ASSUME NEW s \in Sessions, KeepaliveFails(s) PROVE OpcTypeOK'
    <2>1. faults' \in Nat
      BY <1>6 DEF KeepaliveFails, NoAnswer, Rejected, Fault, OpcTypeOK
    <2> QED
      BY <1>6, <2>1 DEF KeepaliveFails, OpcTypeOK, subscriptionVars
  <1>7. CASE DisconnectBegins
    BY <1>7 DEF DisconnectBegins, OpcTypeOK, subscriptionVars
  <1>8. CASE DisconnectEnds
    BY <1>8 DEF DisconnectEnds, OpcTypeOK, subscriptionVars
  <1>9. CASE UNCHANGED opcVars
    BY <1>9 DEF opcVars, linkVars, subscriptionVars, OpcTypeOK
  <1> QED
    BY <1>1, <1>2, <1>3, <1>4, <1>5, <1>6, <1>7, <1>8, <1>9, CallerType DEF OpcNext

-----------------------------------------------------------------------------
(* One keepalive task *)

KeepaliveInv == OneKeepalive /\ ConnectingInv

LEMMA KeepaliveStep ==
  ASSUME KeepaliveInv, [OpcNext]_opcVars
  PROVE  KeepaliveInv'
  <1>1. CASE Connect \/ Retry
    <2>1. OpenClient /\ ~connected /\ linker # "closed"
      BY <1>1 DEF Connect, Retry, KeepaliveInv, ConnectingInv
    <2>2. client' \in Sessions
      BY <2>1 DEF OpenClient, Unused
    <2> QED
      BY <2>1, <2>2 DEF OpenClient, KeepaliveInv, OneKeepalive, ConnectingInv
  <1>2. CASE Opened
    BY <1>2, AfterRestoringType DEF Opened, NewKeepalive, KeepaliveInv, OneKeepalive, ConnectingInv
  <1>3. CASE OpenFails
    BY <1>3 DEF OpenFails, KeepaliveInv, OneKeepalive, ConnectingInv
  <1>4. CASE Restore
    BY <1>4, AfterRestoringType DEF Restore, KeepaliveInv, OneKeepalive, ConnectingInv
  <1>5. ASSUME NEW s \in Sessions, Lose(s) PROVE KeepaliveInv'
    BY <1>5 DEF Lose, KeepaliveInv, OneKeepalive, ConnectingInv
  <1>6. ASSUME NEW s \in Sessions, KeepaliveFails(s) PROVE KeepaliveInv'
    BY <1>6 DEF KeepaliveFails, KeepaliveInv, OneKeepalive, ConnectingInv
  <1>7. ASSUME NEW c \in Callers, OperationFails(c) PROVE KeepaliveInv'
    BY <1>7 DEF OperationFails, HandleError, KeepaliveInv, OneKeepalive, ConnectingInv
  <1>8. ASSUME NEW c \in Callers,
               Operate(c) \/ Answered(c) \/ Subscribed(c) \/ SubscribeFails(c)
                 \/ \E sub \in Subscriptions : Subscribe(c, sub)
        PROVE  KeepaliveInv'
    <2>1. UNCHANGED linkVars
      BY <1>8 DEF Operate, Answered, Subscribed, SubscribeFails, Subscribe
    <2> QED
      BY <2>1 DEF linkVars, KeepaliveInv, OneKeepalive, ConnectingInv
  <1>9. CASE DisconnectBegins
    BY <1>9 DEF DisconnectBegins, KeepaliveInv, OneKeepalive, ConnectingInv
  <1>10. CASE DisconnectEnds
    BY <1>10 DEF DisconnectEnds, KeepaliveInv, OneKeepalive, ConnectingInv
  <1>11. CASE UNCHANGED opcVars
    BY <1>11 DEF opcVars, linkVars, KeepaliveInv, OneKeepalive, ConnectingInv
  <1> QED
    BY <1>1, <1>2, <1>3, <1>4, <1>5, <1>6, <1>7, <1>8, <1>9, <1>10, <1>11 DEF OpcNext, Returns

LEMMA KeepaliveInit == OpcInit => KeepaliveInv
  BY DEF OpcInit, KeepaliveInv, OneKeepalive, ConnectingInv

-----------------------------------------------------------------------------
(* No subscription is forgotten *)

\* The entry is monitored on the session of the client, was refused, or is being created there.
Kept(sub) ==
  \/ sub \in monitored[client] \cup refused[client]
  \/ \E c \in Callers : op[c] = [session |-> client, sub |-> sub]

\* On an open session an entry is kept, or its turn is still to come.
RestoredInv ==
  linker \in {"restoring", "asleep"} /\ connected /\ IsOpen(client) =>
    \A i \in DOMAIN registered : Kept(registered[i]) \/ (linker = "restoring" /\ i >= index)

ClientInv == OpcTypeOK /\ IndexInv /\ KeepaliveInv /\ RestoredInv

LEMMA ClientInit == OpcInit => ClientInv
  BY OpcTypeInit, KeepaliveInit DEF OpcInit, ClientInv, IndexInv, RestoredInv

LEMMA IndexStep ==
  ASSUME OpcTypeOK, IndexInv, [OpcNext]_opcVars
  PROVE  IndexInv'
  <1>1. registered \in Seq(Subscriptions) /\ DOMAIN registered = 1 .. Len(registered)
        /\ Len(registered) \in Nat /\ index \in Nat
    BY DEF OpcTypeOK
  <1>2. CASE Opened
    <2>1. index' = 1 /\ registered' = registered /\ linker' = AfterRestoring(1)
      BY <1>2 DEF Opened, subscriptionVars
    <2> QED
      BY <1>1, <2>1 DEF AfterRestoring, IndexInv
  <1>3. CASE Restore
    <2>1. index' = index + 1 /\ registered' = registered /\ linker' = AfterRestoring(index + 1)
          /\ linker = "restoring"
      BY <1>3 DEF Restore
    <2>2. index \in 1 .. Len(registered)
      BY <1>1, <2>1 DEF IndexInv
    <2> QED
      BY <1>1, <2>1, <2>2 DEF AfterRestoring, IndexInv
  <1>4. ASSUME NEW c \in Callers, NEW sub \in Subscriptions, Subscribe(c, sub)
        PROVE  IndexInv'
    <2>1. registered' = Append(registered, sub) /\ UNCHANGED <<linker, index>>
      BY <1>4 DEF Subscribe, linkVars
    <2>2. DOMAIN registered' = 1 .. Len(registered) + 1
      BY <1>1, <2>1
    <2> QED
      BY <1>1, <2>1, <2>2 DEF IndexInv
  <1>5. ASSUME linker' # "restoring" \/ UNCHANGED <<linker, index, registered>>
        PROVE  IndexInv'
    BY <1>5 DEF IndexInv
  <1>6. CASE \/ Connect \/ Retry \/ OpenFails \/ DisconnectBegins \/ DisconnectEnds
             \/ \E s \in Sessions : Lose(s) \/ KeepaliveFails(s)
    BY <1>5, <1>6 DEF Connect, Retry, OpenClient, OpenFails, DisconnectBegins, DisconnectEnds,
                      Lose, KeepaliveFails, subscriptionVars
  <1>7. ASSUME NEW c \in Callers, Operate(c) \/ Returns(c)
        PROVE  IndexInv'
    BY <1>5, <1>7 DEF Operate, Returns, Answered, OperationFails, Subscribed, SubscribeFails,
                      linkVars, subscriptionVars
  <1>8. CASE UNCHANGED opcVars
    BY <1>5, <1>8 DEF opcVars, linkVars, subscriptionVars
  <1> QED
    BY <1>2, <1>3, <1>4, <1>6, <1>7, <1>8 DEF OpcNext

\* What makes an entry stay kept: the client and what its sessions monitor and refused do not
\* shrink, and an operation that ends has created the entry or seen it refused.
LEMMA KeptStays ==
  ASSUME NEW sub, Kept(sub), client' = client,
         monitored[client] \subseteq monitored'[client],
         refused[client] \subseteq refused'[client],
         \A c \in Callers : op[c] = [session |-> client, sub |-> sub] =>
            \/ op'[c] = op[c]
            \/ sub \in monitored'[client] \cup refused'[client]
  PROVE  Kept(sub)'
  BY DEF Kept

\* The restoring task itself.
LEMMA RestoreRestored ==
  ASSUME OpcTypeOK, IndexInv, ConnectingInv, RestoredInv, Restore
  PROVE  RestoredInv'
  <1> SUFFICES ASSUME connected', IsOpen(client)', NEW i \in DOMAIN registered'
               PROVE  Kept(registered[i])' \/ (linker' = "restoring" /\ i >= index')
    BY DEF Restore, RestoredInv
  <1>1. /\ linker = "restoring" /\ client \in Sessions /\ index \in DOMAIN registered
        /\ index' = index + 1 /\ linker' = AfterRestoring(index + 1)
        /\ UNCHANGED <<client, connected, session, registered, op>>
    BY DEF Restore, IndexInv, ConnectingInv
  <1>2. IsOpen(client) /\ i \in DOMAIN registered /\ i \in Nat /\ index \in Nat
        /\ Len(registered) \in Nat /\ i <= Len(registered)
    BY <1>1 DEF IsOpen, OpcTypeOK
  <1>3. /\ monitored[client] \subseteq monitored'[client]
        /\ refused[client] \subseteq refused'[client]
        /\ registered[index] \in monitored'[client] \cup refused'[client]
    <2>1. monitored \in [Sessions -> SUBSET Subscriptions] /\ refused \in [Sessions -> SUBSET Subscriptions]
      BY DEF OpcTypeOK
    <2> QED
      BY <1>1, <1>2, <2>1 DEF Restore, NoAnswer
  <1>4. Kept(registered[i]) \/ i >= index
    BY <1>1, <1>2 DEF RestoredInv
  <1>5. CASE Kept(registered[i])
    <2>1. \A sub : Kept(sub) => Kept(sub)'
      BY <1>1, <1>3, KeptStays
    <2> QED
      BY <1>1, <1>5, <2>1 DEF Kept
  <1>6. CASE i = index
    BY <1>1, <1>3, <1>6 DEF Kept
  <1>7. CASE i > index
    BY <1>1, <1>2, <1>7 DEF AfterRestoring
  <1> QED
    BY <1>2, <1>4, <1>5, <1>6, <1>7

\* Callers, whose operations leave the link as it is.
LEMMA CallerRestored ==
  ASSUME OpcTypeOK, RestoredInv, NEW c \in Callers,
         Operate(c) \/ Answered(c) \/ Subscribed(c) \/ SubscribeFails(c)
           \/ \E sub \in Subscriptions : Subscribe(c, sub)
  PROVE  RestoredInv'
  <1>1. UNCHANGED linkVars
    BY DEF Operate, Answered, Subscribed, SubscribeFails, Subscribe
  <1> SUFFICES ASSUME linker \in {"restoring", "asleep"}, connected, IsOpen(client),
                      NEW i \in DOMAIN registered'
               PROVE  Kept(registered[i])' \/ (linker = "restoring" /\ i >= index)
    BY <1>1 DEF RestoredInv, linkVars, IsOpen
  <1>2. /\ client \in Sessions /\ client # None /\ UNCHANGED client
        /\ \A sub \in Subscriptions : sub # None
    BY <1>1, NoneAssumption DEF IsOpen, linkVars
  <1>3. /\ monitored \in [Sessions -> SUBSET Subscriptions]
        /\ refused \in [Sessions -> SUBSET Subscriptions]
        /\ registered \in Seq(Subscriptions)
        /\ op \in [Callers -> [session : Sessions \cup {None}, sub : Subscriptions \cup {None}]]
    BY DEF OpcTypeOK
  <1>4. ASSUME UNCHANGED registered, \A sub \in Subscriptions : Kept(sub) => Kept(sub)'
        PROVE  Kept(registered[i])' \/ (linker = "restoring" /\ i >= index)
    <2>1. i \in DOMAIN registered /\ registered[i] \in Subscriptions
      BY <1>3, <1>4
    <2>2. Kept(registered[i]) \/ (linker = "restoring" /\ i >= index)
      BY <2>1 DEF RestoredInv
    <2>3. Kept(registered[i]) => Kept(registered[i])'
      BY <1>2, <1>4, <2>1 DEF Kept
    <2> QED
      BY <2>2, <2>3
  <1>5. CASE Operate(c) \/ Answered(c)
    <2>1. /\ UNCHANGED <<monitored, refused, registered>>
          /\ op[c].sub = None /\ \A d \in Callers \ {c} : op'[d] = op[d]
      BY <1>3, <1>5 DEF Operate, Answered, Busy, Idle, subscriptionVars
    <2>2. ASSUME NEW sub \in Subscriptions, Kept(sub) PROVE Kept(sub)'
      <3>1. op[c] # [session |-> client, sub |-> sub]
        BY <1>2, <2>1
      <3> QED
        BY <1>2, <2>1, <2>2, <3>1, KeptStays
    <2> QED
      BY <1>4, <2>1, <2>2
  <1>6. CASE Subscribed(c) \/ SubscribeFails(c)
    <2>1. /\ UNCHANGED registered /\ \A d \in Callers \ {c} : op'[d] = op[d]
          /\ monitored[client] \subseteq monitored'[client]
          /\ refused[client] \subseteq refused'[client]
      BY <1>2, <1>3, <1>6 DEF Subscribed, SubscribeFails, NoAnswer, Rejected
    <2>2. op[c].session = client => op[c].sub \in monitored'[client] \cup refused'[client]
      BY <1>2, <1>3, <1>6 DEF Subscribed, SubscribeFails, NoAnswer, Rejected
    <2>3. ASSUME NEW sub \in Subscriptions, Kept(sub) PROVE Kept(sub)'
      <3>1. op[c] = [session |-> client, sub |-> sub]
              => sub \in monitored'[client] \cup refused'[client]
        BY <2>2
      <3> QED
        BY <1>2, <2>1, <2>3, <3>1, KeptStays
    <2> QED
      BY <1>4, <2>1, <2>3
  <1>7. ASSUME NEW sub \in Subscriptions, Subscribe(c, sub)
        PROVE  Kept(registered[i])' \/ (linker = "restoring" /\ i >= index)
    <2>1. /\ registered' = Append(registered, sub) /\ UNCHANGED <<monitored, refused>>
          /\ op[c] = Idle /\ op' = [op EXCEPT ![c] = [session |-> client, sub |-> sub]]
      BY <1>2, <1>7 DEF Subscribe, Usable, Busy
    <2>2. op'[c] = [session |-> client', sub |-> sub] /\ \A d \in Callers \ {c} : op'[d] = op[d]
      BY <1>2, <1>3, <2>1
    <2>3. CASE i \in DOMAIN registered
      <3>1. registered'[i] = registered[i] /\ registered[i] \in Subscriptions
        BY <1>3, <2>1, <2>3
      <3>2. Kept(registered[i]) \/ (linker = "restoring" /\ i >= index)
        BY <2>3 DEF RestoredInv
      <3>3. ASSUME NEW x \in Subscriptions, Kept(x) PROVE Kept(x)'
        <4>1. op[c] # [session |-> client, sub |-> x]
          BY <1>2, <2>1 DEF Idle
        <4> QED
          BY <1>2, <2>1, <2>2, <3>3, <4>1, KeptStays
      <3> QED
        BY <3>1, <3>2, <3>3 DEF Kept
    <2>4. CASE i \notin DOMAIN registered
      <3>1. registered'[i] = sub
        BY <1>3, <2>1, <2>4
      <3> QED
        BY <2>2, <3>1 DEF Kept
    <2> QED
      BY <2>3, <2>4
  <1> QED
    BY <1>5, <1>6, <1>7

LEMMA RestoredStep ==
  ASSUME ClientInv, [OpcNext]_opcVars
  PROVE  RestoredInv'
  <1>1. OpcTypeOK /\ IndexInv /\ ConnectingInv /\ RestoredInv
    BY DEF ClientInv, KeepaliveInv
  <1>2. ASSUME linker' \notin {"restoring", "asleep"} \/ ~connected' \/ ~IsOpen(client)'
        PROVE  RestoredInv'
    BY <1>2 DEF RestoredInv
  <1>3. CASE Connect \/ Retry \/ DisconnectBegins \/ DisconnectEnds
    BY <1>2, <1>3 DEF Connect, Retry, OpenClient, DisconnectBegins, DisconnectEnds
  <1>4. CASE Opened
    <2>1. index' = 1 /\ registered' = registered /\ linker' = AfterRestoring(1)
      BY <1>4 DEF Opened, subscriptionVars
    <2>2. /\ DOMAIN registered = 1 .. Len(registered) /\ Len(registered) \in Nat
      BY <1>1 DEF OpcTypeOK
    <2> QED
      BY <2>1, <2>2 DEF RestoredInv, AfterRestoring
  <1>5. CASE OpenFails
    BY <1>1, <1>2, <1>5 DEF OpenFails, ConnectingInv
  <1>6. CASE Restore
    BY <1>1, <1>6, RestoreRestored
  <1>7. ASSUME NEW s \in Sessions, Lose(s) PROVE RestoredInv'
    <2>1. UNCHANGED <<client, connected, linker, index, subscriptionVars, op>>
      BY <1>7 DEF Lose
    <2>2. IsOpen(client)' => IsOpen(client)
      BY <1>1, <1>7, <2>1 DEF Lose, IsOpen, OpcTypeOK
    <2> QED
      BY <1>1, <2>1, <2>2 DEF RestoredInv, Kept, subscriptionVars
  <1>8. ASSUME NEW s \in Sessions, KeepaliveFails(s) PROVE RestoredInv'
    BY <1>2, <1>8 DEF KeepaliveFails
  <1>9. ASSUME NEW c \in Callers, OperationFails(c) PROVE RestoredInv'
    BY <1>2, <1>9 DEF OperationFails, HandleError
  <1>10. CASE UNCHANGED opcVars
    BY <1>1, <1>10 DEF RestoredInv, Kept, IsOpen, opcVars, linkVars, subscriptionVars
  <1> QED
    BY <1>1, <1>3, <1>4, <1>5, <1>6, <1>7, <1>8, <1>9, <1>10, CallerRestored DEF OpcNext, Returns

LEMMA ClientStep == ClientInv /\ [OpcNext]_opcVars => ClientInv'
  <1> SUFFICES ASSUME ClientInv, [OpcNext]_opcVars PROVE ClientInv'
    OBVIOUS
  <1>1. OpcTypeOK /\ IndexInv /\ KeepaliveInv /\ ConnectingInv
    BY DEF ClientInv, KeepaliveInv
  <1> QED
    BY <1>1, OpcTypeStep, IndexStep, KeepaliveStep, RestoredStep DEF ClientInv

\* With every reconnect, failed operation and disconnect the client has the one keepalive task that
\* it can cancel, or none (_handle_error, _reconnect_loop, disconnect).
THEOREM ClientOneKeepalive == OpcSpec => []OneKeepalive
  <1>1. ClientInv => OneKeepalive
    BY DEF ClientInv, KeepaliveInv
  <1> QED
    BY <1>1, ClientInit, ClientStep, PTL DEF OpcSpec

\* No reconnect forgets a subscription, also one made while the others are created again
\* (_restore_subscriptions, subscribe_nodes).
THEOREM ClientKeepsSubscriptions == OpcSpec => []SubscriptionsKept
  <1>1. ClientInv => SubscriptionsKept
    BY DEF ClientInv, RestoredInv, Kept, SubscriptionsKept
  <1> QED
    BY <1>1, ClientInit, ClientStep, PTL DEF OpcSpec

-----------------------------------------------------------------------------
(* The service *)

LEMMA ServiceStepIsOpcStep == [Next]_vars => [OpcNext]_opcVars
  <1> SUFFICES ASSUME Next PROVE [OpcNext]_opcVars
    BY DEF vars
  <1>1. CASE StartMqtt \/ Signal \/ PollBegins \/ PollEnds \/ PollLoopEnds \/ Listen
    BY <1>1 DEF StartMqtt, Signal, PollBegins, PollEnds, PollLoopEnds, Listen, ServiceStep
  <1>2. CASE MqttStarted \/ OpcUaStarted \/ StopBegins \/ StopEnds
    BY <1>2 DEF MqttStarted, OpcUaStarted, StopBegins, StopEnds, OpcNext
  <1>3. CASE ModbusStarted \/ BusStep(Acquire) \/ BusStep(LinkFlips)
    BY <1>3 DEF ModbusStarted, BusStep
  <1>4. CASE Reconnects \/ Restores \/ KeepaliveEnds \/ OpcStep(OpenFails)
    BY <1>4 DEF Reconnects, Restores, KeepaliveEnds, OpcStep, OpcNext
  <1>5. CASE \E s \in Sessions : OpcStep(Lose(s))
    BY <1>5 DEF OpcStep, OpcNext
  <1>6. ASSUME NEW c \in Callers,
               CommandArrives(c) \/ CommandEnds(c) \/ Operates(c)
                 \/ OperationReturns(c) \/ BusStep(BusReturns(c))
        PROVE  [OpcNext]_opcVars
    <2>1. CASE CommandArrives(c) \/ CommandEnds(c) \/ BusStep(BusReturns(c))
      BY <2>1 DEF CommandArrives, CommandEnds, BusStep, ServiceStep
    <2>2. CASE Operates(c) \/ OperationReturns(c)
      BY <2>2 DEF Operates, OperationReturns, OpcStep, BusStep, OpcNext
    <2> QED
      BY <1>6, <2>1, <2>2
  <1> QED
    BY <1>1, <1>2, <1>3, <1>4, <1>5, <1>6 DEF Next

\* The service does to its OPC-UA client what the client allows: run(), the poll loop and the
\* handlers of commands use it through its operations only (base_skid.py).
THEOREM ServiceUsesClient == Spec => OpcSpec
  <1>1. Init => OpcInit
    BY DEF Init
  <1> QED
    BY <1>1, ServiceStepIsOpcStep, PTL DEF Spec, OpcSpec

\* base_skid.py: in the service the client has one keepalive task while it is connected.
THEOREM ServiceOneKeepalive == Spec => []OneKeepalive
  BY ServiceUsesClient, ClientOneKeepalive, PTL

\* base_skid.py: in the service no reconnect forgets a subscription.
THEOREM ServiceKeepsSubscriptions == Spec => []SubscriptionsKept
  BY ServiceUsesClient, ClientKeepsSubscriptions, PTL

\* Once stop() has begun the link task is gone, and nothing brings it back.
ClosingInv == main = "closing" => linker = "closed"

LEMMA ClosingStep ==
  ASSUME ClosingInv, Next
  PROVE  ClosingInv'
  <1>1. CASE \/ StartMqtt \/ MqttStarted \/ OpcUaStarted \/ ModbusStarted \/ StopEnds
    BY <1>1 DEF StartMqtt, MqttStarted, OpcUaStarted, ModbusStarted, CreateTasks, StopEnds, ClosingInv
  <1>2. CASE StopBegins
    BY <1>2 DEF StopBegins, DisconnectBegins, ClosingInv
  <1>3. ASSUME UNCHANGED <<main, linker>> PROVE ClosingInv'
    BY <1>3 DEF ClosingInv
  <1>4. CASE Signal \/ PollBegins \/ PollEnds \/ PollLoopEnds \/ Listen
    BY <1>3, <1>4 DEF Signal, PollBegins, PollEnds, PollLoopEnds, Listen, ServiceStep, opcVars, linkVars
  <1>5. CASE BusStep(Acquire) \/ BusStep(LinkFlips) \/ \E c \in Callers : BusStep(BusReturns(c))
    BY <1>3, <1>5 DEF BusStep, opcVars, linkVars, serviceVars
  <1>6. ASSUME linker # "closed", UNCHANGED main PROVE ClosingInv'
    BY <1>6 DEF ClosingInv
  <1>7. CASE Reconnects \/ Restores \/ OpcStep(OpenFails)
    BY <1>6, <1>7 DEF Reconnects, Restores, OpcStep, Retry, Opened, Restore, OpenFails, serviceVars
  <1>8. CASE KeepaliveEnds \/ \E s \in Sessions : OpcStep(Lose(s))
    BY <1>3, <1>8 DEF KeepaliveEnds, OpcStep, KeepaliveFails, Lose, serviceVars
  <1>9. ASSUME NEW c \in Callers, CommandArrives(c) \/ CommandEnds(c) \/ Operates(c) \/ OperationReturns(c)
        PROVE  ClosingInv'
    BY <1>3, <1>9 DEF CommandArrives, CommandEnds, Operates, OperationReturns, OpcStep, BusStep, ServiceStep,
                      Operate, Subscribe, Returns, Answered, OperationFails, Subscribed, SubscribeFails,
                      opcVars, linkVars, serviceVars
  <1> QED
    BY <1>1, <1>2, <1>4, <1>5, <1>7, <1>8, <1>9 DEF Next

\* base_skid.py, stop: whatever polls and commands do to the client meanwhile, from the first await
\* of stop() on no session is opened and no keepalive task is started.
THEOREM NoLinkAfterStop == Spec => StopOpensNothing
  <1> DEFINE OpensNothing ==
        main = "closing" =>
          /\ \A s \in Sessions : session'[s] \in {"opening", "open"} => session'[s] = session[s]
          /\ alive' \subseteq alive
  <1>1. ClosingInv /\ OpcTypeOK /\ [Next]_vars => [OpensNothing]_vars
    <2> SUFFICES ASSUME ClosingInv, OpcTypeOK, Next, main = "closing"
                 PROVE  /\ \A s \in Sessions : session'[s] \in {"opening", "open"} => session'[s] = session[s]
                        /\ alive' \subseteq alive
      OBVIOUS
    <2>1. linker = "closed" /\ [OpcNext]_opcVars
      BY ServiceStepIsOpcStep DEF ClosingInv
    <2>2. CASE UNCHANGED opcVars
      BY <2>2 DEF opcVars, linkVars
    <2>3. ~Connect /\ ~Retry /\ ~Opened /\ ~OpenFails /\ ~Restore
      BY <2>1 DEF Connect, Retry, Opened, OpenFails, Restore
    <2>4. ASSUME NEW s \in Sessions, Lose(s) \/ KeepaliveFails(s)
          PROVE  /\ alive' \subseteq alive
                 /\ \A r \in Sessions : session'[r] \in {"opening", "open"} => session'[r] = session[r]
      BY <2>4 DEF Lose, KeepaliveFails, OpcTypeOK
    <2>5. ASSUME NEW c \in Callers,
                 Operate(c) \/ Returns(c) \/ \E sub \in Subscriptions : Subscribe(c, sub)
          PROVE  UNCHANGED session /\ alive' \subseteq alive
      BY <2>5 DEF Operate, Returns, Answered, OperationFails, HandleError, Subscribed, SubscribeFails,
                  Subscribe, linkVars
    <2>6. CASE DisconnectBegins \/ DisconnectEnds
      BY <2>6 DEF DisconnectBegins, DisconnectEnds, OpcTypeOK
    <2> QED
      BY <2>1, <2>2, <2>3, <2>4, <2>5, <2>6 DEF OpcNext
  <1>2. Init => ClosingInv
    BY DEF Init, ClosingInv
  <1>3. ClosingInv /\ [Next]_vars => ClosingInv'
    BY ClosingStep DEF ClosingInv, vars, opcVars, linkVars, serviceVars
  <1>4. Spec => []OpcTypeOK
    <2>1. ClientInv => OpcTypeOK
      BY DEF ClientInv
    <2> QED
      BY <2>1, ServiceUsesClient, ClientInit, ClientStep, PTL DEF OpcSpec
  <1> QED
    BY <1>1, <1>2, <1>3, <1>4, PTL DEF Spec, StopOpensNothing

-----------------------------------------------------------------------------
(* Types of the service *)

\* The variables of run(), the poll loop and the command listener.
RunTypes ==
  /\ main \in {"init", "mqtt", "opcua", "modbus", "running", "closing", "stopped"}
  /\ {shutdown, running} \subseteq BOOLEAN
  /\ poll \in {"none", "asleep", "polling", "ended"}
  /\ listener \in {"none", "waiting", "subscribed", "ended"}
  /\ handling \subseteq Callers \ {Poller}

\* Whoever gets the Modbus lock was in its queue.
LEMMA BusTypesNext ==
  ASSUME BusTypeOK, [BusNext]_busVars
  PROVE  BusTypeOK'
  <1> USE DEF BusTypeOK
  <1>1. CASE BusOpens
    BY <1>1 DEF BusOpens
  <1>2. CASE Acquire
    <2>1. Head(queue) \in BusCallers /\ Tail(queue) \in Seq(BusCallers)
      BY <1>2 DEF Acquire
    <2> QED
      BY <1>2, <2>1 DEF Acquire
  <1>3. CASE LinkFlips
    BY <1>3 DEF LinkFlips
  <1>4. CASE BusCloses /\ UNCHANGED <<holder, queue>>
    BY <1>4 DEF BusCloses
  <1>5. ASSUME NEW c \in BusCallers, Request(c) PROVE BusTypeOK'
    BY <1>5 DEF Request
  <1>6. ASSUME NEW c \in BusCallers, BusReturns(c) PROVE BusTypeOK'
    BY <1>6 DEF BusReturns, Responds, RequestFails, RequestRaises, Release
  <1>7. CASE UNCHANGED busVars
    BY <1>7 DEF busVars
  <1> QED
    BY <1>1, <1>2, <1>3, <1>4, <1>5, <1>6, <1>7 DEF BusNext

LEMMA ServiceStepIsBusStep == [Next]_vars => [BusNext]_busVars
  <1> SUFFICES ASSUME Next PROVE [BusNext]_busVars
    BY DEF vars
  <1> USE PollerAssumption
  <1>1. CASE StartMqtt \/ Signal \/ PollBegins \/ PollEnds \/ PollLoopEnds \/ Listen
    BY <1>1 DEF StartMqtt, Signal, PollBegins, PollEnds, PollLoopEnds, Listen, ServiceStep
  <1>2. CASE MqttStarted \/ OpcUaStarted \/ StopBegins
    BY <1>2 DEF MqttStarted, OpcUaStarted, StopBegins
  <1>3. CASE ModbusStarted \/ BusStep(Acquire) \/ BusStep(LinkFlips) \/ StopEnds
    BY <1>3 DEF ModbusStarted, BusStep, StopEnds, BusNext
  <1>4. CASE Reconnects \/ Restores \/ KeepaliveEnds \/ OpcStep(OpenFails)
    BY <1>4 DEF Reconnects, Restores, KeepaliveEnds, OpcStep
  <1>5. CASE \E s \in Sessions : OpcStep(Lose(s))
    BY <1>5 DEF OpcStep
  <1>6. ASSUME NEW c \in Callers,
               CommandArrives(c) \/ CommandEnds(c) \/ Operates(c)
                 \/ OperationReturns(c) \/ BusStep(BusReturns(c))
        PROVE  [BusNext]_busVars
    <2>1. CASE CommandArrives(c) \/ CommandEnds(c) \/ OperationReturns(c)
      BY <2>1 DEF CommandArrives, CommandEnds, OperationReturns, OpcStep, ServiceStep
    <2>2. CASE Operates(c) \/ BusStep(BusReturns(c))
      BY <2>2 DEF Operates, OpcStep, BusStep, BusNext
    <2> QED
      BY <1>6, <2>1, <2>2
  <1> QED
    BY <1>1, <1>2, <1>3, <1>4, <1>5, <1>6 DEF Next

LEMMA RunTypesStep ==
  ASSUME RunTypes, [Next]_vars
  PROVE  RunTypes'
  <1> USE DEF RunTypes
  <1>1. CASE StartMqtt \/ MqttStarted \/ Signal \/ StopBegins \/ StopEnds
    BY <1>1 DEF StartMqtt, MqttStarted, Signal, StopBegins, StopEnds
  <1>2. CASE OpcUaStarted \/ ModbusStarted
    BY <1>2 DEF OpcUaStarted, ModbusStarted, CreateTasks
  <1>3. CASE PollBegins \/ PollEnds \/ PollLoopEnds \/ Listen
    BY <1>3 DEF PollBegins, PollEnds, PollLoopEnds, Listen
  <1>4. ASSUME NEW c \in Callers, CommandArrives(c) \/ CommandEnds(c) PROVE RunTypes'
    BY <1>4 DEF CommandArrives, CommandEnds
  <1>5. CASE UNCHANGED serviceVars
    BY <1>5 DEF serviceVars
  <1>6. CASE \/ Reconnects \/ Restores \/ KeepaliveEnds \/ OpcStep(OpenFails)
             \/ \E s \in Sessions : OpcStep(Lose(s))
    BY <1>5, <1>6 DEF Reconnects, Restores, KeepaliveEnds, OpcStep
  <1>7. CASE \/ BusStep(Acquire) \/ BusStep(LinkFlips)
             \/ \E c \in Callers : Operates(c) \/ OperationReturns(c) \/ BusStep(BusReturns(c))
    BY <1>5, <1>7 DEF BusStep, Operates, OperationReturns, OpcStep
  <1> QED
    BY <1>1, <1>2, <1>3, <1>4, <1>5, <1>6, <1>7 DEF Next, vars

\* base_skid.py over its clients: every variable keeps its type, for any callers, sessions and
\* subscriptions; the requests that wait for the Modbus lock are those of the callers.
THEOREM SkidTypeCorrect == Spec => []TypeOK
  <1>1. Init => BusTypeOK /\ RunTypes
    <2> SUFFICES ASSUME Init PROVE BusTypeOK /\ RunTypes
      OBVIOUS
    <2>1. BusInit /\ queue = <<>>
      BY DEF Init, BusInit
    <2>2. queue \in Seq(BusCallers)
      BY <2>1
    <2>3. BusTypeOK
      BY <2>1, <2>2 DEF BusInit, BusTypeOK
    <2>4. RunTypes
      BY DEF Init, RunTypes
    <2> QED
      BY <2>3, <2>4
  <1>2. ClientInv => OpcTypeOK
    BY DEF ClientInv
  <1>3. OpcTypeOK /\ BusTypeOK /\ RunTypes => TypeOK
    BY DEF RunTypes, TypeOK
  <1>4. Spec => []OpcTypeOK
    BY <1>2, ServiceUsesClient, ClientInit, ClientStep, PTL DEF OpcSpec
  <1>5. Spec => []BusTypeOK /\ []RunTypes
    BY <1>1, ServiceStepIsBusStep, BusTypesNext, RunTypesStep, PTL DEF Spec
  <1> QED
    BY <1>3, <1>4, <1>5, PTL
=============================================================================
