---------------------------- MODULE SignalProofs ----------------------------
(***************************************************************************)
(* Proofs about signals: the queues of processes as system calls and the   *)
(* timer use them (module ProcessSignals, Spec), for every number of       *)
(* processes and signals, and the kernel's own pending bits (module        *)
(* KernelSignals).                                                         *)
(***************************************************************************)
EXTENDS ProcessSignals, KernelSignals, Screens, SetInduction, FiniteSetTheorems

\* A signal the kernel raises for itself stays pending until the walk hands it on,
\* whatever its handler raises meanwhile.
THEOREM KernelRaiseNotLost == SignalsSpec => []RaiseNotLost
<1>1. signal_init => RaiseNotLost
  BY DEF signal_init, RaiseNotLost
<1>2. ASSUME RaiseNotLost, [SignalsNext]_sigvars
      PROVE  RaiseNotLost'
  <2>1. ASSUME NEW s \in Numbers, NEW h \in Handlers, signal_register(s, h)
        PROVE  RaiseNotLost'
    BY <1>2, <2>1 DEF signal_register, RaiseNotLost
  <2>2. ASSUME NEW s \in Numbers, signal_unregister(s)
        PROVE  RaiseNotLost'
    BY <1>2, <2>2 DEF signal_unregister, RaiseNotLost
  <2>3. ASSUME NEW s \in Numbers, signal_raise(s)
        PROVE  RaiseNotLost'
    BY <1>2, <2>3 DEF signal_raise, RaiseNotLost
  <2>4. ASSUME NEW s \in Numbers, signal_send(s)
        PROVE  RaiseNotLost'
    BY <1>2, <2>4 DEF signal_send, RaiseNotLost
  <2>5. CASE signal_process_pending
    BY <1>2, <2>5 DEF signal_process_pending, RaiseNotLost
  <2>6. CASE signal_walk
    BY <1>2, <2>6 DEF signal_walk, RaiseNotLost
  <2>7. CASE UNCHANGED sigvars
    BY <1>2, <2>7 DEF sigvars, RaiseNotLost
  <2>8. QED
    BY <1>2, <2>1, <2>2, <2>3, <2>4, <2>5, <2>6, <2>7 DEF SignalsNext
<1>3. QED
  BY <1>1, <1>2, PTL DEF SignalsSpec

-----------------------------------------------------------------------------
\* The entries s, from the head on, are the list that head and next link.
Linked(head, s) ==
  /\ head = IF Len(s) = 0 THEN NULL ELSE s[1]
  /\ \A k \in 1..Len(s) : entry[s[k]].next = IF k = Len(s) THEN NULL ELSE s[k + 1]
  /\ \A j, k \in 1..Len(s) : s[j] = s[k] => j = k

\* A list of entries that are all different is no longer than their number.
LEMMA LinkedLength ==
  ASSUME NEW s \in Seq(Entries), \A j, k \in 1..Len(s) : s[j] = s[k] => j = k
  PROVE  Len(s) <= MaxSignals
<1>1. MaxSignals \in Nat /\ Len(s) \in Nat
  BY SignalsAssumption
<1>2. \A k \in 1..Len(s) : s[k] \in Entries
  OBVIOUS
<1>3. QED
  BY <1>1, <1>2, Pigeonhole, Zenon DEF Entries

\* EntryAt walks such a list: its entries in order, then NULL.
LEMMA EntryAtIs ==
  ASSUME NEW s \in Seq(Entries), NEW head, Linked(head, s)
  PROVE  EntryAt(head) = [k \in 0..MaxSignals |-> IF k < Len(s) THEN s[k + 1] ELSE NULL]
<1> DEFINE walk_of(f) == [k \in 0..MaxSignals |->
                            IF k = 0 THEN head
                            ELSE IF f[k - 1] = NULL THEN NULL ELSE entry[f[k - 1]].next]
           g == [k \in 0..MaxSignals |-> IF k < Len(s) THEN s[k + 1] ELSE NULL]
<1>1. MaxSignals \in Nat /\ Len(s) \in Nat /\ \A k \in 1..Len(s) : s[k] \in Entries /\ s[k] # NULL
  BY SignalsAssumption DEF Entries, NULL
<1>2. EntryAt(head) = CHOOSE f : f = walk_of(f)
  BY DEF EntryAt
<1>3. \A k \in 0..MaxSignals : g[k] = IF k < Len(s) THEN s[k + 1] ELSE NULL
  OBVIOUS
<1> HIDE DEF g
<1>4. g = walk_of(g)
  <2>1. ASSUME NEW k \in 0..MaxSignals
        PROVE  g[k] = IF k = 0 THEN head
                      ELSE IF g[k - 1] = NULL THEN NULL ELSE entry[g[k - 1]].next
    <3>1. CASE k = 0
      BY <1>1, <1>3, <3>1 DEF Linked
    <3>2. CASE k # 0 /\ k - 1 < Len(s)
      <4>1. k - 1 \in 0..MaxSignals /\ k \in 1..Len(s) /\ g[k - 1] = s[k]
        BY <1>1, <1>3, <3>2
      <4>2. s[k] # NULL /\ entry[s[k]].next = IF k = Len(s) THEN NULL ELSE s[k + 1]
        BY <1>1, <4>1 DEF Linked
      <4>3. k = Len(s) <=> ~ (k < Len(s))
        BY <1>1, <4>1
      <4>4. QED
        BY <1>3, <3>2, <4>1, <4>2, <4>3
    <3>3. CASE k # 0 /\ ~ (k - 1 < Len(s))
      <4>1. k - 1 \in 0..MaxSignals /\ ~ (k < Len(s))
        BY <1>1, <3>3
      <4>2. QED
        BY <1>3, <3>3, <4>1
    <3>4. QED
      BY <3>1, <3>2, <3>3
  <2>2. QED
    BY <2>1 DEF g
<1>5. ASSUME NEW f, f = walk_of(f)
      PROVE  f = g
  <2>1. \A k \in 0..MaxSignals : f[k] = IF k = 0 THEN head
                      ELSE IF f[k - 1] = NULL THEN NULL ELSE entry[f[k - 1]].next
    BY <1>5, Zenon
  <2>2. \A k \in 0..MaxSignals : g[k] = IF k = 0 THEN head
                      ELSE IF g[k - 1] = NULL THEN NULL ELSE entry[g[k - 1]].next
    BY <1>4, Zenon
  <2> DEFINE Same == {k \in Nat : k \in 0..MaxSignals => f[k] = g[k]}
  <2>3. 0 \in Same
    BY <1>1, <2>1, <2>2
  <2>4. ASSUME NEW k \in Nat, k \in Same
        PROVE  k + 1 \in Same
    BY <1>1, <2>1, <2>2, <2>4
  <2>5. \A k \in Nat : k \in Same
    <3> HIDE DEF Same
    <3> QED
      BY <2>3, <2>4, NatSetInduction
  <2>6. \A k \in 0..MaxSignals : f[k] = g[k]
    BY <1>1, <2>5
  <2>7. f = [k \in 0..MaxSignals |-> f[k]]
    BY <1>5
  <2>8. g = [k \in 0..MaxSignals |-> g[k]]
    BY DEF g
  <2>9. QED
    BY <2>6, <2>7, <2>8
<1> HIDE DEF walk_of
<1>6. QED
  BY <1>2, <1>4, <1>5 DEF g

\* So the queue of a process is that list.
LEMMA QueueIs ==
  ASSUME NEW p, NEW s \in Seq(Entries), Linked(signal_queue[p], s)
  PROVE  Queue(p) = s /\ Queued(p) = {s[k] : k \in 1..Len(s)} /\ Len(s) <= MaxSignals
<1> DEFINE at == EntryAt(signal_queue[p])
<1>1. /\ MaxSignals \in Nat /\ Len(s) \in Nat /\ Len(s) <= MaxSignals
      /\ \A k \in 1..Len(s) : s[k] \in Entries /\ s[k] # NULL
  BY SignalsAssumption, LinkedLength DEF Entries, NULL, Linked
<1>2. at = [k \in 0..MaxSignals |-> IF k < Len(s) THEN s[k + 1] ELSE NULL]
  BY EntryAtIs, Zenon
<1>3. Queue(p) = [k \in 1..Cardinality({j \in 0..MaxSignals : at[j] # NULL}) |-> at[k - 1]]
  BY DEF Queue
<1> HIDE DEF at
<1>4. {j \in 0..MaxSignals : at[j] # NULL} = 0..(Len(s) - 1)
  <2>1. ASSUME NEW j \in 0..MaxSignals PROVE at[j] # NULL <=> j \in 0..(Len(s) - 1)
    <3>1. CASE j < Len(s)
      <4>1. at[j] = s[j + 1] /\ j + 1 \in 1..Len(s)
        BY <1>1, <1>2, <3>1
      <4>2. QED
        BY <1>1, <3>1, <4>1
    <3>2. CASE ~ (j < Len(s))
      BY <1>1, <1>2, <3>2
    <3>3. QED
      BY <3>1, <3>2
  <2>2. 0..(Len(s) - 1) \subseteq 0..MaxSignals
    BY <1>1
  <2>3. QED
    BY <2>1, <2>2
<1>5. Cardinality(0..(Len(s) - 1)) = Len(s)
  <2> DEFINE m == Len(s) - 1
  <2>1. m \in Int /\ (0 > m <=> Len(s) = 0) /\ m + 1 = Len(s)
    BY <1>1
  <2> HIDE DEF m
  <2>2. Cardinality(0..m) = IF 0 > m THEN 0 ELSE m - 0 + 1
    BY <2>1, FS_Interval
  <2>3. Cardinality(0..m) = Len(s)
    BY <1>1, <2>1, <2>2
  <2>4. QED
    BY <2>3 DEF m
<1>6. Queue(p) = [k \in 1..Len(s) |-> at[k - 1]]
  BY <1>3, <1>4, <1>5, Zenon
<1>7. \A k \in 1..Len(s) : at[k - 1] = s[k]
  BY <1>1, <1>2
<1>8. Queue(p) = [k \in 1..Len(s) |-> s[k]]
  BY <1>6, <1>7
<1>9. Queue(p) = s
  BY <1>8
<1>10. QED
  BY <1>1, <1>9 DEF Queued

-----------------------------------------------------------------------------
\* s is the queue of p: its entries are the allocated ones whose signal was sent to p.
ListOf(p, s) ==
  /\ s \in Seq(Entries)
  /\ Linked(signal_queue[p], s)
  /\ {s[k] : k \in 1..Len(s)} = {e \in allocated : sent[entry[e].signal] = p}

SigTypes ==
  /\ used \subseteq Procs /\ allocated \subseteq Entries
  /\ signal_queue \in [Procs -> 0..MaxSignals]
  /\ entry \in [Entries -> [signal : Nat, next : 0..MaxSignals]]
  /\ sent \in Seq(Procs)
  /\ delivered \in Seq(Procs \X Nat)
  /\ call.at = "idle"

\* Every allocated entry stands for one signal that was sent to a process that exists
\* and not handled; every signal sent is handled or has its entry.
PendingOnce ==
  /\ \A e \in allocated : entry[e].signal \in 1..Len(sent) /\ sent[entry[e].signal] \in used
  /\ \A e, f \in allocated : entry[e].signal = entry[f].signal => e = f
  /\ \A e \in allocated : \A k \in 1..Len(delivered) : delivered[k][2] # entry[e].signal
  /\ \A i \in 1..Len(sent) :
       \/ \E k \in 1..Len(delivered) : delivered[k][2] = i
       \/ \E e \in allocated : entry[e].signal = i

\* The invariant that is inductive.
SigInv ==
  /\ SigTypes /\ PendingOnce /\ HandledOnce
  /\ \A k \in 1..Len(delivered) : delivered[k][2] \in 1..Len(sent)
  /\ \A i \in 1..Len(sent) : sent[i] \in used
  /\ \A p \in Procs : \E s : ListOf(p, s)

\* The queues it describes are those of QueuesExact.
LEMMA SigExact == SigInv => QueuesExact
<1>1. SUFFICES ASSUME SigInv PROVE QueuesExact
  OBVIOUS
<1>2. Held = {}
  BY <1>1 DEF SigInv, SigTypes, Held
<1>3. ASSUME NEW p \in Procs
      PROVE  Queued(p) = {e \in allocated : sent[entry[e].signal] = p}
  <2>1. PICK s : ListOf(p, s)
    BY <1>1 DEF SigInv
  <2>2. QED
    BY <2>1, QueueIs, Zenon DEF ListOf
<1>4. \A p \in used : p \in Procs
  BY <1>1 DEF SigInv, SigTypes
<1>5. UNION {Queued(p) : p \in used} = allocated
  <2>1. ASSUME NEW e \in allocated PROVE \E p \in used : e \in Queued(p)
    BY <1>1, <1>3, <1>4 DEF SigInv, PendingOnce
  <2>2. ASSUME NEW p \in used, NEW e \in Queued(p) PROVE e \in allocated
    BY <1>3, <1>4
  <2>3. QED
    BY <2>1, <2>2
<1>6. \A p, q \in used : p # q => Queued(p) \cap Queued(q) = {}
  BY <1>3, <1>4
<1>7. ASSUME NEW i \in 1..Len(sent)
      PROVE  \/ \E k \in 1..Len(delivered) : delivered[k][2] = i
             \/ \E e \in Queued(sent[i]) : entry[e].signal = i
  <2>1. sent[i] \in Procs
    BY <1>1, <1>4 DEF SigInv
  <2>2. \/ \E k \in 1..Len(delivered) : delivered[k][2] = i
        \/ \E e \in allocated : entry[e].signal = i
    BY <1>1 DEF SigInv, PendingOnce
  <2>3. QED
    BY <1>3, <2>1, <2>2
<1>8. QED
  BY <1>2, <1>5, <1>6, <1>7 DEF QueuesExact

\* Two processes, nothing sent.
LEMMA SigInit == Init => SigInv
<1>1. SUFFICES ASSUME Init PROVE SigInv
  OBVIOUS
<1>2. MaxSignals \in Nat /\ First \in Procs /\ Second \in Procs
  BY SignalsAssumption
<1>3. /\ used = {First, Second} /\ allocated = {} /\ sent = <<>> /\ delivered = <<>>
      /\ signal_queue = [p \in Procs |-> NULL] /\ call = Idle
      /\ entry = [e \in Entries |-> [signal |-> 0, next |-> NULL]]
  BY <1>1 DEF Init
<1>4. SigTypes
  BY <1>2, <1>3 DEF SigTypes, NULL, Idle
<1>5. PendingOnce /\ HandledOnce
  BY <1>3 DEF PendingOnce, HandledOnce
<1>6. ASSUME NEW p \in Procs PROVE ListOf(p, <<>>)
  BY <1>3 DEF ListOf, Linked
<1>7. QED
  BY <1>3, <1>4, <1>5, <1>6 DEF SigInv

\* A signal is sent: its entry goes to the head of the target's queue.
LEMMA SendStep ==
  ASSUME SigInv, NEW p \in Procs, sys_kill(p)
  PROVE  SigInv'
<1> DEFINE n == Len(sent)
<1>1. /\ p \in used /\ Len(sent) < MaxSignals /\ sent' = Append(sent, p)
      /\ used' = used /\ delivered' = delivered /\ call' = call
  BY DEF sys_kill, process_signal_send
<1>2. PICK e \in Entries \ allocated :
        /\ allocated' = allocated \cup {e}
        /\ entry' = [entry EXCEPT ![e] = [signal |-> n + 1, next |-> signal_queue[p]]]
        /\ signal_queue' = [signal_queue EXCEPT ![p] = e]
  BY Zenon DEF sys_kill, process_signal_send
<1>3. /\ sent \in Seq(Procs) /\ n \in Nat /\ MaxSignals \in Nat
      /\ sent' \in Seq(Procs) /\ Len(sent') = n + 1 /\ sent'[n + 1] = p
      /\ \A i \in 1..n : sent'[i] = sent[i]
  BY <1>1, SignalsAssumption DEF SigInv, SigTypes
<1>4. entry'[e] = [signal |-> n + 1, next |-> signal_queue[p]]
      /\ \A f \in Entries : f # e => entry'[f] = entry[f]
  BY <1>2 DEF SigInv, SigTypes
<1>5. \A f \in allocated : /\ f \in Entries /\ f # e /\ entry'[f] = entry[f]
                           /\ entry[f].signal \in 1..n
                           /\ sent'[entry[f].signal] = sent[entry[f].signal]
  BY <1>2, <1>3, <1>4 DEF SigInv, SigTypes, PendingOnce
<1>6. SigTypes'
  <2>1. signal_queue' \in [Procs -> 0..MaxSignals]
    BY <1>2, <1>3 DEF SigInv, SigTypes, Entries
  <2>2. [signal |-> n + 1, next |-> signal_queue[p]] \in [signal : Nat, next : 0..MaxSignals]
    BY <1>3 DEF SigInv, SigTypes
  <2>3. entry' \in [Entries -> [signal : Nat, next : 0..MaxSignals]]
    BY <1>2, <2>2 DEF SigInv, SigTypes
  <2>4. QED
    BY <1>1, <1>2, <1>3, <2>1, <2>3 DEF SigInv, SigTypes
<1>7. \A k \in 1..Len(delivered) : delivered[k][2] \in 1..n
  BY DEF SigInv
<1>8. PendingOnce'
  <2>1. \A f \in allocated' : entry'[f].signal \in 1..(n + 1) /\ sent'[entry'[f].signal] \in used
    BY <1>1, <1>2, <1>3, <1>4, <1>5 DEF SigInv, PendingOnce
  <2>2. \A f, g \in allocated' : entry'[f].signal = entry'[g].signal => f = g
    BY <1>2, <1>3, <1>4, <1>5 DEF SigInv, PendingOnce
  <2>3. \A f \in allocated' : \A k \in 1..Len(delivered) : delivered[k][2] # entry'[f].signal
    BY <1>2, <1>3, <1>4, <1>5, <1>7 DEF SigInv, PendingOnce
  <2>4. ASSUME NEW i \in 1..(n + 1)
        PROVE  \/ \E k \in 1..Len(delivered) : delivered[k][2] = i
               \/ \E f \in allocated' : entry'[f].signal = i
    <3>1. CASE i = n + 1
      BY <1>2, <1>4, <3>1
    <3>2. CASE i \in 1..n
      BY <1>2, <1>5, <3>2 DEF SigInv, PendingOnce
    <3>3. QED
      BY <1>3, <3>1, <3>2
  <2>5. QED
    BY <1>1, <1>3, <2>1, <2>2, <2>3, <2>4 DEF PendingOnce
<1>9. HandledOnce'
  BY <1>1, <1>3, <1>7 DEF SigInv, HandledOnce
<1>10. ASSUME NEW q \in Procs
       PROVE  \E t : ListOf(q, t)'
  <2>1. PICK s : ListOf(q, s)
    BY DEF SigInv
  <2>2. /\ s \in Seq(Entries) /\ Len(s) \in Nat
        /\ \A k \in 1..Len(s) : s[k] \in allocated /\ entry'[s[k]] = entry[s[k]] /\ s[k] # e
    BY <1>5, <2>1 DEF ListOf
  <2>3. CASE q # p
    <3>1. signal_queue'[q] = signal_queue[q]
      BY <1>2, <2>3 DEF SigInv, SigTypes
    <3>2. Linked(signal_queue[q], s)'
      BY <2>1, <2>2, <3>1 DEF ListOf, Linked
    <3>3. {f \in allocated' : sent'[entry'[f].signal] = q} = {f \in allocated : sent[entry[f].signal] = q}
      BY <1>2, <1>3, <1>4, <1>5, <2>3
    <3>4. ListOf(q, s)'
      BY <2>1, <3>2, <3>3 DEF ListOf
    <3>5. QED
      BY <3>4
  <2>4. CASE q = p
    <3> DEFINE t == [k \in 1..(Len(s) + 1) |-> IF k = 1 THEN e ELSE s[k - 1]]
    <3>1. t \in Seq(Entries) /\ Len(t) = Len(s) + 1
      <4>1. \A k \in 1..(Len(s) + 1) : t[k] \in Entries
        BY <2>2
      <4>2. QED
        BY <2>2, <4>1
    <3>2. t[1] = e /\ \A k \in 1..Len(s) : t[k + 1] = s[k]
      BY <2>2
    <3>3. \A k \in 1..(Len(s) + 1) : k = 1 \/ (k - 1 \in 1..Len(s) /\ t[k] = s[k - 1])
      BY <2>2
    <3> HIDE DEF t
    <3>4. signal_queue'[p] = e /\ signal_queue[p] = IF Len(s) = 0 THEN NULL ELSE s[1]
      BY <1>2, <2>1, <2>4 DEF SigInv, SigTypes, ListOf, Linked
    <3>5. ASSUME NEW k \in 1..Len(t)
          PROVE  entry'[t[k]].next = IF k = Len(t) THEN NULL ELSE t[k + 1]
      <4>1. CASE k = 1
        <5>1. entry'[t[k]].next = signal_queue[p]
          BY <1>4, <3>2, <4>1
        <5>2. Len(s) # 0 => t[2] = s[1]
          BY <2>2, <3>2
        <5>3. QED
          BY <2>2, <3>1, <3>4, <4>1, <5>1, <5>2
      <4>2. CASE k # 1
        <5>1. k - 1 \in 1..Len(s) /\ t[k] = s[k - 1]
          BY <3>1, <3>3, <4>2
        <5>2. entry'[t[k]].next = IF k - 1 = Len(s) THEN NULL ELSE s[(k - 1) + 1]
          BY <2>1, <2>2, <5>1, Zenon DEF ListOf, Linked
        <5>3. (k - 1) + 1 = k /\ (k - 1 = Len(s) <=> k = Len(t))
          BY <2>2, <3>1
        <5>4. k # Len(t) => k \in 1..Len(s) /\ t[k + 1] = s[k]
          BY <2>2, <3>1, <3>2
        <5>5. QED
          BY <5>2, <5>3, <5>4
      <4>3. QED
        BY <4>1, <4>2
    <3>6. ASSUME NEW j \in 1..Len(t), NEW k \in 1..Len(t), t[j] = t[k]
          PROVE  j = k
      <4>1. CASE j = 1 \/ k = 1
        <5>1. \A i \in 1..Len(t) : i # 1 => t[i] # t[1]
          BY <2>2, <3>1, <3>2, <3>3
        <5>2. QED
          BY <3>6, <4>1, <5>1
      <4>2. CASE j # 1 /\ k # 1
        <5>1. j - 1 \in 1..Len(s) /\ k - 1 \in 1..Len(s) /\ s[j - 1] = s[k - 1]
          BY <3>1, <3>3, <3>6, <4>2
        <5>2. j - 1 = k - 1
          BY <2>1, <5>1 DEF ListOf, Linked
        <5>3. QED
          BY <5>2, <3>1
      <4>3. QED
        BY <4>1, <4>2
    <3>7. Linked(signal_queue[p], t)'
      <4>1. Len(t) # 0
        BY <2>2, <3>1
      <4>2. QED
        BY <3>2, <3>4, <3>5, <3>6, <4>1 DEF Linked
    <3>8. {t[k] : k \in 1..Len(t)} = {s[k] : k \in 1..Len(s)} \cup {e}
      <4>1. \A k \in 1..Len(t) : t[k] = e \/ \E j \in 1..Len(s) : t[k] = s[j]
        BY <3>1, <3>2, <3>3
      <4>2. \A k \in 1..Len(s) : k + 1 \in 1..Len(t) /\ t[k + 1] = s[k]
        BY <2>2, <3>1, <3>2
      <4>3. 1 \in 1..Len(t) /\ t[1] = e
        BY <2>2, <3>1, <3>2
      <4>4. QED
        BY <4>1, <4>2, <4>3
    <3>9. {f \in allocated' : sent'[entry'[f].signal] = p}
            = {f \in allocated : sent[entry[f].signal] = p} \cup {e}
      BY <1>2, <1>3, <1>4, <1>5
    <3>10. ListOf(p, t)'
      BY <2>1, <2>4, <3>1, <3>7, <3>8, <3>9, Zenon DEF ListOf
    <3>11. QED
      BY <2>4, <3>10
  <2>5. QED
    BY <2>3, <2>4
<1>11. \A i \in 1..(n + 1) : sent'[i] \in used'
  BY <1>1, <1>3 DEF SigInv
<1>12. QED
  BY <1>1, <1>3, <1>6, <1>7, <1>8, <1>9, <1>10, <1>11 DEF SigInv

\* The timer switches to a process and handles its whole queue.
LEMMA SwitchStep ==
  ASSUME SigInv, NEW p \in Procs, process_switch(p)
  PROVE  SigInv'
<1>1. PICK s : ListOf(p, s)
  BY DEF SigInv
<1> DEFINE D == [k \in 1..Len(s) |-> <<p, entry[s[k]].signal>>]
<1>2. Queue(p) = s /\ Queued(p) = {s[k] : k \in 1..Len(s)} /\ Len(s) <= MaxSignals
      /\ Len(s) \in Nat /\ MaxSignals \in Nat
  <2>1. s \in Seq(Entries) /\ Linked(signal_queue[p], s)
    BY <1>1 DEF ListOf
  <2>2. Queue(p) = s /\ Queued(p) = {s[k] : k \in 1..Len(s)} /\ Len(s) <= MaxSignals
    BY <2>1, QueueIs, Zenon
  <2>3. QED
    BY <2>1, <2>2, SignalsAssumption
<1>3. /\ signal_queue' = [signal_queue EXCEPT ![p] = NULL]
      /\ allocated' = allocated \ {s[k] : k \in 1..Len(s)}
      /\ delivered' = delivered \o D
      /\ used' = used /\ entry' = entry /\ sent' = sent /\ call' = call
  <2>1. ~ (Len(Queue(p)) > MaxSignals)
    BY <1>2
  <2>2. DrainQueue(p)
    BY DEF process_switch
  <2>3. QED
    BY <1>2, <2>1, <2>2 DEF DrainQueue, process_switch
<1>4. \A k \in 1..Len(s) : /\ s[k] \in allocated /\ s[k] \in Entries
                           /\ sent[entry[s[k]].signal] = p
                           /\ entry[s[k]].signal \in 1..Len(sent)
  BY <1>1, Zenon DEF ListOf, SigInv, SigTypes, PendingOnce
<1>5. D \in Seq(Procs \X Nat) /\ Len(D) = Len(s)
      /\ \A k \in 1..Len(s) : D[k][1] = p /\ D[k][2] = entry[s[k]].signal
  <2>1. \A k \in 1..Len(s) : <<p, entry[s[k]].signal>> \in Procs \X Nat
    BY <1>4 DEF SigInv, SigTypes
  <2>2. QED
    BY <1>2, <2>1
<1> HIDE DEF D
<1> DEFINE m == Len(delivered)
<1>6. /\ m \in Nat /\ delivered' \in Seq(Procs \X Nat) /\ Len(delivered') = m + Len(s)
      /\ \A k \in 1..m : delivered'[k] = delivered[k]
      /\ \A k \in 1..Len(s) : delivered'[m + k] = D[k]
  <2>1. delivered \in Seq(Procs \X Nat)
    BY DEF SigInv, SigTypes
  <2>2. delivered \o D \in Seq(Procs \X Nat) /\ Len(delivered \o D) = m + Len(D)
    <3> DEFINE S == Procs \X Nat
    <3>1. delivered \in Seq(S) /\ D \in Seq(S)
      BY <1>5, <2>1
    <3> HIDE DEF S
    <3>2. delivered \o D \in Seq(S) /\ Len(delivered \o D) = Len(delivered) + Len(D)
      BY <3>1
    <3>3. QED
      BY <3>2 DEF S
  <2>3. \A k \in 1..m : (delivered \o D)[k] = delivered[k]
    BY <1>5, <2>1
  <2>4. \A k \in 1..Len(D) : (delivered \o D)[m + k] = D[k]
    BY <1>5, <2>1
  <2>5. QED
    BY <1>3, <1>5, <2>1, <2>2, <2>3, <2>4
<1>7. \A k \in 1..(m + Len(s)) :
        \/ k \in 1..m /\ delivered'[k] = delivered[k]
        \/ \E j \in 1..Len(s) : k = m + j /\ delivered'[k][1] = p
                                /\ delivered'[k][2] = entry[s[j]].signal
  <2>1. SUFFICES ASSUME NEW k \in 1..(m + Len(s)), k \notin 1..m
                 PROVE  \E j \in 1..Len(s) : k = m + j /\ delivered'[k][1] = p
                                             /\ delivered'[k][2] = entry[s[j]].signal
    BY <1>6
  <2>2. k - m \in 1..Len(s) /\ k = m + (k - m)
    BY <1>2, <1>6, <2>1
  <2>3. delivered'[k] = D[k - m]
    BY <1>6, <2>2, Zenon
  <2>4. QED
    BY <1>5, <2>2, <2>3, Zenon
<1>8. \A e \in allocated' : e \in allocated /\ sent[entry[e].signal] # p
  BY <1>1, <1>3 DEF ListOf
<1>9. SigTypes'
  <2>1. signal_queue' \in [Procs -> 0..MaxSignals]
    BY <1>2, <1>3 DEF SigInv, SigTypes, NULL
  <2>2. QED
    BY <1>3, <1>6, <1>8, <2>1 DEF SigInv, SigTypes
<1>10. HandledOnce' /\ \A k \in 1..(m + Len(s)) : delivered'[k][2] \in 1..Len(sent)
  <2>1. \A k \in 1..(m + Len(s)) : delivered'[k][1] = sent[delivered'[k][2]]
                                   /\ delivered'[k][2] \in 1..Len(sent)
    BY <1>4, <1>7, Zenon DEF SigInv, HandledOnce
  <2>2. ASSUME NEW j \in 1..(m + Len(s)), NEW k \in 1..(m + Len(s)),
               delivered'[j][2] = delivered'[k][2]
        PROVE  j = k
    <3>1. \A i \in 1..m, l \in 1..Len(s) : delivered[i][2] # entry[s[l]].signal
      BY <1>4 DEF SigInv, PendingOnce
    <3>2. \A i, l \in 1..Len(s) : entry[s[i]].signal = entry[s[l]].signal => i = l
      BY <1>1, <1>4, SMTT(20) DEF SigInv, PendingOnce, ListOf, Linked
    <3>3. \A i, l \in 1..m : delivered[i][2] = delivered[l][2] => i = l
      BY DEF SigInv, HandledOnce
    <3>4. CASE j \in 1..m /\ delivered'[j] = delivered[j]
      <4>1. k \in 1..m /\ delivered'[k] = delivered[k]
        BY <1>7, <2>2, <3>1, <3>4
      <4>2. QED
        BY <2>2, <3>3, <3>4, <4>1
    <3>5. CASE \E i \in 1..Len(s) : j = m + i /\ delivered'[j][2] = entry[s[i]].signal
      <4>1. PICK i \in 1..Len(s) : j = m + i /\ delivered'[j][2] = entry[s[i]].signal
        BY <3>5
      <4>2. PICK l \in 1..Len(s) : k = m + l /\ delivered'[k][2] = entry[s[l]].signal
        BY <1>7, <2>2, <3>1, <4>1, Zenon
      <4>3. i = l
        BY <2>2, <3>2, <4>1, <4>2
      <4>4. QED
        BY <4>1, <4>2, <4>3
    <3>6. QED
      BY <1>7, <3>4, <3>5
  <2>3. QED
    BY <1>3, <1>6, <2>1, <2>2, Zenon DEF HandledOnce
<1>11. PendingOnce'
  <2>1. \A e \in allocated' : entry[e].signal \in 1..Len(sent) /\ sent[entry[e].signal] \in used
    BY <1>8 DEF SigInv, PendingOnce
  <2>2. \A e, f \in allocated' : entry[e].signal = entry[f].signal => e = f
    BY <1>8 DEF SigInv, PendingOnce
  <2>3. ASSUME NEW e \in allocated', NEW k \in 1..(m + Len(s))
        PROVE  delivered'[k][2] # entry[e].signal
    <3>1. CASE k \in 1..m /\ delivered'[k] = delivered[k]
      BY <1>8, <3>1 DEF SigInv, PendingOnce
    <3>2. CASE \E j \in 1..Len(s) : delivered'[k][2] = entry[s[j]].signal
      BY <1>4, <1>8, <3>2
    <3>3. QED
      BY <1>7, <3>1, <3>2
  <2>4. ASSUME NEW i \in 1..Len(sent)
        PROVE  \/ \E k \in 1..(m + Len(s)) : delivered'[k][2] = i
               \/ \E e \in allocated' : entry[e].signal = i
    <3>1. CASE \E k \in 1..m : delivered[k][2] = i
      <4>1. 1..m \subseteq 1..(m + Len(s))
        BY <1>2, <1>6
      <4>2. QED
        BY <1>6, <3>1, <4>1
    <3>2. ASSUME NEW e \in allocated, entry[e].signal = i
          PROVE  \/ \E k \in 1..(m + Len(s)) : delivered'[k][2] = i
                 \/ e \in allocated'
      <4>1. CASE sent[i] # p
        BY <1>3, <1>4, <3>2, <4>1
      <4>2. CASE sent[i] = p
        <5>1. PICK j \in 1..Len(s) : e = s[j]
          BY <1>1, <3>2, <4>2 DEF ListOf
        <5>2. m + j \in 1..(m + Len(s))
          BY <1>2, <1>6
        <5>3. delivered'[m + j] = D[j] /\ D[j][2] = i
          BY <1>5, <1>6, <3>2, <5>1, Zenon
        <5>4. QED
          BY <5>2, <5>3
      <4>3. QED
        BY <4>1, <4>2
    <3>3. QED
      BY <3>1, <3>2 DEF SigInv, PendingOnce
  <2>5. QED
    BY <1>3, <1>6, <2>1, <2>2, <2>3, <2>4, Zenon DEF PendingOnce
<1>12. ASSUME NEW q \in Procs
       PROVE  \E t : ListOf(q, t)'
  <2>1. CASE q = p
    <3>1. signal_queue'[p] = NULL
      BY <1>3 DEF SigInv, SigTypes
    <3>2. {e \in allocated' : sent'[entry'[e].signal] = p} = {}
      BY <1>3, <1>8
    <3>3. ListOf(p, <<>>)'
      BY <3>1, <3>2 DEF ListOf, Linked
    <3>4. QED
      BY <2>1, <3>3
  <2>2. CASE q # p
    <3>1. PICK t : ListOf(q, t)
      BY DEF SigInv
    <3>2. signal_queue'[q] = signal_queue[q]
      BY <1>3, <2>2 DEF SigInv, SigTypes
    <3>3. {e \in allocated' : sent'[entry'[e].signal] = q} = {e \in allocated : sent[entry[e].signal] = q}
      BY <1>3, <1>4, <1>8, <2>2
    <3>4. ListOf(q, t)'
      BY <1>3, <3>1, <3>2, <3>3 DEF ListOf, Linked
    <3>5. QED
      BY <3>4
  <2>3. QED
    BY <2>1, <2>2
<1>13. QED
  BY <1>3, <1>6, <1>9, <1>10, <1>11, <1>12 DEF SigInv

\* System calls and the timer preserve the invariant.
LEMMA SigStep == SigInv /\ [Next]_vars => SigInv'
<1>1. SUFFICES ASSUME SigInv, [Next]_vars PROVE SigInv'
  OBVIOUS
<1>2. ASSUME NEW p \in Procs, sys_kill(p) PROVE SigInv'
  BY <1>1, <1>2, SendStep
<1>3. ASSUME NEW p \in Procs, process_switch(p) PROVE SigInv'
  BY <1>1, <1>3, SwitchStep
<1>4. CASE UNCHANGED vars
  <2>1. UNCHANGED <<used, signal_queue, entry, allocated, sent, delivered, call>>
    BY <1>4 DEF vars
  <2>2. SigTypes'
    BY <1>1, <2>1 DEF SigInv, SigTypes
  <2>3. PendingOnce'
    BY <1>1, <2>1 DEF SigInv, PendingOnce
  <2>4. HandledOnce'
    BY <1>1, <2>1 DEF SigInv, HandledOnce
  <2>5. ASSUME NEW p \in Procs PROVE \E s : ListOf(p, s)'
    <3>1. PICK s : ListOf(p, s)
      BY <1>1 DEF SigInv
    <3>2. Linked(signal_queue[p], s)'
      BY <2>1, <3>1 DEF ListOf, Linked
    <3>3. ListOf(p, s)'
      BY <2>1, <3>1, <3>2 DEF ListOf
    <3>4. QED
      BY <3>3
  <2>6. QED
    BY <1>1, <2>1, <2>2, <2>3, <2>4, <2>5 DEF SigInv
<1>5. QED
  BY <1>1, <1>2, <1>3, <1>4 DEF Next

\* Every signal a system call sends is handled at most once, by its target, for every
\* number of processes and signals.
THEOREM SignalsHandledOnce == Spec => []HandledOnce
<1>1. SigInv => HandledOnce
  BY DEF SigInv
<1>2. QED
  BY <1>1, SigInit, SigStep, PTL DEF Spec

\* No signal is lost, no entry leaks and no two queues share one, whatever the order of
\* system calls and switches.
THEOREM SignalsQueuesExact == Spec => []QueuesExact
  BY SigExact, SigInit, SigStep, PTL DEF Spec

-----------------------------------------------------------------------------
\* The memory of the VGA, with the cursor of vga.c anywhere.
VgaType == [cell : [Memory -> 0..Blank], row : Nat, col : Nat]

\* The arithmetic of rows and columns.
LEMMA Grid ==
  /\ \A row, col \in Nat : row < VGA_HEIGHT /\ col < VGA_WIDTH => row * VGA_WIDTH + col \in Visible
  /\ \A row, col \in Nat :
       row <= VGA_HEIGHT /\ col <= VGA_WIDTH /\ (row < VGA_HEIGHT \/ col < VGA_WIDTH)
         => row * VGA_WIDTH + col \in Memory
  /\ Visible \subseteq Memory /\ Visible \subseteq Nat
  /\ \A k \in Visible : k < (VGA_HEIGHT - 1) * VGA_WIDTH => k + VGA_WIDTH \in Memory
  /\ \A n \in Nat : n \notin Visible => \A k \in Visible : k < n
<1>1. VGA_WIDTH \in Nat /\ VGA_HEIGHT \in Nat /\ VGA_WIDTH > 0 /\ VGA_HEIGHT > 0
  BY ScreensAssumption
<1>2. PICK size \in Nat : size = VGA_WIDTH * VGA_HEIGHT
  BY <1>1
<1>3. VGA_WIDTH * (VGA_HEIGHT + 1) = size + VGA_WIDTH
      /\ (VGA_HEIGHT - 1) * VGA_WIDTH = size - VGA_WIDTH
  BY <1>1, <1>2
<1>4. Visible = 0..(size - 1) /\ Memory = 0..((size + VGA_WIDTH) - 1)
  <2>1. Visible = 0..(size - 1)
    BY <1>2, Zenon DEF Visible
  <2>2. Memory = 0..((size + VGA_WIDTH) - 1)
    <3>1. PICK end : end = VGA_WIDTH * (VGA_HEIGHT + 1)
      OBVIOUS
    <3>2. Memory = 0..(end - 1)
      BY <3>1, Zenon DEF Memory
    <3>3. end = size + VGA_WIDTH
      BY <1>3, <3>1, Zenon
    <3>4. QED
      BY <3>2, <3>3, Zenon
  <2>3. QED
    BY <2>1, <2>2
<1>5. ASSUME NEW row \in Nat, row < VGA_HEIGHT
      PROVE  row * VGA_WIDTH \in Nat /\ row * VGA_WIDTH + VGA_WIDTH <= size
  <2>1. row * VGA_WIDTH \in Nat /\ (row + 1) * VGA_WIDTH = row * VGA_WIDTH + VGA_WIDTH
    BY <1>1
  <2>2. (VGA_HEIGHT - (row + 1)) * VGA_WIDTH >= 0
    BY <1>1, <1>5
  <2>3. (VGA_HEIGHT - (row + 1)) * VGA_WIDTH = size - (row + 1) * VGA_WIDTH
    BY <1>1, <1>2
  <2>4. QED
    BY <1>1, <2>1, <2>2, <2>3
<1>6. VGA_HEIGHT * VGA_WIDTH = size
  BY <1>1, <1>2
<1>7. ASSUME NEW row \in Nat, NEW col \in Nat, row < VGA_HEIGHT, col < VGA_WIDTH
      PROVE  row * VGA_WIDTH + col \in Visible
  BY <1>1, <1>4, <1>5, <1>7
<1>8. ASSUME NEW row \in Nat, NEW col \in Nat, row <= VGA_HEIGHT, col <= VGA_WIDTH,
             row < VGA_HEIGHT \/ col < VGA_WIDTH
      PROVE  row * VGA_WIDTH + col \in Memory
  <2>1. CASE row < VGA_HEIGHT
    BY <1>1, <1>4, <1>5, <1>8, <2>1
  <2>2. CASE row = VGA_HEIGHT
    BY <1>1, <1>4, <1>6, <1>8, <2>2
  <2>3. QED
    BY <1>1, <1>8, <2>1, <2>2
<1>9. \A k \in Visible : k < (VGA_HEIGHT - 1) * VGA_WIDTH => k + VGA_WIDTH \in Memory
  BY <1>1, <1>3, <1>4
<1>10. \A n \in Nat : n \notin Visible => \A k \in Visible : k < n
  BY <1>4
<1>11. Visible \subseteq Memory /\ Visible \subseteq Nat
  BY <1>1, <1>4
<1>12. QED
  BY <1>7, <1>8, <1>9, <1>10, <1>11

\* The next tab stop is not beyond the end of the row.
LEMMA NextTabIs ==
  ASSUME NEW col \in Nat
  PROVE  NextTab(col) \in Nat /\ (col < VGA_WIDTH => NextTab(col) <= VGA_WIDTH)
<1>1. TAB_STOP \in Nat /\ TAB_STOP > 0 /\ VGA_WIDTH \in Nat /\ VGA_WIDTH % TAB_STOP = 0
  BY ScreensAssumption
<1>2. PICK q \in Nat : q = (col + TAB_STOP) \div TAB_STOP
  BY <1>1
<1>3. PICK m \in Nat : m = VGA_WIDTH \div TAB_STOP
  BY <1>1
<1>4. PICK p \in Nat : p = TAB_STOP * q
  BY <1>1
<1>5. (col + TAB_STOP) % TAB_STOP = col + TAB_STOP - TAB_STOP * ((col + TAB_STOP) \div TAB_STOP)
      /\ (col + TAB_STOP) % TAB_STOP >= 0
  BY <1>1
<1>6. p <= col + TAB_STOP
  BY <1>1, <1>2, <1>4, <1>5
<1>7. TAB_STOP * m = VGA_WIDTH
  BY <1>1, <1>3
<1>8. NextTab(col) = p
  BY <1>1, <1>2, <1>4 DEF NextTab
<1>9. ASSUME col < VGA_WIDTH, p > VGA_WIDTH PROVE FALSE
  <2>1. q >= m + 1
    <3>1. SUFFICES ASSUME q <= m PROVE FALSE
      OBVIOUS
    <3>2. TAB_STOP * (m - q) >= 0 /\ TAB_STOP * (m - q) = TAB_STOP * m - TAB_STOP * q
      BY <1>1, <3>1
    <3>3. QED
      BY <1>1, <1>4, <1>7, <1>9, <3>2
  <2>2. TAB_STOP * (q - (m + 1)) >= 0 /\ TAB_STOP * (q - (m + 1)) = TAB_STOP * q - TAB_STOP * (m + 1)
        /\ TAB_STOP * (m + 1) = TAB_STOP * m + TAB_STOP
    BY <1>1, <2>1
  <2>3. p >= VGA_WIDTH + TAB_STOP
    BY <1>1, <1>4, <1>7, <2>2
  <2>4. QED
    BY <1>1, <1>6, <1>9, <2>3
<1>10. QED
  BY <1>1, <1>8, <1>9

\* vga_putchar, from anywhere, leaves the cursor on the screen.
LEMMA PutIs ==
  ASSUME current_screen \in Screens, NEW v \in VgaType, NEW c \in Chars
  PROVE  /\ Scroll(Wrap(Write(v, c))) \in VgaType
         /\ Scroll(Wrap(Write(v, c))).row < VGA_HEIGHT
         /\ Scroll(Wrap(Write(v, c))).col < VGA_WIDTH
<1>1. VGA_WIDTH \in Nat /\ VGA_HEIGHT \in Nat /\ VGA_WIDTH > 0 /\ VGA_HEIGHT > 0
  BY ScreensAssumption
<1>2. PICK w \in VgaType : w = Write(v, c)
  <2>1. NextTab(v.col) \in Nat
    BY NextTabIs DEF VgaType
  <2>2. current_screen \in 0..Blank
    BY ScreensAssumption DEF Screens, Blank
  <2>3. v.row + 1 \in Nat /\ v.col + 1 \in Nat
    BY DEF VgaType
  <2>4. [v EXCEPT !.col = 0, !.row = @ + 1] \in VgaType
    BY <2>3 DEF VgaType
  <2>5. [v EXCEPT !.col = 0] \in VgaType
    BY DEF VgaType
  <2>6. [v EXCEPT !.col = NextTab(@)] \in VgaType
    BY <2>1 DEF VgaType
  <2>7. [v EXCEPT !.cell[Index(v)] = current_screen, !.col = @ + 1] \in VgaType
    BY <2>2, <2>3 DEF VgaType
  <2>8. Write(v, c) \in VgaType
    BY <2>4, <2>5, <2>6, <2>7 DEF Write
  <2>9. QED
    BY <2>8
<1>3. PICK x \in VgaType : x = Wrap(w) /\ x.col < VGA_WIDTH
  <2>0. w.row + 1 \in Nat
    BY DEF VgaType
  <2>1. [w EXCEPT !.col = 0, !.row = @ + 1] \in VgaType
    BY <2>0, Zenon DEF VgaType
  <2>2. w.col \in Nat /\ [w EXCEPT !.col = 0, !.row = @ + 1].col = 0
    BY DEF VgaType
  <2>3. Wrap(w) \in VgaType /\ Wrap(w).col < VGA_WIDTH
    BY <1>1, <2>1, <2>2 DEF Wrap
  <2>4. QED
    BY <2>3
<1>4. Scroll(x) \in VgaType /\ Scroll(x).row < VGA_HEIGHT /\ Scroll(x).col < VGA_WIDTH
  <2>1. CASE x.row >= VGA_HEIGHT
    <3> DEFINE cells == [k \in Memory |-> IF k \in Visible THEN Scrolled(x.cell, k) ELSE x.cell[k]]
    <3>1. cells \in [Memory -> 0..Blank]
      <4>1. \A k \in Visible : Scrolled(x.cell, k) \in 0..Blank
        <5>1. Blank \in 0..Blank
          BY ScreensAssumption DEF Blank
        <5>2. QED
          BY <5>1, Grid DEF Scrolled, VgaType
      <4>2. QED
        BY <4>1 DEF VgaType
    <3>2. PICK h \in Nat : h = VGA_HEIGHT - 1 /\ h < VGA_HEIGHT
      BY <1>1
    <3>3. Scroll(x) = [x EXCEPT !.cell = cells, !.row = h]
      BY <2>1, <3>2 DEF Scroll, VgaType
    <3> HIDE DEF cells
    <3>4. Scroll(x) \in VgaType /\ Scroll(x).row = h /\ Scroll(x).col = x.col
      BY <3>1, <3>2, <3>3, Zenon DEF VgaType
    <3>5. QED
      BY <1>3, <3>2, <3>4
  <2>2. CASE ~(x.row >= VGA_HEIGHT)
    BY <1>1, <1>3, <2>2 DEF Scroll, VgaType
  <2>3. QED
    BY <2>1, <2>2
<1>5. QED
  BY <1>2, <1>3, <1>4

\* printk of a message from anywhere: nothing, or the cursor is on the screen.
LEMMA PrintkIs ==
  ASSUME current_screen \in Screens, NEW v \in VgaType, NEW msg \in Seq(Chars)
  PROVE  /\ printk(v, msg) \in VgaType
         /\ \/ printk(v, msg) = v
            \/ printk(v, msg).row < VGA_HEIGHT /\ printk(v, msg).col < VGA_WIDTH
<1> DEFINE n == Len(msg)
           put == [k \in Nat |-> [x \in VgaType |-> IF k \in 1..n THEN Scroll(Wrap(Write(x, msg[k])))
                                                    ELSE x]]
           step(f) == [k \in 0..n |-> IF k = 0 THEN v ELSE Scroll(Wrap(Write(f[k - 1], msg[k])))]
<1>1. n \in Nat /\ \A k \in 1..n : msg[k] \in Chars
  OBVIOUS
<1>2. put \in [Nat -> [VgaType -> VgaType]]
  <2>1. ASSUME NEW k \in 1..n, NEW x \in VgaType
        PROVE  Scroll(Wrap(Write(x, msg[k]))) \in VgaType
    BY <1>1, PutIs
  <2>2. QED
    BY <2>1
<1>3. PICK f \in [0..n -> VgaType] : f[0] = v /\ \A k \in 1..n : f[k] = put[k][f[k - 1]]
  <2> HIDE DEF put, n
  <2>1. \E f \in [0..n -> VgaType] : IsWalk(f, v, put, n)
    BY <1>1, <1>2, Iterates, Zenon
  <2>2. QED
    BY <2>1, Zenon DEF IsWalk
<1>4. \A k \in 0..n : f[k] = IF k = 0 THEN v ELSE Scroll(Wrap(Write(f[k - 1], msg[k])))
  <2>1. \A k \in 0..n : k # 0 => k \in 1..n /\ k \in Nat /\ k - 1 \in 0..n
    BY <1>1
  <2>2. QED
    BY <1>3, <2>1
<1>5. f = step(f)
  BY <1>3, <1>4
<1> DEFINE g == CHOOSE h : h = step(h)
<1>6. printk(v, msg) = g[n]
  BY DEF printk
<1>7. g = step(g)
  <2> HIDE DEF step
  <2> QED
    BY <1>5
<1>8. \A k \in 0..n : g[k] = IF k = 0 THEN v ELSE Scroll(Wrap(Write(g[k - 1], msg[k])))
  <2> HIDE DEF g
  <2> QED
    BY <1>7
<1> HIDE DEF g, n, put, step
<1> DEFINE Good == {k \in Nat : k <= n => g[k] \in VgaType}
<1>9. 0 \in Good
  BY <1>1, <1>8
<1>10. ASSUME NEW k \in Nat, k \in Good PROVE k + 1 \in Good
  <2>1. SUFFICES ASSUME k + 1 <= n PROVE g[k + 1] \in VgaType
    OBVIOUS
  <2>2. k + 1 \in 0..n /\ k + 1 \in 1..n /\ k + 1 # 0 /\ (k + 1) - 1 = k /\ k <= n
    BY <1>1, <2>1
  <2>3. g[k + 1] = Scroll(Wrap(Write(g[k], msg[k + 1])))
    BY <1>8, <2>2
  <2>4. QED
    BY <1>1, <1>10, <2>2, <2>3, PutIs, Zenon
<1>11. \A k \in Nat : k \in Good
  <2> HIDE DEF Good
  <2> QED
    BY <1>9, <1>10, NatSetInduction
<1>12. CASE n = 0
  BY <1>1, <1>6, <1>8, <1>12
<1>13. CASE n # 0
  <2>1. n \in 0..n /\ n \in 1..n /\ n - 1 \in Nat /\ n - 1 <= n
    BY <1>1, <1>13
  <2>2. g[n] = Scroll(Wrap(Write(g[n - 1], msg[n])))
    BY <1>8, <1>13, <2>1
  <2>3. g[n - 1] \in VgaType
    BY <1>11, <2>1
  <2>4. QED
    BY <1>1, <1>6, <2>1, <2>2, <2>3, PutIs, Zenon
<1>14. QED
  BY <1>12, <1>13

-----------------------------------------------------------------------------
\* The state of vga.c and screen.c is typed, and each screen was left with its cursor on it.
ScreenTypes ==
  /\ vga \in VgaType /\ reg \in Nat /\ current_screen \in Screens
  /\ screen_buffers \in [Screens -> [Visible -> 0..Blank]]
  /\ screen_cursors \in [Screens -> Nat \X Nat]
  /\ left \in [Screens -> [cell : [Visible -> 0..Blank], row : Nat, col : Nat]]
  /\ \A s \in Screens : left[s].row < VGA_HEIGHT /\ left[s].col < VGA_WIDTH
  /\ pos \in Nat \X Nat /\ disturbed \in BOOLEAN
  /\ pc \in Switching => arg \in Screens

\* The cursor and what the thread has loaded, at every place of the thread.
CursorInv ==
  /\ vga.row <= VGA_HEIGHT /\ vga.col <= VGA_WIDTH
  /\ vga.row < VGA_HEIGHT \/ vga.col < VGA_WIDTH
  /\ pc \notin {"wrap", "check", "scroll"} => vga.row < VGA_HEIGHT
  /\ pc \notin {"wrap", "wrapped"} => vga.col < VGA_WIDTH
  /\ pc = "entry" => reg \in Visible
  /\ pc \in {"column+", "tab"} => reg < VGA_WIDTH
  /\ pc \in {"newline+", "wrapped++"} => reg < VGA_HEIGHT
  /\ ret \in {"idle", "erased"}
  /\ pc \in {"back", "erased"} \/ ret = "erased" => pos[2] > 0

\* A step of the thread outside a switch.
Moves ==
  /\ vga' \in VgaType /\ reg' \in Nat /\ pos' \in Nat \X Nat
  /\ CursorInv'
  /\ Keep /\ pc \notin Switching /\ pc' \notin Switching

\* What the writes to the cursor and to a cell leave of the rest.
LEMMA VgaEdit ==
  ASSUME vga \in VgaType
  PROVE  /\ \A x \in Nat : LET v == [vga EXCEPT !.col = x]
                           IN  v \in VgaType /\ v.row = vga.row /\ v.col = x
         /\ \A x \in Nat : LET v == [vga EXCEPT !.row = x]
                           IN  v \in VgaType /\ v.row = x /\ v.col = vga.col
         /\ \A k, b : b \in 0..Blank =>
              LET v == [vga EXCEPT !.cell[k] = b]
              IN  v \in VgaType /\ v.row = vga.row /\ v.col = vga.col
<1>1. ASSUME NEW x \in Nat PROVE LET v == [vga EXCEPT !.col = x]
                                 IN  v \in VgaType /\ v.row = vga.row /\ v.col = x
  BY <1>1, Zenon DEF VgaType
<1>2. ASSUME NEW x \in Nat PROVE LET v == [vga EXCEPT !.row = x]
                                 IN  v \in VgaType /\ v.row = x /\ v.col = vga.col
  BY <1>2, Zenon DEF VgaType
<1>3. ASSUME NEW k, NEW b \in 0..Blank
      PROVE  LET v == [vga EXCEPT !.cell[k] = b]
             IN  v \in VgaType /\ v.row = vga.row /\ v.col = vga.col
  BY <1>3 DEF VgaType
<1>4. QED
  BY <1>1, <1>2, <1>3, Zenon

\* The start of vga_putchar.
LEMMA StartMoves ==
  ASSUME ScreenTypes, CursorInv, putchar_start
  PROVE  Moves
<1>1. /\ pc = "start" /\ ret' = ret /\ pos' = pos /\ Keep /\ pos \in Nat \X Nat
      /\ vga \in VgaType /\ reg \in Nat
  BY DEF putchar_start, Goto, ScreenTypes
<1>2. VGA_WIDTH \in Nat /\ VGA_HEIGHT \in Nat /\ VGA_WIDTH > 0 /\ VGA_HEIGHT > 0
  BY ScreensAssumption
<1>3. vga.row \in Nat /\ vga.col \in Nat /\ vga.row < VGA_HEIGHT /\ vga.col < VGA_WIDTH
  BY <1>1 DEF CursorInv, VgaType
<1>4. ASSUME NEW p, p \in {"newline", "wrap"}, pc' = p, vga' = [vga EXCEPT !.col = 0], reg' = reg
      PROVE  Moves
  <2>1. vga' \in VgaType /\ vga'.row = vga.row /\ vga'.col = 0
    BY <1>1, <1>4, VgaEdit
  <2>2. CursorInv'
    BY <1>1, <1>2, <1>3, <1>4, <2>1 DEF CursorInv
  <2>3. QED
    BY <1>1, <1>4, <2>1, <2>2 DEF Moves, Switching
<1>5. CASE arg = "tab" /\ reg' = vga.col /\ vga' = vga /\ pc' = "tab"
  <2>1. CursorInv'
    BY <1>1, <1>2, <1>3, <1>5 DEF CursorInv
  <2>2. QED
    BY <1>1, <1>3, <1>5, <2>1 DEF Moves, Switching
<1>6. CASE reg' = Index(vga) /\ vga' = vga /\ pc' = "entry"
  <2>1. reg' \in Visible /\ reg' \in Nat
    BY <1>3, <1>6, Grid DEF Index
  <2>2. CursorInv'
    BY <1>1, <1>2, <1>3, <1>6, <2>1 DEF CursorInv
  <2>3. QED
    BY <1>1, <1>6, <2>1, <2>2 DEF Moves, Switching
<1>7. QED
  BY <1>4, <1>5, <1>6 DEF putchar_start, Goto, Load, Store

\* vga_putentryat writes to a cell of the screen and moves nothing.
LEMMA EntryMoves ==
  ASSUME ScreenTypes, CursorInv, putentryat
  PROVE  Moves
<1>1. /\ pc = "entry" /\ pc' = "column" /\ ret' = ret /\ pos' = pos /\ reg' = reg /\ Keep
      /\ pos \in Nat \X Nat /\ vga \in VgaType /\ reg \in Nat /\ current_screen \in Screens
  BY DEF putentryat, Goto, Store, ScreenTypes
<1>2. PICK b \in 0..Blank : vga' = [vga EXCEPT !.cell[reg] = b]
  <2>1. Blank \in 0..Blank /\ current_screen \in 0..Blank
    BY <1>1, ScreensAssumption DEF Blank, Screens
  <2>2. QED
    BY <2>1 DEF putentryat, Store
<1>3. vga' \in VgaType /\ vga'.row = vga.row /\ vga'.col = vga.col
  BY <1>1, <1>2, VgaEdit
<1>4. CursorInv'
  BY <1>1, <1>3 DEF CursorInv
<1>5. QED
  BY <1>1, <1>3, <1>4 DEF Moves, Switching

\* What vga_scroll puts into a cell of the screen.
LEMMA ScrolledIs ==
  ASSUME NEW cell \in [Memory -> 0..Blank], NEW k \in Visible
  PROVE  Scrolled(cell, k) \in 0..Blank
<1>1. Blank \in 0..Blank
  BY ScreensAssumption DEF Blank
<1>2. k < (VGA_HEIGHT - 1) * VGA_WIDTH => k + VGA_WIDTH \in Memory
  BY Grid, Zenon
<1>3. k < (VGA_HEIGHT - 1) * VGA_WIDTH => cell[k + VGA_WIDTH] \in 0..Blank
  BY <1>2, Zenon
<1>4. QED
  BY <1>1, <1>3, Zenon DEF Scrolled

\* vga_column++, the tab stop and the test for the end of the row.
LEMMA ColumnMoves ==
  ASSUME ScreenTypes, CursorInv, putchar_column
  PROVE  Moves
<1>1. /\ ret' = ret /\ pos' = pos /\ Keep /\ pos \in Nat \X Nat
      /\ vga \in VgaType /\ reg \in Nat /\ vga.row \in Nat /\ vga.col \in Nat
  BY DEF putchar_column, Goto, ScreenTypes, VgaType
<1>2. VGA_WIDTH \in Nat /\ VGA_HEIGHT \in Nat /\ VGA_WIDTH > 0 /\ VGA_HEIGHT > 0
  BY ScreensAssumption
<1>3. CASE pc = "column" /\ reg' = vga.col /\ vga' = vga /\ pc' = "column+"
  <2>1. CursorInv'
    BY <1>1, <1>2, <1>3 DEF CursorInv
  <2>2. QED
    BY <1>1, <1>3, <2>1 DEF Moves, Switching
<1>4. ASSUME NEW x \in 0..VGA_WIDTH, pc \in {"column+", "tab"}, pc' = "wrap",
             vga' = [vga EXCEPT !.col = x], reg' = reg
      PROVE  Moves
  <2>1. vga' \in VgaType /\ vga'.row = vga.row /\ vga'.col = x
    BY <1>1, <1>2, <1>4, VgaEdit
  <2>2. CursorInv'
    BY <1>1, <1>2, <1>4, <2>1 DEF CursorInv
  <2>3. QED
    BY <1>1, <1>4, <2>1, <2>2 DEF Moves, Switching
<1>5. CASE pc = "column+" /\ vga' = [vga EXCEPT !.col = reg + 1] /\ reg' = reg /\ pc' = "wrap"
  <2>1. reg + 1 \in 0..VGA_WIDTH
    BY <1>1, <1>2, <1>5 DEF CursorInv
  <2>2. QED
    BY <1>4, <1>5, <2>1
<1>6. CASE pc = "tab" /\ vga' = [vga EXCEPT !.col = NextTab(reg)] /\ reg' = reg /\ pc' = "wrap"
  <2>1. NextTab(reg) \in 0..VGA_WIDTH
    BY <1>1, <1>2, <1>6, NextTabIs DEF CursorInv
  <2>2. QED
    BY <1>4, <1>6, <2>1
<1>7. CASE /\ pc = "wrap" /\ vga' = vga /\ reg' = reg
           /\ pc' = IF vga.col >= VGA_WIDTH THEN "wrapped" ELSE "check"
  <2>1. CursorInv'
    BY <1>1, <1>2, <1>7 DEF CursorInv
  <2>2. QED
    BY <1>1, <1>7, <2>1 DEF Moves, Switching
<1>8. QED
  BY <1>3, <1>5, <1>6, <1>7 DEF putchar_column, Goto, Load, Store

\* The row that a newline, or the end of a row, adds.
LEMMA RowMoves ==
  ASSUME ScreenTypes, CursorInv, putchar_row
  PROVE  Moves
<1>1. /\ ret' = ret /\ pos' = pos /\ Keep /\ pos \in Nat \X Nat
      /\ vga \in VgaType /\ reg \in Nat /\ vga.row \in Nat /\ vga.col \in Nat
  BY DEF putchar_row, Goto, ScreenTypes, VgaType
<1>2. VGA_WIDTH \in Nat /\ VGA_HEIGHT \in Nat /\ VGA_WIDTH > 0 /\ VGA_HEIGHT > 0
  BY ScreensAssumption
<1>3. CASE pc = "wrapped" /\ vga' = [vga EXCEPT !.col = 0] /\ reg' = reg /\ pc' = "wrapped+"
  <2>1. vga' \in VgaType /\ vga'.row = vga.row /\ vga'.col = 0
    BY <1>1, <1>3, VgaEdit
  <2>2. CursorInv'
    BY <1>1, <1>2, <1>3, <2>1 DEF CursorInv
  <2>3. QED
    BY <1>1, <1>3, <2>1, <2>2 DEF Moves, Switching
<1>4. CASE /\ (pc = "newline" /\ pc' = "newline+") \/ (pc = "wrapped+" /\ pc' = "wrapped++")
           /\ reg' = vga.row /\ vga' = vga
  <2>1. CursorInv'
    BY <1>1, <1>2, <1>4 DEF CursorInv
  <2>2. QED
    BY <1>1, <1>4, <2>1 DEF Moves, Switching
<1>5. CASE /\ (pc = "newline+" /\ pc' = "wrap") \/ (pc = "wrapped++" /\ pc' = "check")
           /\ vga' = [vga EXCEPT !.row = reg + 1] /\ reg' = reg
  <2>1. vga' \in VgaType /\ vga'.row = reg + 1 /\ vga'.col = vga.col
    <3>1. reg + 1 \in Nat
      BY <1>1
    <3>2. QED
      BY <1>1, <1>5, <3>1, VgaEdit
  <2>2. CursorInv'
    BY <1>1, <1>2, <1>5, <2>1 DEF CursorInv
  <2>3. QED
    BY <1>1, <1>5, <2>1, <2>2 DEF Moves, Switching
<1>6. QED
  BY <1>3, <1>4, <1>5, Zenon DEF putchar_row, Goto, Load, Store

\* vga_scroll, cell by cell, and the return of vga_putchar.
LEMMA ScrollMoves ==
  ASSUME ScreenTypes, CursorInv, putchar_scroll
  PROVE  Moves
<1>1. /\ ret' = ret /\ pos' = pos /\ Keep /\ pos \in Nat \X Nat /\ ret \in {"idle", "erased"}
      /\ vga \in VgaType /\ reg \in Nat /\ vga.row \in Nat /\ vga.col \in Nat
  BY DEF putchar_scroll, Goto, ScreenTypes, VgaType, CursorInv
<1>2. VGA_WIDTH \in Nat /\ VGA_HEIGHT \in Nat /\ VGA_WIDTH > 0 /\ VGA_HEIGHT > 0
  BY ScreensAssumption
<1>3. CASE /\ pc = "check" /\ vga' = vga /\ reg' = 0
           /\ pc' = IF vga.row >= VGA_HEIGHT THEN "scroll" ELSE ret
  <2>1. CursorInv'
    BY <1>1, <1>2, <1>3 DEF CursorInv
  <2>2. QED
    BY <1>1, <1>3, <2>1 DEF Moves, Switching
<1>4. CASE /\ pc = "scroll" /\ reg \in Visible /\ pc' = "scroll"
           /\ vga' = [vga EXCEPT !.cell[reg] = Scrolled(vga.cell, reg)] /\ reg' = reg + 1
  <2>1. Scrolled(vga.cell, reg) \in 0..Blank
    BY <1>1, <1>4, ScrolledIs DEF VgaType
  <2>2. vga' \in VgaType /\ vga'.row = vga.row /\ vga'.col = vga.col
    BY <1>1, <1>4, <2>1, VgaEdit
  <2>3. CursorInv'
    BY <1>1, <1>2, <1>4, <2>2 DEF CursorInv
  <2>4. QED
    BY <1>1, <1>4, <2>2, <2>3 DEF Moves, Switching
<1>5. CASE pc = "scroll" /\ vga' = [vga EXCEPT !.row = VGA_HEIGHT - 1] /\ reg' = reg /\ pc' = ret
  <2>1. vga' \in VgaType /\ vga'.row = VGA_HEIGHT - 1 /\ vga'.col = vga.col
    <3>1. VGA_HEIGHT - 1 \in Nat
      BY <1>2
    <3>2. QED
      BY <1>1, <1>5, <3>1, VgaEdit
  <2>2. CursorInv'
    BY <1>1, <1>2, <1>5, <2>1 DEF CursorInv
  <2>3. QED
    BY <1>1, <1>5, <2>1, <2>2 DEF Moves, Switching
<1>6. QED
  BY <1>3, <1>4, <1>5 DEF putchar_scroll, Goto, Store

\* vga_set_cursor_position takes a position on the screen, and no other.
LEMMA SetCursorIs ==
  ASSUME vga \in VgaType, NEW row \in Nat, NEW col \in Nat
  PROVE  /\ SetCursor(row, col) \in VgaType
         /\ SetCursor(row, col).cell = vga.cell
         /\ IF row < VGA_HEIGHT /\ col < VGA_WIDTH
            THEN SetCursor(row, col).row = row /\ SetCursor(row, col).col = col
            ELSE SetCursor(row, col) = vga
<1>1. [vga EXCEPT !.row = row, !.col = col] \in VgaType
      /\ [vga EXCEPT !.row = row, !.col = col].cell = vga.cell
      /\ [vga EXCEPT !.row = row, !.col = col].row = row
      /\ [vga EXCEPT !.row = row, !.col = col].col = col
  BY Zenon DEF VgaType
<1>2. CASE row < VGA_HEIGHT /\ col < VGA_WIDTH
  BY <1>1, <1>2, Zenon DEF SetCursor
<1>3. CASE ~(row < VGA_HEIGHT /\ col < VGA_WIDTH)
  BY <1>3, Zenon DEF SetCursor
<1>4. QED
  BY <1>2, <1>3, Zenon

\* The erasing code steps back to a column it has checked to exist.
LEMMA EraseMoves ==
  ASSUME ScreenTypes, CursorInv, erase
  PROVE  Moves
<1>1. /\ Keep /\ pos \in Nat \X Nat /\ reg' = reg
      /\ vga \in VgaType /\ reg \in Nat /\ vga.row \in Nat /\ vga.col \in Nat
  BY DEF erase, ScreenTypes, VgaType
<1>2. VGA_WIDTH \in Nat /\ VGA_HEIGHT \in Nat /\ VGA_WIDTH > 0 /\ VGA_HEIGHT > 0
  BY ScreensAssumption
<1>3. CASE /\ pc = "idle" /\ vga.col > 0 /\ pos' = <<vga.row, vga.col>> /\ pc' = "back"
           /\ vga' = vga /\ ret' = ret
  <2>1. pos' \in Nat \X Nat /\ pos'[2] = vga.col
    BY <1>1, <1>3
  <2>2. CursorInv'
    BY <1>1, <1>2, <1>3, <2>1 DEF CursorInv
  <2>3. QED
    BY <1>1, <1>3, <2>1, <2>2 DEF Moves, Switching
<1>4. CASE /\ vga' = SetCursor(pos[1], pos[2] - 1) /\ pos' = pos
           /\ \/ pc = "back" /\ pc' = "start" /\ ret' = "erased"
              \/ pc = "erased" /\ pc' = "idle" /\ ret' = ret
  <2>1. pos[1] \in Nat /\ pos[2] - 1 \in Nat /\ pos[2] > 0
    BY <1>1, <1>4 DEF CursorInv
  <2>2. /\ vga' \in VgaType
        /\ \/ vga'.row < VGA_HEIGHT /\ vga'.col < VGA_WIDTH
           \/ vga' = vga
    BY <1>1, <1>4, <2>1, SetCursorIs
  <2>3. vga'.row < VGA_HEIGHT /\ vga'.col < VGA_WIDTH /\ vga'.row \in Nat /\ vga'.col \in Nat
    BY <1>4, <2>2 DEF CursorInv, VgaType
  <2>4. CursorInv'
    BY <1>1, <1>2, <1>4, <2>1, <2>3 DEF CursorInv
  <2>5. QED
    BY <1>1, <1>4, <2>2, <2>4 DEF Moves, Switching
<1>5. QED
  BY <1>3, <1>4, Zenon DEF erase, Call, Goto

\* vga_clear, and the call of vga_putchar.
LEMMA ClearMoves ==
  ASSUME ScreenTypes, CursorInv, vga_clear \/ \E c \in Chars : vga_putchar(c)
  PROVE  Moves
<1>1. /\ Keep /\ pos \in Nat \X Nat /\ pos' = pos
      /\ vga \in VgaType /\ reg \in Nat /\ vga.row \in Nat /\ vga.col \in Nat
  BY DEF vga_clear, vga_putchar, Goto, ScreenTypes, VgaType
<1>2. VGA_WIDTH \in Nat /\ VGA_HEIGHT \in Nat /\ VGA_WIDTH > 0 /\ VGA_HEIGHT > 0
  BY ScreensAssumption
<1>3. CASE /\ pc = "idle" /\ vga' = vga /\ reg' \in Nat
           /\ \/ pc' = "start" /\ ret' = "idle"
              \/ pc' = "clear" /\ ret' = ret
  <2>1. CursorInv'
    BY <1>1, <1>2, <1>3 DEF CursorInv
  <2>2. QED
    BY <1>1, <1>3, <2>1 DEF Moves, Switching
<1>4. CASE /\ pc = "clear" /\ pc' = "clear" /\ ret' = ret /\ reg' = reg + 1
           /\ vga' = [vga EXCEPT !.cell[reg] = Blank]
  <2>1. Blank \in 0..Blank
    BY ScreensAssumption DEF Blank
  <2>2. vga' \in VgaType /\ vga'.row = vga.row /\ vga'.col = vga.col
    BY <1>1, <1>4, <2>1, VgaEdit
  <2>3. CursorInv'
    BY <1>1, <1>2, <1>4, <2>2 DEF CursorInv
  <2>4. QED
    BY <1>1, <1>4, <2>2, <2>3 DEF Moves, Switching
<1>5. CASE /\ pc = "clear" /\ pc' = "idle" /\ ret' = ret /\ reg' = reg
           /\ vga' = [vga EXCEPT !.row = 0, !.col = 0]
  <2>1. vga' \in VgaType /\ vga'.row = 0 /\ vga'.col = 0
    BY <1>1, <1>5, Zenon DEF VgaType
  <2>2. CursorInv'
    BY <1>1, <1>2, <1>5, <2>1 DEF CursorInv
  <2>3. QED
    BY <1>1, <1>5, <2>1, <2>2 DEF Moves, Switching
<1>6. CASE \E c \in Chars : vga_putchar(c)
  BY <1>1, <1>3, <1>6 DEF vga_putchar, Call
<1>7. CASE vga_clear
  BY <1>1, <1>3, <1>4, <1>5, <1>7 DEF vga_clear, Call, Goto, Load, Store
<1>8. QED
  BY <1>6, <1>7

-----------------------------------------------------------------------------
\* What the screen shows: its cells and its cursor.
Shown(v) == [cell |-> [k \in Visible |-> v.cell[k]], row |-> v.row, col |-> v.col]

\* The saved copy of screen s is what the user left there.
Kept(s) == screen_buffers[s] = left[s].cell /\ screen_cursors[s] = <<left[s].row, left[s].col>>

\* What has been saved and restored so far, as long as no message came into the switch.
KeptInv ==
  ~disturbed =>
    /\ \A s \in Screens : s # current_screen \/ pc \in {"select", "restore"} => Kept(s)
    /\ pc \in {"save", "save2", "select"} => left[current_screen] = Shown(vga)
    /\ pc \in {"save", "save2"} => \A k \in Visible :
         k < reg => screen_buffers[current_screen][k] = left[current_screen].cell[k]
    /\ pc = "restore" => /\ arg = current_screen
                         /\ \A k \in Visible : k < reg => vga.cell[k] = screen_buffers[arg][k]
    /\ pc = "select" => reg = 0

\* The inductive invariant of the screens.
ScreenInv == ScreenTypes /\ CursorInv /\ KeptInv

\* A step of the thread outside a switch keeps the invariant.
LEMMA MovesKeep ==
  ASSUME ScreenInv, Moves
  PROVE  ScreenInv'
<1>1. ScreenTypes'
  BY DEF ScreenInv, Moves, ScreenTypes, Keep
<1>2. /\ screen_buffers' = screen_buffers /\ screen_cursors' = screen_cursors
      /\ current_screen' = current_screen /\ left' = left /\ disturbed' = disturbed
  BY DEF Moves, Keep
<1>3. \A s : Kept(s)' = Kept(s)
  BY <1>2, Zenon DEF Kept
<1>4. pc' \notin {"save", "save2", "select", "restore"}
  BY DEF Moves, Switching
<1>5. KeptInv'
  <2>1. SUFFICES ASSUME ~disturbed, NEW s \in Screens, s # current_screen
                 PROVE  Kept(s)
    BY <1>2, <1>3, <1>4 DEF KeptInv
  <2>2. QED
    BY <2>1 DEF ScreenInv, KeptInv
<1>6. QED
  BY <1>1, <1>5, Zenon DEF ScreenInv, Moves

\* The timer's message keeps it too: it moves the cursor onto the screen, and in the
\* middle of a switch it is recorded.
LEMMA MessageKeeps ==
  ASSUME ScreenInv, NEW msg \in Messages, timer_message(msg)
  PROVE  ScreenInv'
<1>1. /\ screen_buffers' = screen_buffers /\ screen_cursors' = screen_cursors
      /\ current_screen' = current_screen /\ left' = left
      /\ pc' = pc /\ arg' = arg /\ ret' = ret /\ reg' = reg /\ pos' = pos
      /\ vga' = printk(vga, msg) /\ disturbed' = (disturbed \/ pc \in Switching)
  BY Zenon DEF timer_message
<1>2. vga \in VgaType /\ current_screen \in Screens /\ msg \in Seq(Chars)
  BY ScreensAssumption DEF ScreenInv, ScreenTypes
<1>3. /\ vga' \in VgaType
      /\ vga' = vga \/ (vga'.row < VGA_HEIGHT /\ vga'.col < VGA_WIDTH)
  BY <1>1, <1>2, PrintkIs
<1>4. ScreenTypes'
  <2>1. disturbed' \in BOOLEAN
    BY <1>1
  <2>2. QED
    BY <1>1, <1>3, <2>1 DEF ScreenInv, ScreenTypes
<1>5. CursorInv'
  <2>1. VGA_WIDTH \in Nat /\ VGA_HEIGHT \in Nat /\ vga'.row \in Nat /\ vga'.col \in Nat
    BY <1>3, ScreensAssumption DEF VgaType
  <2>2. QED
    BY <1>1, <1>3, <2>1 DEF ScreenInv, CursorInv
<1>6. KeptInv'
  <2>1. CASE disturbed \/ pc \in Switching
    BY <1>1, <2>1, Zenon DEF KeptInv
  <2>2. CASE ~disturbed /\ pc \notin Switching
    <3>1. \A s : Kept(s)' = Kept(s)
      BY <1>1, Zenon DEF Kept
    <3>2. SUFFICES ASSUME NEW s \in Screens, s # current_screen
                   PROVE  Kept(s)
      BY <1>1, <2>2, <3>1 DEF KeptInv, Switching
    <3>3. QED
      BY <2>2, <3>2 DEF ScreenInv, KeptInv
  <2>3. QED
    BY <2>1, <2>2
<1>7. QED
  BY <1>4, <1>5, <1>6, Zenon DEF ScreenInv

\* handle_screen_switch leaves the current screen as it is shown.
LEMMA SwitchKeeps ==
  ASSUME ScreenInv, NEW n \in Screens, handle_screen_switch(n)
  PROVE  ScreenInv'
<1>1. /\ pc = "idle" /\ pc' = "save" /\ arg' = n /\ reg' = 0
      /\ left' = [left EXCEPT ![current_screen] = Shown(vga)]
      /\ vga' = vga /\ screen_buffers' = screen_buffers /\ screen_cursors' = screen_cursors
      /\ current_screen' = current_screen /\ ret' = ret /\ pos' = pos /\ disturbed' = disturbed
  BY Zenon DEF handle_screen_switch, Call, Shown
<1>2. vga \in VgaType /\ current_screen \in Screens
      /\ vga.row < VGA_HEIGHT /\ vga.col < VGA_WIDTH
      /\ left \in [Screens -> [cell : [Visible -> 0..Blank], row : Nat, col : Nat]]
  BY <1>1 DEF ScreenInv, ScreenTypes, CursorInv
<1>3. Shown(vga) \in [cell : [Visible -> 0..Blank], row : Nat, col : Nat]
  <2>1. \A k \in Visible : vga.cell[k] \in 0..Blank
    BY <1>2, Grid, Zenon DEF VgaType
  <2>2. QED
    BY <1>2, <2>1 DEF Shown, VgaType
<1>4. /\ left' \in [Screens -> [cell : [Visible -> 0..Blank], row : Nat, col : Nat]]
      /\ left'[current_screen] = Shown(vga)
      /\ \A s \in Screens : s # current_screen => left'[s] = left[s]
  BY <1>1, <1>2, <1>3
<1>5. Shown(vga).row = vga.row /\ Shown(vga).col = vga.col
  BY Zenon DEF Shown
<1>6. ScreenTypes'
  <2>1. \A s \in Screens : left'[s].row < VGA_HEIGHT /\ left'[s].col < VGA_WIDTH
    BY <1>2, <1>4, <1>5 DEF ScreenInv, ScreenTypes
  <2>2. QED
    BY <1>1, <1>4, <2>1 DEF ScreenInv, ScreenTypes
<1>7. CursorInv'
  BY <1>1 DEF ScreenInv, CursorInv
<1>8. KeptInv'
  <2>1. \A s \in Screens : s # current_screen => Kept(s)' = Kept(s)
    BY <1>1, <1>4, Zenon DEF Kept
  <2>2. \A k \in Visible : ~(k < 0)
    BY Grid
  <2>3. ~disturbed => \A s \in Screens : s # current_screen => Kept(s)
    BY DEF ScreenInv, KeptInv
  <2>4. Shown(vga)' = Shown(vga)
    BY <1>1, Zenon DEF Shown
  <2>5. QED
    BY <1>1, <1>4, <2>1, <2>2, <2>3, <2>4 DEF KeptInv
<1>9. QED
  BY <1>6, <1>7, <1>8, Zenon DEF ScreenInv

\* screen_save copies what is shown, cell by cell and then the cursor.
LEMMA SaveKeeps ==
  ASSUME ScreenInv, screen_save
  PROVE  ScreenInv'
<1>1. /\ vga' = vga /\ current_screen' = current_screen /\ arg' = arg /\ ret' = ret /\ pos' = pos
      /\ left' = left /\ disturbed' = disturbed /\ pc \in {"save", "save2"}
  BY Zenon DEF screen_save
<1>2. /\ vga \in VgaType /\ current_screen \in Screens /\ reg \in Nat /\ arg \in Screens
      /\ screen_buffers \in [Screens -> [Visible -> 0..Blank]]
      /\ screen_cursors \in [Screens -> Nat \X Nat]
      /\ left \in [Screens -> [cell : [Visible -> 0..Blank], row : Nat, col : Nat]]
  BY <1>1 DEF ScreenInv, ScreenTypes, Switching
<1>3. Shown(vga)' = Shown(vga)
  BY <1>1, Zenon DEF Shown
<1>4. ~disturbed =>
        /\ left[current_screen].row = vga.row /\ left[current_screen].col = vga.col
        /\ \A k \in Visible : left[current_screen].cell[k] = vga.cell[k]
  <2>1. /\ Shown(vga).row = vga.row /\ Shown(vga).col = vga.col
        /\ \A k \in Visible : Shown(vga).cell[k] = vga.cell[k]
    BY Zenon DEF Shown
  <2>2. ~disturbed => left[current_screen] = Shown(vga)
    BY <1>1 DEF ScreenInv, KeptInv
  <2>3. QED
    BY <2>1, <2>2, Zenon
<1>5. CASE /\ reg \in Visible /\ reg' = reg + 1 /\ pc' = pc /\ screen_cursors' = screen_cursors
           /\ screen_buffers' = [screen_buffers EXCEPT ![current_screen][reg] = vga.cell[reg]]
  <2>1. vga.cell[reg] \in 0..Blank
    BY <1>2, <1>5, Grid, Zenon DEF VgaType
  <2>2. /\ screen_buffers' \in [Screens -> [Visible -> 0..Blank]]
        /\ \A s \in Screens : s # current_screen => screen_buffers'[s] = screen_buffers[s]
        /\ \A k \in Visible : screen_buffers'[current_screen][k] =
             IF k = reg THEN vga.cell[reg] ELSE screen_buffers[current_screen][k]
    BY <1>2, <1>5, <2>1
  <2>3. ScreenTypes'
    <3>1. reg' \in Nat /\ screen_buffers' \in [Screens -> [Visible -> 0..Blank]]
      BY <1>2, <1>5, <2>2
    <3>2. ScreenTypes
      BY DEF ScreenInv
    <3>3. QED
      BY <1>1, <1>5, <3>1, <3>2, Zenon DEF ScreenTypes
  <2>4. CursorInv'
    BY <1>1, <1>5 DEF ScreenInv, CursorInv
  <2>5. KeptInv'
    <3>1. \A s \in Screens : s # current_screen => Kept(s)' = Kept(s)
      BY <1>1, <1>5, <2>2, Zenon DEF Kept
    <3>2. ~disturbed => \A k \in Visible :
            k < reg + 1 => screen_buffers'[current_screen][k] = left[current_screen].cell[k]
      <4>1. SUFFICES ASSUME ~disturbed, NEW k \in Visible, k < reg + 1
                     PROVE  screen_buffers'[current_screen][k] = left[current_screen].cell[k]
        OBVIOUS
      <4>2. k = reg \/ k < reg
        BY <1>2, <4>1, Grid
      <4>3. k < reg => screen_buffers[current_screen][k] = left[current_screen].cell[k]
        BY <1>1, <4>1 DEF ScreenInv, KeptInv
      <4>4. QED
        BY <1>4, <2>2, <4>1, <4>2, <4>3, Zenon
    <3>3. ~disturbed => \A s \in Screens : s # current_screen => Kept(s)
      BY DEF ScreenInv, KeptInv
    <3>4. ~disturbed => left[current_screen] = Shown(vga)
      BY <1>1 DEF ScreenInv, KeptInv
    <3>5. QED
      BY <1>1, <1>3, <1>5, <3>1, <3>2, <3>3, <3>4 DEF KeptInv
  <2>6. QED
    BY <2>3, <2>4, <2>5, Zenon DEF ScreenInv
<1>6. CASE /\ reg \notin Visible /\ reg' = 0 /\ screen_buffers' = screen_buffers
           /\ screen_cursors' = [screen_cursors EXCEPT ![current_screen] = <<vga.row, vga.col>>]
           /\ pc' = IF pc = "save2" THEN "select"
                    ELSE IF arg = current_screen THEN "idle" ELSE "save2"
  <2>1. /\ screen_cursors' \in [Screens -> Nat \X Nat]
        /\ \A s \in Screens : s # current_screen => screen_cursors'[s] = screen_cursors[s]
        /\ screen_cursors'[current_screen] = <<vga.row, vga.col>>
    BY <1>2, <1>6 DEF VgaType
  <2>2. ScreenTypes'
    BY <1>1, <1>2, <1>6, <2>1 DEF ScreenInv, ScreenTypes
  <2>3. CursorInv'
    BY <1>1, <1>6 DEF ScreenInv, CursorInv
  <2>4. KeptInv'
    <3>1. \A s \in Screens : s # current_screen => Kept(s)' = Kept(s)
      BY <1>1, <1>6, <2>1, Zenon DEF Kept
    <3>2. ~disturbed => Kept(current_screen)'
      <4>1. SUFFICES ASSUME ~disturbed
                     PROVE  screen_buffers[current_screen] = left[current_screen].cell
        BY <1>1, <1>4, <1>6, <2>1 DEF Kept
      <4>2. \A k \in Visible : screen_buffers[current_screen][k] = left[current_screen].cell[k]
        <5>1. \A k \in Visible : k < reg
          BY <1>2, <1>6, Grid
        <5>2. QED
          BY <1>1, <4>1, <5>1 DEF ScreenInv, KeptInv
      <4>3. /\ screen_buffers[current_screen] \in [Visible -> 0..Blank]
            /\ left[current_screen].cell \in [Visible -> 0..Blank]
        BY <1>2
      <4>4. QED
        BY <4>2, <4>3
    <3>3. ~disturbed => \A s \in Screens : s # current_screen => Kept(s)
      BY DEF ScreenInv, KeptInv
    <3>4. ~disturbed => left[current_screen] = Shown(vga)
      BY <1>1 DEF ScreenInv, KeptInv
    <3>5. \A k \in Visible : ~(k < 0)
      BY Grid
    <3>6. pc' \in {"select", "idle", "save2"}
      BY <1>6
    <3>7. QED
      BY <1>1, <1>3, <1>6, <3>1, <3>2, <3>3, <3>4, <3>5, <3>6 DEF KeptInv
  <2>5. QED
    BY <2>2, <2>3, <2>4, Zenon DEF ScreenInv
<1>7. QED
  BY <1>5, <1>6, Zenon DEF screen_save

\* screen_switch makes the screen asked for the current one, with every screen saved.
LEMMA SelectKeeps ==
  ASSUME ScreenInv, screen_switch
  PROVE  ScreenInv'
<1>1. /\ pc = "select" /\ pc' = "restore" /\ current_screen' = arg
      /\ vga' = vga /\ screen_buffers' = screen_buffers /\ screen_cursors' = screen_cursors
      /\ arg' = arg /\ ret' = ret /\ reg' = reg /\ pos' = pos /\ left' = left
      /\ disturbed' = disturbed
  BY Zenon DEF screen_switch
<1>2. ScreenTypes'
  BY <1>1 DEF ScreenInv, ScreenTypes, Switching
<1>3. CursorInv'
  BY <1>1 DEF ScreenInv, CursorInv
<1>4. KeptInv'
  <2>1. \A s : Kept(s)' = Kept(s)
    BY <1>1, Zenon DEF Kept
  <2>2. ~disturbed => reg = 0 /\ \A s \in Screens : Kept(s)
    BY <1>1 DEF ScreenInv, KeptInv
  <2>3. \A k \in Visible : ~(k < 0)
    BY Grid
  <2>4. QED
    BY <1>1, <2>1, <2>2, <2>3 DEF KeptInv
<1>5. QED
  BY <1>2, <1>3, <1>4, Zenon DEF ScreenInv

\* screen_restore shows the saved copy, cell by cell and then the cursor; when it returns
\* undisturbed, what is shown is what was left.
LEMMA RestoreKeeps ==
  ASSUME ScreenInv, screen_restore
  PROVE  /\ ScreenInv'
         /\ pc' = "idle" /\ ~disturbed => Shown(vga') = left[current_screen]
<1>1. /\ current_screen' = current_screen /\ arg' = arg /\ ret' = ret /\ pos' = pos
      /\ screen_buffers' = screen_buffers /\ screen_cursors' = screen_cursors
      /\ left' = left /\ disturbed' = disturbed /\ pc = "restore"
  BY Zenon DEF screen_restore, Keep, Goto
<1>2. /\ vga \in VgaType /\ current_screen \in Screens /\ reg \in Nat /\ arg \in Screens
      /\ screen_buffers \in [Screens -> [Visible -> 0..Blank]]
      /\ screen_cursors \in [Screens -> Nat \X Nat]
      /\ left \in [Screens -> [cell : [Visible -> 0..Blank], row : Nat, col : Nat]]
  BY <1>1 DEF ScreenInv, ScreenTypes, Switching
<1>3. \A s : Kept(s)' = Kept(s)
  BY <1>1, Zenon DEF Kept
<1>4. ~disturbed => /\ \A s \in Screens : Kept(s)
                    /\ arg = current_screen
                    /\ \A k \in Visible : k < reg => vga.cell[k] = screen_buffers[arg][k]
  BY <1>1 DEF ScreenInv, KeptInv
<1>5. CASE /\ reg \in Visible /\ reg' = reg + 1 /\ pc' = "restore"
           /\ vga' = [vga EXCEPT !.cell[reg] = screen_buffers[arg][reg]]
  <2>1. screen_buffers[arg][reg] \in 0..Blank /\ reg \in Memory
    BY <1>2, <1>5, Grid
  <2>2. vga' \in VgaType /\ vga'.row = vga.row /\ vga'.col = vga.col
    <3>1. PICK b \in 0..Blank : b = screen_buffers[arg][reg]
      BY <2>1
    <3>2. vga' = [vga EXCEPT !.cell[reg] = b]
      BY <1>5, <3>1, Zenon
    <3>3. vga \in VgaType
      BY <1>2
    <3>4. QED
      BY <3>2, <3>3, VgaEdit
  <2>3. \A k \in Memory :
          vga'.cell[k] = IF k = reg THEN screen_buffers[arg][reg] ELSE vga.cell[k]
    <3>1. vga'.cell = [vga.cell EXCEPT ![reg] = screen_buffers[arg][reg]]
      BY <1>2, <1>5, Zenon DEF VgaType
    <3>2. vga.cell \in [Memory -> 0..Blank]
      BY <1>2 DEF VgaType
    <3>3. QED
      BY <3>1, <3>2
  <2>4. ScreenTypes'
    BY <1>1, <1>2, <1>5, <2>2 DEF ScreenInv, ScreenTypes
  <2>5. CursorInv'
    BY <1>1, <1>5, <2>2 DEF ScreenInv, CursorInv
  <2>6. ~disturbed => \A k \in Visible : k < reg + 1 => vga'.cell[k] = screen_buffers[arg][k]
    <3>1. SUFFICES ASSUME ~disturbed, NEW k \in Visible, k < reg + 1
                   PROVE  vga'.cell[k] = screen_buffers[arg][k]
      OBVIOUS
    <3>2. (k = reg \/ k < reg) /\ k \in Memory
      BY <1>2, <3>1, Grid
    <3>3. QED
      BY <1>4, <2>3, <3>1, <3>2, Zenon
  <2>7. KeptInv'
    BY <1>1, <1>3, <1>4, <1>5, <2>6 DEF KeptInv
  <2>8. QED
    BY <1>5, <2>4, <2>5, <2>7 DEF ScreenInv
<1>6. CASE /\ reg \notin Visible /\ reg' = reg /\ pc' = "idle"
           /\ vga' = SetCursor(screen_cursors[arg][1], screen_cursors[arg][2])
  <2>1. PICK row \in Nat, col \in Nat : screen_cursors[arg] = <<row, col>>
    <3>1. screen_cursors[arg] \in Nat \X Nat
      BY <1>2
    <3>2. QED
      BY <3>1
  <2>2. vga' = SetCursor(row, col)
    <3>1. screen_cursors[arg][1] = row /\ screen_cursors[arg][2] = col
      BY <2>1
    <3>2. QED
      BY <1>6, <3>1, Zenon
  <2>3. /\ vga' \in VgaType /\ vga'.cell = vga.cell
        /\ \/ row < VGA_HEIGHT /\ col < VGA_WIDTH /\ vga'.row = row /\ vga'.col = col
           \/ ~(row < VGA_HEIGHT /\ col < VGA_WIDTH) /\ vga' = vga
    <3>1. vga \in VgaType
      BY <1>2
    <3>2. QED
      BY <2>2, <3>1, SetCursorIs, Zenon
  <2>4. ScreenTypes'
    BY <1>1, <1>2, <1>6, <2>3 DEF ScreenInv, ScreenTypes, Switching
  <2>5. CursorInv'
    <3>1. VGA_WIDTH \in Nat /\ VGA_HEIGHT \in Nat /\ vga'.row \in Nat /\ vga'.col \in Nat
      BY <2>3, ScreensAssumption DEF VgaType
    <3>2. vga.row < VGA_HEIGHT /\ vga.col < VGA_WIDTH /\ ret \in {"idle", "erased"}
          /\ (ret = "erased" => pos[2] > 0)
      BY <1>1 DEF ScreenInv, CursorInv
    <3>3. vga'.row < VGA_HEIGHT /\ vga'.col < VGA_WIDTH
      BY <2>3, <3>2
    <3>4. QED
      BY <1>1, <1>6, <3>1, <3>2, <3>3 DEF CursorInv
  <2>6. KeptInv'
    BY <1>1, <1>3, <1>4, <1>6 DEF KeptInv
  <2>7. ASSUME ~disturbed PROVE Shown(vga') = left[current_screen]
    <3>1. /\ screen_buffers[arg] = left[arg].cell
          /\ row = left[arg].row /\ col = left[arg].col
      BY <1>2, <1>4, <2>1, <2>7 DEF Kept
    <3>2. row < VGA_HEIGHT /\ col < VGA_WIDTH
      BY <1>2, <3>1 DEF ScreenInv, ScreenTypes
    <3>3. vga'.row = left[arg].row /\ vga'.col = left[arg].col
      BY <2>3, <3>1, <3>2
    <3>4. \A k \in Visible : vga'.cell[k] = left[arg].cell[k]
      <4>1. \A k \in Visible : k < reg
        BY <1>2, <1>6, Grid
      <4>2. QED
        BY <1>4, <2>3, <2>7, <3>1, <4>1, Zenon
    <3>5. [k \in Visible |-> vga'.cell[k]] = left[arg].cell
      <4>1. left[arg].cell \in [Visible -> 0..Blank]
        BY <1>2
      <4>2. QED
        BY <3>4, <4>1
    <3>6. left[arg] \in [cell : [Visible -> 0..Blank], row : Nat, col : Nat]
      BY <1>2
    <3>7. QED
      BY <1>4, <2>7, <3>3, <3>5, <3>6 DEF Shown
  <2>8. QED
    BY <2>4, <2>5, <2>6, <2>7 DEF ScreenInv
<1>7. QED
  BY <1>5, <1>6, Zenon DEF screen_restore, Goto, Store

\* Nothing but the history of bounds changes when no variable does.
LEMMA ScreenStutter ==
  ASSUME ScreenInv, UNCHANGED svars
  PROVE  ScreenInv'
<1>1. /\ vga' = vga /\ screen_buffers' = screen_buffers /\ screen_cursors' = screen_cursors
      /\ current_screen' = current_screen /\ pc' = pc /\ arg' = arg /\ ret' = ret /\ reg' = reg
      /\ pos' = pos /\ left' = left /\ disturbed' = disturbed
  BY DEF svars
<1>2. ScreenTypes' /\ CursorInv'
  BY <1>1 DEF ScreenInv, ScreenTypes, CursorInv
<1>3. KeptInv'
  <2>1. (\A s : Kept(s)' = Kept(s)) /\ Shown(vga)' = Shown(vga)
    BY <1>1, Zenon DEF Kept, Shown
  <2>2. QED
    BY <1>1, <2>1 DEF ScreenInv, KeptInv
<1>4. QED
  BY <1>2, <1>3, Zenon DEF ScreenInv

\* Every step of the thread and of the timer keeps the invariant.
LEMMA ScreenStep ==
  ASSUME ScreenInv, [ScreensNext]_svars
  PROVE  ScreenInv'
<1>1. ScreenTypes /\ CursorInv
  BY DEF ScreenInv
<1>2. CASE \E msg \in Messages : timer_message(msg)
  BY <1>2, MessageKeeps, Zenon
<1>3. CASE vga_clear \/ \E c \in Chars : vga_putchar(c)
  BY <1>1, <1>3, ClearMoves, MovesKeep, Zenon
<1>4. CASE \/ putchar_start \/ putentryat \/ putchar_column \/ putchar_row
           \/ putchar_scroll \/ erase
  BY <1>1, <1>4, StartMoves, EntryMoves, ColumnMoves, RowMoves, ScrollMoves, EraseMoves,
     MovesKeep, Zenon
<1>5. CASE \E n \in Screens : handle_screen_switch(n)
  BY <1>5, SwitchKeeps, Zenon
<1>6. CASE screen_save \/ screen_switch \/ screen_restore
  BY <1>6, SaveKeeps, SelectKeeps, RestoreKeeps, Zenon
<1>7. CASE UNCHANGED svars
  BY <1>7, ScreenStutter, Zenon
<1>8. QED
  BY <1>2, <1>3, <1>4, <1>5, <1>6, <1>7, Zenon DEF ScreensNext, Thread

\* The screens start blank, with the cursor at the origin.
LEMMA ScreenStart ==
  ScreensInit => ScreenInv
<1>1. SUFFICES ASSUME ScreensInit PROVE ScreenInv
  OBVIOUS
<1>2. VGA_WIDTH \in Nat /\ VGA_HEIGHT \in Nat /\ VGA_WIDTH > 0 /\ VGA_HEIGHT > 0
      /\ Blank \in 0..Blank /\ 0 \in Screens
  BY ScreensAssumption DEF Blank, Screens
<1>3. /\ vga \in VgaType /\ vga.row = 0 /\ vga.col = 0
      /\ pc = "idle" /\ ret = "idle" /\ reg = 0 /\ pos = <<0, 0>> /\ disturbed = FALSE
      /\ current_screen = 0
  BY <1>1, <1>2 DEF ScreensInit, VgaType
<1>4. Empty \in [Visible -> 0..Blank]
  BY <1>2 DEF Empty
<1>5. /\ screen_buffers \in [Screens -> [Visible -> 0..Blank]]
      /\ screen_cursors \in [Screens -> Nat \X Nat]
      /\ left \in [Screens -> [cell : [Visible -> 0..Blank], row : Nat, col : Nat]]
      /\ \A s \in Screens : /\ left[s].row = 0 /\ left[s].col = 0 /\ left[s].cell = Empty
                            /\ screen_buffers[s] = Empty /\ screen_cursors[s] = <<0, 0>>
  BY <1>1, <1>4, Zenon DEF ScreensInit
<1>6. ScreenTypes
  BY <1>2, <1>3, <1>5 DEF ScreenTypes, Switching
<1>7. CursorInv
  BY <1>2, <1>3 DEF CursorInv
<1>8. KeptInv
  BY <1>3, <1>5 DEF KeptInv, Kept
<1>9. QED
  BY <1>6, <1>7, <1>8 DEF ScreenInv

\* On every screen size, with every message of the timer at every instruction, the cursor
\* of vga.c stays in the memory, vga_putentryat writes to the screen, and the cursor is on
\* the screen outside vga_putchar.
THEOREM ScreensCursor == ScreensSpec => []CursorBounded
<1>1. ScreenInv => CursorBounded
  <2>1. SUFFICES ASSUME ScreenInv PROVE CursorBounded
    OBVIOUS
  <2>2. vga.row \in Nat /\ vga.col \in Nat
    BY <2>1 DEF ScreenInv, ScreenTypes, VgaType
  <2>3. Index(vga) \in Memory
    BY <2>1, <2>2, Grid DEF Index, ScreenInv, CursorInv
  <2>4. QED
    BY <2>1, <2>3 DEF CursorBounded, ScreenInv, CursorInv, Switching
<1>2. QED
  BY <1>1, ScreenStart, ScreenStep, PTL DEF ScreensSpec

\* Whatever was written to the other screens in between, handle_screen_switch shows a
\* screen again with the text and the cursor with which it was left, unless a message of
\* the timer came in the middle of a switch.
THEOREM ScreensReturn == ScreensSpec => ReturnsAsLeft
<1>1. ASSUME ScreenInv, [ScreensNext]_svars
      PROVE  [pc = "restore" /\ pc' = "idle" /\ ~disturbed =>
                [cell |-> [k \in Visible |-> vga'.cell[k]], row |-> vga'.row, col |-> vga'.col]
                  = left[current_screen]]_svars
  <2>1. SUFFICES ASSUME pc = "restore", pc' = "idle", ~disturbed, ScreensNext
                 PROVE  Shown(vga') = left[current_screen]
    BY <1>1 DEF Shown
  <2>2. screen_restore
    <3>1. ScreenTypes /\ CursorInv
      BY <1>1 DEF ScreenInv
    <3>2. ~Moves
      BY <2>1 DEF Moves, Switching
    <3>3. ~(\E msg \in Messages : timer_message(msg))
      BY <2>1 DEF timer_message
    <3>4. ~(\E n \in Screens : handle_screen_switch(n)) /\ ~screen_save /\ ~screen_switch
      BY <2>1 DEF handle_screen_switch, Call, screen_save, screen_switch
    <3>5. QED
      BY <2>1, <3>1, <3>2, <3>3, <3>4, StartMoves, EntryMoves, ColumnMoves, RowMoves,
         ScrollMoves, EraseMoves, ClearMoves, Zenon DEF ScreensNext, Thread
  <2>3. QED
    BY <1>1, <2>1, <2>2, RestoreKeeps, Zenon
<1>2. QED
  BY <1>1, ScreenStart, ScreenStep, PTL DEF ScreensSpec, ReturnsAsLeft
=============================================================================
