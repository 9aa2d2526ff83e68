--------------------------- MODULE DialingProofs ----------------------------
(***************************************************************************)
(* Proofs about Dialing, for any nodes and requests.                       *)
(***************************************************************************)
EXTENDS Dialing, SequenceTheorems, TLAPS

(* A queue has the requests of its own node, each once.                    *)
QueueOwn ==
  \A n \in Nodes : \A i \in 1 .. Len(queue[n]) :
    /\ From[queue[n][i]] = n
    /\ request[queue[n][i]] = "queued"
    /\ \A j \in 1 .. Len(queue[n]) : queue[n][i] = queue[n][j] => i = j

IndInv == TypeOK /\ QueueOwn /\ GreetingHeld /\ GoneLetsGo

LEMMA IndInvInit == Init => IndInv
  <1> SUFFICES ASSUME Init PROVE IndInv
    OBVIOUS
  <1>1. \A n \in Nodes : queue[n] = <<>> /\ Len(queue[n]) = 0
    BY DEF Init
  <1>2. DialingTypeOK
    BY DEF Init, DialingTypeOK, Waiting, Dialled
  <1>3. OneDial
    BY <1>1, DialingAssumption DEF Init, OneDial, Dials, Dialled
  <1>4. QueueOwn
    BY <1>1 DEF QueueOwn
  <1>5. GreetingHeld /\ GoneLetsGo
    BY DialingAssumption DEF Init, GreetingHeld, GoneLetsGo
  <1> QED BY <1>2, <1>3, <1>4, <1>5 DEF IndInv, TypeOK

(* A step that leaves the queues as they are, and what is in them.         *)
LEMMA QueuesStay ==
  ASSUME IndInv, UNCHANGED queue, DialingTypeOK',
         \A r \in Requests : request[r] = "queued" <=> request'[r] = "queued"
  PROVE  /\ QueueOwn'
         /\ \A r \in Requests :
              (request[r] = "queued")' <=>
                (\E i \in 1 .. Len(queue[From[r]]) : queue[From[r]][i] = r)'
  <1>1. \A n \in Nodes : \A i \in 1 .. Len(queue[n]) : queue[n][i] \in Requests
    BY ElementOfSeq DEF IndInv, TypeOK, DialingTypeOK
  <1>2. QueueOwn'
    BY <1>1 DEF IndInv, QueueOwn
  <1> QED BY <1>2 DEF IndInv, TypeOK, OneDial

LEMMA RequestConnectKeeps ==
  ASSUME IndInv, NEW r \in Requests, RequestConnect(r)
  PROVE  IndInv'
  <1> DEFINE n == From[r]
  <1>0. n \in Nodes /\ queue[n] \in Seq(Requests)
    BY DialingAssumption DEF IndInv, TypeOK, DialingTypeOK
  <1>1. CASE netlayer[n] = "gone"
    <2>1. DialingTypeOK'
      BY <1>1 DEF RequestConnect, IndInv, TypeOK, DialingTypeOK
    <2>2. \A q \in Requests : request'[q] = IF q = r THEN "dropped" ELSE request[q]
      BY <1>1 DEF RequestConnect, IndInv, TypeOK, DialingTypeOK
    <2>3. request[r] = "none" /\ UNCHANGED <<netlayer, queue, accepting>>
      BY <1>1 DEF RequestConnect
    <2>4. QueueOwn' /\ OneDial'
      <3>1. \A q \in Requests : request[q] = "queued" <=> request'[q] = "queued"
        BY <2>2, <2>3
      <3>2. \A q \in Requests : \A m \in Nodes : Dials(m, q) <=> Dials(m, q)'
        BY <2>2, <2>3 DEF Dials, Dialled
      <3> QED BY <2>1, <2>3, <3>1, <3>2, QueuesStay, DialingAssumption
            DEF IndInv, TypeOK, OneDial
    <2>5. GreetingHeld' /\ GoneLetsGo'
      BY <2>2, <2>3 DEF IndInv, GreetingHeld, GoneLetsGo, Waiting, Dialled
    <2> QED BY <2>1, <2>4, <2>5 DEF IndInv, TypeOK
  <1>2. CASE netlayer[n] # "gone"
    <2>0. /\ request[r] = "none"
          /\ request' = [request EXCEPT ![r] = "queued"]
          /\ queue' = [queue EXCEPT ![n] = Append(@, r)]
          /\ UNCHANGED <<netlayer, accepting>>
      BY <1>2 DEF RequestConnect
    <2>1. /\ \A q \in Requests : request'[q] = IF q = r THEN "queued" ELSE request[q]
          /\ \A m \in Nodes : queue'[m] = IF m = n THEN Append(queue[n], r) ELSE queue[m]
      BY <1>0, <2>0 DEF IndInv, TypeOK, DialingTypeOK
    <2>appended. /\ Append(queue[n], r) \in Seq(Requests)
          /\ Len(Append(queue[n], r)) = Len(queue[n]) + 1
          /\ Append(queue[n], r)[Len(queue[n]) + 1] = r
          /\ \A i \in 1 .. Len(queue[n]) : Append(queue[n], r)[i] = queue[n][i]
          /\ Len(queue[n]) \in Nat
      <3> HIDE DEF n
      <3> QED BY <1>0, AppendProperties, LenProperties
    <2>2. DialingTypeOK'
      <3>1. queue' \in [Nodes -> Seq(Requests)]
        BY <1>0, <2>0, <2>appended DEF IndInv, TypeOK, DialingTypeOK
      <3> QED BY <2>0, <3>1 DEF IndInv, TypeOK, DialingTypeOK, Waiting
    <2>3. /\ Len(queue'[n]) = Len(queue[n]) + 1
          /\ queue'[n][Len(queue[n]) + 1] = r
          /\ \A i \in 1 .. Len(queue[n]) : queue'[n][i] = queue[n][i]
          /\ Len(queue[n]) \in Nat
      <3> DEFINE new == Append(queue[n], r)
      <3>1. queue'[n] = new
        BY <1>0, <2>1
      <3> HIDE DEF new
      <3>2. /\ Len(new) = Len(queue[n]) + 1
            /\ new[Len(queue[n]) + 1] = r
            /\ \A i \in 1 .. Len(queue[n]) : new[i] = queue[n][i]
        BY <2>appended, Zenon DEF new
      <3> HIDE DEF n
      <3> QED BY <2>appended, <3>1, <3>2
    <2>4. \A m \in Nodes : \A i \in 1 .. Len(queue[m]) :
            queue[m][i] \in Requests /\ queue[m][i] # r
      BY <2>0, <2>1, ElementOfSeq DEF IndInv, TypeOK, DialingTypeOK, QueueOwn
    <2>5. QueueOwn'
      <3> SUFFICES ASSUME NEW m \in Nodes, NEW i \in 1 .. Len(queue'[m])
                   PROVE  /\ From[queue'[m][i]] = m
                          /\ request'[queue'[m][i]] = "queued"
                          /\ \A j \in 1 .. Len(queue'[m]) :
                               queue'[m][i] = queue'[m][j] => i = j
        BY DEF QueueOwn
      <3>1. CASE m # n
        BY <2>0, <2>1, <2>4, <3>1 DEF IndInv, QueueOwn
      <3>2. CASE m = n /\ i \in 1 .. Len(queue[n])
        <4>1. queue'[m][i] = queue[n][i] /\ queue[n][i] \in Requests /\ queue[n][i] # r
          BY <1>0, <2>3, <2>4, <3>2
        <4>2. From[queue'[m][i]] = m /\ request'[queue'[m][i]] = "queued"
          BY <1>0, <2>1, <3>2, <4>1 DEF IndInv, QueueOwn
        <4>3. ASSUME NEW j \in 1 .. Len(queue'[m]), queue'[m][i] = queue'[m][j] PROVE i = j
          <5>1. j \in 1 .. Len(queue[n])
            BY <2>3, <3>2, <4>1, <4>3
          <5> QED BY <1>0, <2>3, <3>2, <4>1, <4>3, <5>1 DEF IndInv, QueueOwn
        <4> QED BY <4>2, <4>3
      <3>3. CASE m = n /\ i = Len(queue[n]) + 1
        BY <1>0, <2>0, <2>1, <2>3, <2>4, <3>3
      <3> QED BY <2>3, <3>1, <3>2, <3>3
    <2>6. OneDial'
      <3>1. \A q \in Requests : \A m \in Nodes : Dials(m, q) <=> Dials(m, q)'
        BY <2>0, <2>1 DEF Dials, Dialled
      <3>2. \A q \in Requests :
              request'[q] = "queued" <=>
                \E i \in 1 .. Len(queue'[From[q]]) : queue'[From[q]][i] = q
        <4> TAKE q \in Requests
        <4>1. CASE q = r
          BY <1>0, <2>0, <2>1, <2>3, <4>1
        <4>2. CASE q # r /\ From[q] = n
          <5>1. request'[q] = request[q]
            BY <2>1, <4>2
          <5>2. request[q] = "queued" <=> \E i \in 1 .. Len(queue[n]) : queue[n][i] = q
            BY <4>2 DEF IndInv, TypeOK, OneDial
          <5>3. (\E i \in 1 .. Len(queue[n]) : queue[n][i] = q)
                  <=> \E i \in 1 .. Len(queue'[n]) : queue'[n][i] = q
            BY <2>3, <4>2
          <5> QED BY <4>2, <5>1, <5>2, <5>3
        <4>3. CASE From[q] # n
          BY <2>0, <2>1, <4>3, DialingAssumption DEF IndInv, TypeOK, OneDial
        <4> QED BY <4>1, <4>2, <4>3
      <3> QED BY <2>0, <2>1, <3>1, <3>2, DialingAssumption DEF IndInv, TypeOK, OneDial
    <2>7. GreetingHeld' /\ GoneLetsGo'
      BY <1>2, <2>0, <2>1 DEF IndInv, GreetingHeld, GoneLetsGo
    <2> QED BY <2>2, <2>5, <2>6, <2>7 DEF IndInv, TypeOK
  <1> QED BY <1>1, <1>2

LEMMA TakeRequestKeeps ==
  ASSUME IndInv, NEW n \in Nodes, TakeRequest(n)
  PROVE  IndInv'
  <1> DEFINE h == Head(queue[n])
             t == Tail(queue[n])
  <1>1. queue[n] \in Seq(Requests) /\ queue[n] # <<>>
    BY DEF TakeRequest, IndInv, TypeOK, DialingTypeOK
  <1>2. /\ h \in Requests /\ h = queue[n][1] /\ Len(queue[n]) \in Nat /\ Len(queue[n]) >= 1
        /\ t \in Seq(Requests)
        /\ Len(t) = Len(queue[n]) - 1
        /\ \A i \in 1 .. Len(t) : t[i] = queue[n][i + 1]
    BY <1>1, HeadTailProperties, EmptySeq, LenProperties
  <1>3. From[h] = n /\ request[h] = "queued"
    BY <1>2 DEF IndInv, QueueOwn
  <1> HIDE DEF h, t
  <1>4. /\ netlayer[n] = "selecting"
        /\ netlayer' = [netlayer EXCEPT ![n] = "connecting"]
        /\ queue' = [queue EXCEPT ![n] = t]
        /\ accepting' = [accepting EXCEPT ![n] = Nobody]
        /\ request' = [r \in Requests |->
                         IF r # h THEN LetGo(n, r)
                         ELSE IF netlayer[To[r]] = "gone" THEN "closed" ELSE "backlog"]
    BY DEF TakeRequest, h, t
  <1>5. /\ \A m \in Nodes : queue'[m] = IF m = n THEN t ELSE queue[m]
        /\ \A m \in Nodes : netlayer'[m] = IF m = n THEN "connecting" ELSE netlayer[m]
        /\ \A m \in Nodes : accepting'[m] = IF m = n THEN Nobody ELSE accepting[m]
    BY <1>4 DEF IndInv, TypeOK, DialingTypeOK
  <1>6. /\ \A r \in Requests : r # h => request'[r] = LetGo(n, r)
        /\ request'[h] \in {"closed", "backlog"}
        /\ netlayer[To[h]] = "gone" => request'[h] = "closed"
    BY <1>2, <1>4
  <1>7. \A m \in Nodes : \A i \in 1 .. Len(queue[m]) : queue[m][i] \in Requests
    BY ElementOfSeq DEF IndInv, TypeOK, DialingTypeOK
  <1>8. DialingTypeOK'
    <2>1. queue' \in [Nodes -> Seq(Requests)]
      BY <1>2, <1>4 DEF IndInv, TypeOK, DialingTypeOK
    <2>2. \A r \in Requests : LetGo(n, r) \in Waiting \cup {"none", "connected", "failed", "dropped"}
      BY DEF LetGo, IndInv, TypeOK, DialingTypeOK, Waiting, Dialled
    <2>3. request' \in [Requests -> Waiting \cup {"none", "connected", "failed", "dropped"}]
      BY <1>4, <2>2 DEF Waiting, Dialled
    <2> QED BY <1>4, <2>1, <2>3 DEF IndInv, TypeOK, DialingTypeOK
  <1>9. QueueOwn'
    <2> SUFFICES ASSUME NEW m \in Nodes, NEW i \in 1 .. Len(queue'[m])
                 PROVE  /\ From[queue'[m][i]] = m
                        /\ request'[queue'[m][i]] = "queued"
                        /\ \A j \in 1 .. Len(queue'[m]) : queue'[m][i] = queue'[m][j] => i = j
      BY DEF QueueOwn
    <2>1. CASE m # n
      <3>1. /\ queue'[m] = queue[m] /\ queue[m][i] \in Requests
            /\ From[queue[m][i]] = m /\ request[queue[m][i]] = "queued"
        BY <1>5, <1>7, <2>1 DEF IndInv, QueueOwn
      <3>2. request'[queue[m][i]] = "queued"
        BY <1>3, <1>6, <2>1, <3>1 DEF LetGo
      <3> QED BY <3>1, <3>2 DEF IndInv, QueueOwn
    <2>2. CASE m = n
      <3>1. \A j \in 1 .. Len(queue'[n]) :
              j + 1 \in 1 .. Len(queue[n]) /\ queue'[n][j] = queue[n][j + 1]
        <4>1. \A j \in 1 .. Len(t) : j + 1 \in 1 .. Len(queue[n]) /\ t[j] = queue[n][j + 1]
          BY <1>2
        <4> QED BY <1>5, <4>1, Zenon
      <3>2. /\ queue'[n][i] \in Requests /\ From[queue'[n][i]] = n
            /\ request[queue'[n][i]] = "queued"
        BY <1>7, <2>2, <3>1 DEF IndInv, QueueOwn
      <3>3. queue'[n][i] # h
        <4>1. 1 \in 1 .. Len(queue[n]) /\ i + 1 # 1
          BY <1>2, <2>2, <3>1
        <4> QED BY <1>2, <2>2, <3>1, <4>1 DEF IndInv, QueueOwn
      <3>4. request'[queue'[n][i]] = "queued"
        BY <1>6, <3>2, <3>3 DEF LetGo
      <3>5. ASSUME NEW j \in 1 .. Len(queue'[n]), queue'[n][i] = queue'[n][j] PROVE i = j
        <4>1. i + 1 = j + 1
          <5>1. /\ i + 1 \in 1 .. Len(queue[n]) /\ j + 1 \in 1 .. Len(queue[n])
                /\ queue[n][i + 1] = queue[n][j + 1]
            BY <2>2, <3>1, <3>5
          <5> QED BY <5>1 DEF IndInv, QueueOwn
        <4> QED BY <1>2, <1>5, <2>2, <4>1
      <3> QED BY <2>2, <3>2, <3>4, <3>5
    <2> QED BY <2>1, <2>2
  <1>10. OneDial'
    <2>1. \A r \in Requests : ~Dials(n, r)
      BY <1>4 DEF IndInv, TypeOK, OneDial
    <2>2. \A m \in Nodes : \A r \in Requests :
            Dials(m, r)' <=> (m = n /\ r = h) \/ (m # n /\ Dials(m, r))
      BY <1>2, <1>3, <1>6, <2>1 DEF Dials, LetGo, Dialled
    <2>3. \A r \in Requests :
            request'[r] = "queued" <=>
              \E i \in 1 .. Len(queue'[From[r]]) : queue'[From[r]][i] = r
      <3> TAKE r \in Requests
      <3>0. From[r] \in Nodes
        BY DialingAssumption
      <3>1. ASSUME NEW i \in 1 .. Len(queue'[From[r]]), queue'[From[r]][i] = r
            PROVE  request'[r] = "queued"
        BY <1>9, <3>0, <3>1 DEF QueueOwn
      <3>2. ASSUME request'[r] = "queued"
            PROVE  \E i \in 1 .. Len(queue'[From[r]]) : queue'[From[r]][i] = r
        <4>1. r # h /\ request[r] = "queued"
          BY <1>6, <3>2 DEF LetGo
        <4>2. PICK i \in 1 .. Len(queue[From[r]]) : queue[From[r]][i] = r
          BY <4>1 DEF IndInv, TypeOK, OneDial
        <4>3. CASE From[r] # n
          BY <1>5, <3>0, <4>2, <4>3
        <4>4. CASE From[r] = n
          <5>1. i # 1
            BY <1>2, <4>1, <4>2, <4>4
          <5>2. i - 1 \in 1 .. Len(queue'[n]) /\ queue'[n][i - 1] = queue[n][i]
            <6>1. i - 1 \in 1 .. Len(t) /\ t[i - 1] = queue[n][i]
              BY <1>2, <4>2, <4>4, <5>1
            <6> QED BY <1>5, <6>1, Zenon
          <5> QED BY <4>2, <4>4, <5>2
        <4> QED BY <4>3, <4>4
      <3> QED BY <3>1, <3>2
    <2>4. \A m \in Nodes : netlayer'[m] = "connecting" <=> \E r \in Requests : Dials(m, r)'
      BY <1>2, <1>5, <2>2 DEF IndInv, TypeOK, OneDial
    <2>5. \A q, r \in Requests : (Dials(From[q], q) /\ Dials(From[q], r))' => q = r
      BY <2>2, DialingAssumption DEF IndInv, TypeOK, OneDial
    <2> QED BY <2>3, <2>4, <2>5 DEF OneDial, Dials
  <1>11. GreetingHeld'
    <2>1. ASSUME NEW r \in Requests, request'[r] = "greeting"
          PROVE  accepting'[To[r]] = r
      <3>1. request[r] = "greeting" /\ accepting[n] # r
        BY <1>6, <2>1 DEF LetGo
      <3>2. accepting[To[r]] = r
        BY <3>1 DEF IndInv, GreetingHeld
      <3>3. To[r] \in Nodes /\ To[r] # n
        BY <3>1, <3>2, DialingAssumption
      <3> QED BY <1>5, <3>2, <3>3
    <2>2. ASSUME NEW m \in Nodes, accepting'[m] # Nobody
          PROVE  netlayer'[m] = "selecting"
      BY <1>5, <2>2 DEF IndInv, GreetingHeld
    <2> QED BY <2>1, <2>2 DEF GreetingHeld
  <1>12. GoneLetsGo'
    BY <1>2, <1>3, <1>4, <1>5, <1>6, DialingAssumption
      DEF IndInv, GoneLetsGo, LetGo, Waiting, Dialled
  <1> QED BY <1>8, <1>9, <1>10, <1>11, <1>12 DEF IndInv, TypeOK

(* The steps that leave the queues alone.                                  *)
LEMMA AcceptBeginsKeeps ==
  ASSUME IndInv, NEW n \in Nodes, AcceptBegins(n)
  PROVE  IndInv'
  <1>1. PICK r \in Requests :
          /\ To[r] = n /\ request[r] = "backlog"
          /\ request' = [request EXCEPT ![r] = "greeting"]
          /\ accepting' = [accepting EXCEPT ![n] = r]
    BY DEF AcceptBegins
  <1>2. /\ netlayer[n] = "selecting" /\ accepting[n] = Nobody
        /\ UNCHANGED <<netlayer, queue>>
    BY DEF AcceptBegins
  <1>3. \A q \in Requests : request'[q] = IF q = r THEN "greeting" ELSE request[q]
    BY <1>1 DEF IndInv, TypeOK, DialingTypeOK
  <1>4. \A m \in Nodes : accepting'[m] = IF m = n THEN r ELSE accepting[m]
    BY <1>1 DEF IndInv, TypeOK, DialingTypeOK
  <1>5. DialingTypeOK'
    BY <1>1, <1>2 DEF IndInv, TypeOK, DialingTypeOK, Waiting, Dialled
  <1>6. \A q \in Requests : request[q] = "queued" <=> request'[q] = "queued"
    BY <1>1, <1>3
  <1>7. \A m \in Nodes : \A q \in Requests : Dials(m, q)' <=> Dials(m, q)
    BY <1>1, <1>3 DEF Dials, Dialled
  <1>8. QueueOwn' /\ OneDial'
    BY <1>2, <1>5, <1>6, <1>7, QueuesStay, DialingAssumption DEF IndInv, TypeOK, OneDial
  <1>9. GreetingHeld'
    BY <1>1, <1>2, <1>3, <1>4, DialingAssumption DEF IndInv, GreetingHeld
  <1>10. GoneLetsGo'
    BY <1>1, <1>2, <1>3 DEF IndInv, GoneLetsGo, Waiting, Dialled
  <1> QED BY <1>5, <1>8, <1>9, <1>10 DEF IndInv, TypeOK

LEMMA StrangerComesKeeps ==
  ASSUME IndInv, NEW n \in Nodes, StrangerComes(n)
  PROVE  IndInv'
  <1>1. /\ netlayer[n] = "selecting" /\ accepting[n] = Nobody
        /\ accepting' = [accepting EXCEPT ![n] = Stranger]
        /\ UNCHANGED <<netlayer, queue, request>>
    BY DEF StrangerComes
  <1>2. \A m \in Nodes : accepting'[m] = IF m = n THEN Stranger ELSE accepting[m]
    BY <1>1 DEF IndInv, TypeOK, DialingTypeOK
  <1>3. DialingTypeOK'
    BY <1>1 DEF IndInv, TypeOK, DialingTypeOK
  <1>4. QueueOwn' /\ OneDial'
    BY <1>1, <1>3, QueuesStay DEF IndInv, TypeOK, OneDial, Dials
  <1>5. GreetingHeld' /\ GoneLetsGo'
    BY <1>1, <1>2, DialingAssumption DEF IndInv, GreetingHeld, GoneLetsGo
  <1> QED BY <1>3, <1>4, <1>5 DEF IndInv, TypeOK

LEMMA AcceptOkKeeps ==
  ASSUME IndInv, NEW n \in Nodes, AcceptOk(n)
  PROVE  IndInv'
  <1>1. /\ accepting[n] # Nobody
        /\ accepting' = [accepting EXCEPT ![n] = Nobody]
        /\ UNCHANGED <<netlayer, queue>>
    BY DEF AcceptOk
  <1>2. \A r \in Requests :
          request'[r] = IF accepting[n] = r /\ request[r] = "greeting" THEN "greeted"
                        ELSE request[r]
    BY DEF AcceptOk
  <1>3. \A m \in Nodes : accepting'[m] = IF m = n THEN Nobody ELSE accepting[m]
    BY <1>1 DEF IndInv, TypeOK, DialingTypeOK
  <1>4. DialingTypeOK'
    BY <1>1 DEF AcceptOk, IndInv, TypeOK, DialingTypeOK, Waiting, Dialled
  <1>5. \A r \in Requests : request[r] = "queued" <=> request'[r] = "queued"
    BY <1>2
  <1>6. \A m \in Nodes : \A r \in Requests : Dials(m, r)' <=> Dials(m, r)
    BY <1>2 DEF Dials, Dialled
  <1>7. QueueOwn' /\ OneDial'
    BY <1>1, <1>4, <1>5, <1>6, QueuesStay, DialingAssumption DEF IndInv, TypeOK, OneDial
  <1>8. GreetingHeld'
    BY <1>1, <1>2, <1>3, DialingAssumption DEF IndInv, GreetingHeld
  <1>9. GoneLetsGo'
    BY <1>1, <1>2 DEF IndInv, GoneLetsGo, Waiting, Dialled
  <1> QED BY <1>4, <1>7, <1>8, <1>9 DEF IndInv, TypeOK

(* connect has returned, whatever it did.                                  *)
LEMMA ConnectedKeeps ==
  ASSUME IndInv, NEW r \in Requests, NEW res \in {"connected", "failed"},
         request[r] \in Dialled,
         request' = [request EXCEPT ![r] = res],
         netlayer' = [netlayer EXCEPT ![From[r]] = "selecting"],
         UNCHANGED <<queue, accepting>>
  PROVE  IndInv'
  <1>0. From[r] \in Nodes /\ Dials(From[r], r)
    BY DialingAssumption DEF Dials
  <1>1. \A q \in Requests : request'[q] = IF q = r THEN res ELSE request[q]
    BY DEF IndInv, TypeOK, DialingTypeOK
  <1>2. \A m \in Nodes : netlayer'[m] = IF m = From[r] THEN "selecting" ELSE netlayer[m]
    BY DEF IndInv, TypeOK, DialingTypeOK
  <1>3. netlayer[From[r]] = "connecting"
    BY <1>0 DEF IndInv, TypeOK, OneDial
  <1>4. DialingTypeOK'
    BY DEF IndInv, TypeOK, DialingTypeOK
  <1>5. \A q \in Requests : request[q] = "queued" <=> request'[q] = "queued"
    BY <1>1 DEF Dialled
  <1>6. \A m \in Nodes : \A q \in Requests : Dials(m, q)' <=> Dials(m, q) /\ q # r
    BY <1>1 DEF Dials, Dialled
  <1>7. QueueOwn'
    BY <1>4, <1>5, QueuesStay
  <1>8. OneDial'
    <2>1. \A m \in Nodes : netlayer'[m] = "connecting" <=> \E q \in Requests : Dials(m, q)'
      <3> TAKE m \in Nodes
      <3>1. CASE m = From[r]
        BY <1>0, <1>2, <1>6, <3>1 DEF IndInv, TypeOK, OneDial, Dials
      <3>2. CASE m # From[r]
        BY <1>0, <1>2, <1>6, <3>2 DEF IndInv, TypeOK, OneDial, Dials
      <3> QED BY <3>1, <3>2
    <2>2. \A p, q \in Requests : Dials(From[p], p)' /\ Dials(From[p], q)' => p = q
      BY <1>6, DialingAssumption DEF IndInv, TypeOK, OneDial
    <2>3. \A q \in Requests :
            request'[q] = "queued" <=>
              \E i \in 1 .. Len(queue'[From[q]]) : queue'[From[q]][i] = q
      BY <1>4, <1>5, QueuesStay
    <2> QED BY <2>1, <2>2, <2>3 DEF OneDial
  <1>9. GreetingHeld' /\ GoneLetsGo'
    BY <1>1, <1>2, <1>3, DialingAssumption DEF IndInv, GreetingHeld, GoneLetsGo, Waiting, Dialled
  <1> QED BY <1>4, <1>7, <1>8, <1>9 DEF IndInv, TypeOK

LEMMA GoneKeeps ==
  ASSUME IndInv, NEW n \in Nodes, Gone(n)
  PROVE  IndInv'
  <1>1. /\ \A m \in Nodes : netlayer'[m] = IF m = n THEN "gone" ELSE netlayer[m]
        /\ \A m \in Nodes : queue'[m] = IF m = n THEN <<>> ELSE queue[m]
        /\ \A m \in Nodes : accepting'[m] = IF m = n THEN Nobody ELSE accepting[m]
    BY DEF Gone, IndInv, TypeOK, DialingTypeOK
  <1>2. \A r \in Requests :
          request'[r] = IF From[r] = n /\ request[r] \in Waiting THEN "dropped"
                        ELSE IF To[r] = n /\ request[r] = "backlog" THEN "closed"
                        ELSE LetGo(n, r)
    BY DEF Gone
  <1>3. DialingTypeOK'
    <2>1. request' \in [Requests -> Waiting \cup {"none", "connected", "failed", "dropped"}]
      <3> DEFINE val(r) == IF From[r] = n /\ request[r] \in Waiting THEN "dropped"
                           ELSE IF To[r] = n /\ request[r] = "backlog" THEN "closed"
                           ELSE LetGo(n, r)
      <3>1. request' = [r \in Requests |-> val(r)]
        BY DEF Gone
      <3>2. \A r \in Requests : val(r) \in Waiting \cup {"none", "connected", "failed", "dropped"}
        BY DEF IndInv, TypeOK, DialingTypeOK, LetGo, Waiting, Dialled
      <3> HIDE DEF val
      <3> QED BY <3>1, <3>2
    <2> QED BY <2>1 DEF Gone, IndInv, TypeOK, DialingTypeOK
  <1>4. \A r \in Requests : From[r] # n => (request'[r] = "queued" <=> request[r] = "queued")
    BY <1>2 DEF LetGo
  <1>5. \A r \in Requests : From[r] = n => request'[r] \notin Waiting
    BY <1>2 DEF LetGo, Waiting, Dialled
  <1>6. \A m \in Nodes : \A i \in 1 .. Len(queue[m]) : queue[m][i] \in Requests
    BY ElementOfSeq DEF IndInv, TypeOK, DialingTypeOK
  <1>7. Len(queue'[n]) = 0
    BY <1>1
  <1>8. QueueOwn'
    <2> SUFFICES ASSUME NEW m \in Nodes, NEW i \in 1 .. Len(queue'[m])
                 PROVE  /\ From[queue'[m][i]] = m
                        /\ request'[queue'[m][i]] = "queued"
                        /\ \A j \in 1 .. Len(queue'[m]) : queue'[m][i] = queue'[m][j] => i = j
      BY DEF QueueOwn
    <2>1. m # n /\ queue'[m] = queue[m]
      BY <1>1, <1>7
    <2> QED BY <1>4, <1>6, <2>1 DEF IndInv, QueueOwn
  <1>9. OneDial'
    <2>1. \A m \in Nodes : \A r \in Requests : Dials(m, r)' <=> Dials(m, r) /\ m # n
      BY <1>2 DEF Dials, LetGo, Waiting, Dialled
    <2>2. \A m \in Nodes : netlayer'[m] = "connecting" <=> \E r \in Requests : Dials(m, r)'
      BY <1>1, <2>1 DEF IndInv, TypeOK, OneDial
    <2>3. \A q, r \in Requests : Dials(From[q], q)' /\ Dials(From[q], r)' => q = r
      BY <2>1, DialingAssumption DEF IndInv, TypeOK, OneDial
    <2>4. \A r \in Requests :
            request'[r] = "queued" <=>
              \E i \in 1 .. Len(queue'[From[r]]) : queue'[From[r]][i] = r
      <3> TAKE r \in Requests
      <3>1. CASE From[r] = n
        BY <1>5, <1>7, <3>1 DEF Waiting
      <3>2. CASE From[r] # n
        BY <1>1, <1>4, <3>2, DialingAssumption DEF IndInv, TypeOK, OneDial
      <3> QED BY <3>1, <3>2
    <2> QED BY <2>2, <2>3, <2>4 DEF OneDial
  <1>10. GreetingHeld'
    BY <1>1, <1>2, DialingAssumption DEF IndInv, GreetingHeld, LetGo
  <1>11. GoneLetsGo'
    BY <1>1, <1>2, <1>5, DialingAssumption DEF IndInv, GoneLetsGo, GreetingHeld, LetGo, Waiting, Dialled
  <1> QED BY <1>3, <1>8, <1>9, <1>10, <1>11 DEF IndInv, TypeOK

LEMMA IndInvStep == IndInv /\ [Next]_vars => IndInv'
  <1> SUFFICES ASSUME IndInv, [Next]_vars PROVE IndInv'
    OBVIOUS
  <1>1. ASSUME NEW r \in Requests, RequestConnect(r) PROVE IndInv'
    BY <1>1, RequestConnectKeeps
  <1>2. ASSUME NEW r \in Requests, ConnectOk(r) PROVE IndInv'
    BY <1>2, ConnectedKeeps DEF ConnectOk, Dialled
  <1>3. ASSUME NEW r \in Requests, ConnectError(r) PROVE IndInv'
    BY <1>3, ConnectedKeeps DEF ConnectError
  <1>4. ASSUME NEW n \in Nodes, TakeRequest(n) PROVE IndInv'
    BY <1>4, TakeRequestKeeps
  <1>5. ASSUME NEW n \in Nodes, AcceptBegins(n) PROVE IndInv'
    BY <1>5, AcceptBeginsKeeps
  <1>6. ASSUME NEW n \in Nodes, StrangerComes(n) PROVE IndInv'
    BY <1>6, StrangerComesKeeps
  <1>7. ASSUME NEW n \in Nodes, AcceptEnds(n) PROVE IndInv'
    BY <1>7, AcceptOkKeeps, GoneKeeps DEF AcceptEnds, AcceptError
  <1>8. ASSUME NEW n \in Nodes, Die(n) PROVE IndInv'
    BY <1>8, GoneKeeps DEF Die
  <1>9. CASE UNCHANGED vars
    BY <1>9 DEF vars, IndInv, TypeOK, DialingTypeOK, OneDial, Dials, QueueOwn,
       GreetingHeld, GoneLetsGo
  <1> QED BY <1>1, <1>2, <1>3, <1>4, <1>5, <1>6, <1>7, <1>8, <1>9 DEF Next

LEMMA IndInvAlways == Spec => []IndInv
  BY IndInvInit, IndInvStep, PTL DEF Spec

(* A node dials for one request at a time, and its queue has the requests  *)
(* it was asked for and has not begun, for any number of nodes.            *)
THEOREM DialsOne == Spec => []TypeOK
  <1>1. IndInv => TypeOK
    BY DEF IndInv
  <1> QED BY <1>1, IndInvAlways, PTL

(* No connection is left open that nobody will greet: an accept that       *)
(* select! drops closes the connection it had.                             *)
THEOREM GreetingsHeld == Spec => []GreetingHeld
  <1>1. IndInv => GreetingHeld
    BY DEF IndInv
  <1> QED BY <1>1, IndInvAlways, PTL

(* Nobody waits on a node whose netlayer task has returned.                *)
THEOREM GoneLetGo == Spec => []GoneLetsGo
  <1>1. IndInv => GoneLetsGo
    BY DEF IndInv
  <1> QED BY <1>1, IndInvAlways, PTL
(* The nodes stand still only in a circle, or behind a silent stranger:    *)
(* with no stranger in the way, each of those in their connect arms waits  *)
(* for another of them.                                                    *)
THEOREM StandstillOnlyInCircle == Spec => []HeldByCircle
  <1>1. ASSUME IndInv, Standstill, NEW q \in Requests, request[q] \in Waiting,
               \A r \in Requests : request[r] = "backlog" => accepting[To[r]] # Stranger
        PROVE  Circle
    <2> DEFINE ring == {n \in Nodes : netlayer[n] = "connecting"}
    <2>1. \A r \in Requests : From[r] \in Nodes /\ To[r] \in Nodes
      BY DialingAssumption
    <2>2. \A n \in Nodes : netlayer[n] \in {"selecting", "connecting", "gone"}
      BY <1>1 DEF IndInv, TypeOK, DialingTypeOK
    <2>3. ASSUME NEW r \in Requests, request[r] = "backlog"
          PROVE  To[r] \in ring
      <3>1. netlayer[To[r]] # "gone"
        BY <1>1, <2>3 DEF IndInv, GoneLetsGo
      <3>2. netlayer[To[r]] # "selecting"
        BY <1>1, <2>1, <2>3 DEF Standstill
      <3> QED BY <2>1, <2>2, <3>1, <3>2
    <2>4. ASSUME NEW n \in ring
          PROVE  \E r \in Requests : From[r] = n /\ To[r] \in ring /\ request[r] = "backlog"
      <3>1. PICK r \in Requests : Dials(n, r)
        BY <1>1, <2>4 DEF IndInv, TypeOK, OneDial
      <3>2. request[r] = "backlog" /\ From[r] = n
        BY <1>1, <3>1 DEF Dials, Dialled, Standstill
      <3> QED BY <2>3, <3>2
    <2>5. ring # {}
      <3>1. CASE request[q] = "queued"
        <4>1. queue[From[q]] # <<>>
          BY <1>1, <3>1 DEF IndInv, TypeOK, OneDial
        <4>2. netlayer[From[q]] # "selecting"
          BY <1>1, <2>1, <4>1 DEF Standstill
        <4>3. netlayer[From[q]] # "gone"
          BY <1>1 DEF IndInv, GoneLetsGo
        <4> QED BY <2>1, <2>2, <4>2, <4>3
      <3>2. CASE request[q] # "queued"
        <4>1. request[q] = "backlog"
          BY <1>1, <3>2 DEF Waiting, Dialled, Standstill
        <4> QED BY <2>3, <4>1
      <3> QED BY <3>1, <3>2
    <2>6. ring \in (SUBSET Nodes) \ {{}}
      BY <2>5
    <2> QED BY <2>4, <2>6 DEF Circle
  <1>2. IndInv => HeldByCircle
    BY <1>1 DEF HeldByCircle
  <1> QED BY <1>2, IndInvAlways, PTL
=============================================================================
