---------------------------- MODULE AgentProofs ----------------------------
(***************************************************************************)
(* Proofs about Agent: for any lists in any order, any requests to the     *)
(* client, and any number of changes of the POS data, failures and         *)
(* restarts.                                                               *)
(***************************************************************************)
EXTENDS Agent, TLAPS

USE OrderAssumption, ListsAssumption, MarkersAssumption, BoundsAssumption

-----------------------------------------------------------------------------
(* The inductive invariant. *)

\* The i-th list of this refresh is behind us.
Written(i) ==
  \/ step \in {"read", "create", "encode"} /\ i < at
  \/ step \in {"update", "save", "saving"}

\* A list behind us is in its file as it is in hand, if its write went well.
WrittenInv ==
  /\ \A i \in 1..Len(Order) : Written(i) /\ Order[i] \notin errs =>
       file[Order[i]] = hand[Order[i]]
  /\ step \in {"save", "saving"} => mem = hand
  /\ CacheIsPersisted

\* While the client's call goes on, what a file is now is among what it has been.
HeldInv ==
  client.step \in {"read", "put"} => \A e \in Entities : CacheFile(e) \in held[e]

\* The j-th list of the client's call has been sent.
Sent(j) ==
  \/ client.step = "ok"
  \/ client.step \in {"read", "put"} /\ j < client.i

\* What the client sends, and what it has sent, its file has been in this call.
ClientInv ==
  /\ client.step = "put" => body \in held[client.q[client.i]] \ {Missing}
  /\ client.step # "idle" =>
       \A j \in 1..Len(client.q) : Sent(j) =>
         cloud[client.q[j]] \in held[client.q[j]] \ {Missing}

IInv == TypeOK /\ WrittenInv /\ HeldInv /\ ClientInv

-----------------------------------------------------------------------------
LEMMA ListFacts ==
  /\ \A i \in 1..Len(Order) : Order[i] \in Entities
  /\ Len(Order) \in Nat /\ 1 \in 1..Len(Order)
  /\ Versions \subseteq Nat /\ 0 \in Versions
  /\ Empty \in Lists /\ Empty \notin Versions
  /\ Torn \in Files /\ Missing \in Files /\ Torn # Missing
  /\ Torn \notin Lists /\ Missing \notin Lists
  /\ Lists \subseteq Files /\ Versions \subseteq Lists
BY DEF Entities, Versions, Lists, Files

LEMMA RequestFacts ==
  ASSUME NEW q \in Requests
  PROVE  /\ Len(q) \in Nat /\ 1 \in 1..Len(q)
         /\ \A i \in 1..Len(q) : q[i] \in Entities
OBVIOUS

LEMMA NoListsFacts ==
  /\ NoLists \in Snapshots /\ \A e \in Entities : NoLists[e] = Empty
  /\ NoFiles \in [Entities -> Files] /\ NothingHeld \in [Entities -> SUBSET Files]
BY ListFacts DEF NoLists, NoFiles, NothingHeld, Snapshots

LEMMA InitInv == Init => IInv
<1> SUFFICES ASSUME Init PROVE IInv
  OBVIOUS
<1> USE ListFacts, NoListsFacts DEF Init
<1>1. TypeOK
  BY DEF TypeOK, Steps, Idle
<1>2. WrittenInv
  BY DEF WrittenInv, Written, CacheIsPersisted
<1>3. HeldInv
  BY DEF HeldInv, Idle
<1>4. ClientInv
  BY DEF ClientInv, Idle
<1> QED
  BY <1>1, <1>2, <1>3, <1>4 DEF IInv

LEMMA StartInv ==
  ASSUME IInv, Start
  PROVE  IInv'
<1> USE ListFacts DEF IInv, Start, BeginRefresh, refreshing, stored, uploading
<1>1. TypeOK'
  BY DEF TypeOK, Steps
<1>2. WrittenInv'
  BY DEF TypeOK, WrittenInv, Written, CacheIsPersisted
<1>3. HeldInv'
  BY DEF HeldInv, CacheFile
<1>4. ClientInv'
  BY DEF TypeOK, ClientInv, Sent
<1> QED
  BY <1>1, <1>2, <1>3, <1>4

LEMMA TickInv ==
  ASSUME IInv, Tick
  PROVE  IInv'
<1> USE ListFacts DEF IInv, Tick, refreshing, stored, uploading
<1>1. TypeOK'
  BY DEF TypeOK, Steps
<1>2. WrittenInv'
  BY DEF TypeOK, WrittenInv, Written, CacheIsPersisted
<1>3. HeldInv'
  BY DEF HeldInv, CacheFile
<1>4. ClientInv'
  BY DEF TypeOK, ClientInv, Sent
<1> QED
  BY <1>1, <1>2, <1>3, <1>4

LEMMA TakeTickInv ==
  ASSUME IInv, TakeTick
  PROVE  IInv'
<1> USE ListFacts DEF IInv, TakeTick, BeginRefresh, refreshing, stored, uploading
<1>1. TypeOK'
  BY DEF TypeOK, Steps
<1>2. WrittenInv'
  BY DEF TypeOK, WrittenInv, Written, CacheIsPersisted
<1>3. HeldInv'
  BY DEF HeldInv, CacheFile
<1>4. ClientInv'
  BY DEF TypeOK, ClientInv, Sent
<1> QED
  BY <1>1, <1>2, <1>3, <1>4

LEMMA TakeStopInv ==
  ASSUME IInv, TakeStop
  PROVE  IInv'
<1> USE ListFacts DEF IInv, TakeStop, refreshing, stored, uploading
<1>1. TypeOK'
  BY DEF TypeOK, Steps
<1>2. WrittenInv'
  BY DEF TypeOK, WrittenInv, Written, CacheIsPersisted
<1>3. HeldInv'
  BY DEF HeldInv, CacheFile
<1>4. ClientInv'
  BY DEF TypeOK, ClientInv, Sent
<1> QED
  BY <1>1, <1>2, <1>3, <1>4

LEMMA StopInv ==
  ASSUME IInv, Stop
  PROVE  IInv'
<1> USE ListFacts DEF IInv, Stop, refreshing, stored, uploading
<1>1. TypeOK'
  BY DEF TypeOK, Steps
<1>2. WrittenInv'
  BY DEF TypeOK, WrittenInv, Written, CacheIsPersisted
<1>3. HeldInv'
  BY DEF HeldInv, CacheFile
<1>4. ClientInv'
  BY DEF TypeOK, ClientInv, Sent
<1> QED
  BY <1>1, <1>2, <1>3, <1>4

LEMMA StopReturnInv ==
  ASSUME IInv, StopReturn
  PROVE  IInv'
<1> USE ListFacts DEF IInv, StopReturn, refreshing, stored, uploading
<1>1. TypeOK'
  BY DEF TypeOK, Steps
<1>2. WrittenInv'
  BY DEF TypeOK, WrittenInv, Written, CacheIsPersisted
<1>3. HeldInv'
  BY DEF HeldInv, CacheFile
<1>4. ClientInv'
  BY DEF TypeOK, ClientInv, Sent
<1> QED
  BY <1>1, <1>2, <1>3, <1>4

LEMMA PosChangesInv ==
  ASSUME IInv, PosChanges
  PROVE  IInv'
<1> USE ListFacts DEF IInv, PosChanges, refreshing, stored, uploading
<1>1. TypeOK'
  BY DEF TypeOK, Steps, Versions
<1>2. WrittenInv'
  BY DEF TypeOK, WrittenInv, Written, CacheIsPersisted
<1>3. HeldInv'
  BY DEF HeldInv, CacheFile
<1>4. ClientInv'
  BY DEF TypeOK, ClientInv, Sent
<1> QED
  BY <1>1, <1>2, <1>3, <1>4

LEMMA ReadTablesInv ==
  ASSUME IInv, ReadTables
  PROVE  IInv'
<1> USE ListFacts DEF IInv, ReadTables, Export, Well, Fails, Parsed, InHand, refreshing, stored, uploading
<1>1. TypeOK'
  BY DEF TypeOK, Steps, Snapshots, Lists
<1>2. WrittenInv'
  BY DEF TypeOK, WrittenInv, Written, CacheIsPersisted, Snapshots
<1>3. HeldInv'
  BY DEF HeldInv, CacheFile
<1>4. ClientInv'
  BY DEF TypeOK, ClientInv, Sent
<1> QED
  BY <1>1, <1>2, <1>3, <1>4

LEMMA ReadListInv ==
  ASSUME IInv, ReadList
  PROVE  IInv'
<1> USE ListFacts DEF IInv, ReadList, Well, Fails, InHand, refreshing, stored, uploading
<1>1. TypeOK'
  <2>1. pos \in Lists /\ \A l \in Lists : [hand EXCEPT ![Order[at]] = l] \in Snapshots
    BY DEF TypeOK, Snapshots
  <2>2. hand' \in Snapshots /\ faults' \in 0..MaxFaults
    BY <2>1 DEF TypeOK
  <2> QED
    BY <2>2 DEF TypeOK, Steps
<1>2. WrittenInv'
  BY DEF TypeOK, WrittenInv, Written, CacheIsPersisted, Snapshots
<1>3. HeldInv'
  BY DEF HeldInv, CacheFile
<1>4. ClientInv'
  BY DEF TypeOK, ClientInv, Sent
<1> QED
  BY <1>1, <1>2, <1>3, <1>4

\* A write to a file adds what the file becomes to the history.
LEMMA WriteHolds ==
  ASSUME TypeOK, Hold, file' \in [Entities -> Files], UNCHANGED <<client, body, cloud>>
  PROVE  /\ held' \in [Entities -> SUBSET Files]
         /\ \A e \in Entities : held[e] \subseteq held'[e]
         /\ client.step \in {"read", "put"} => \A e \in Entities : CacheFile(e)' \in held'[e]
<1>1. \A e \in Entities : CacheFile(e)' \in Files
  BY ListFacts DEF CacheFile
<1> QED
  BY <1>1 DEF TypeOK, Hold

\* A longer history takes nothing back.
LEMMA WriteKeepsClient ==
  ASSUME TypeOK, ClientInv, UNCHANGED <<client, body, cloud>>,
         \A e \in Entities : held[e] \subseteq held'[e]
  PROVE  ClientInv'
<1>1. client.step # "idle" => /\ client.i \in 1..Len(client.q)
                             /\ \A j \in 1..Len(client.q) : client.q[j] \in Entities
  BY RequestFacts DEF TypeOK
<1> QED
  BY <1>1 DEF ClientInv, Sent

LEMMA CreateFileInv ==
  ASSUME IInv, CreateFile
  PROVE  IInv'
<1>0. file' \in [Entities -> Files]
  <2>1. file \in [Entities -> Files] /\ Torn \in Files
    BY ListFacts DEF IInv, TypeOK
  <2>2. file' = file \/ file' = [file EXCEPT ![Order[at]] = Torn]
    BY DEF CreateFile, InHand
  <2> QED
    BY <2>1, <2>2
<1>5. /\ held' \in [Entities -> SUBSET Files]
      /\ \A e \in Entities : held[e] \subseteq held'[e]
      /\ client.step \in {"read", "put"} => \A e \in Entities : CacheFile(e)' \in held'[e]
  <2>1. TypeOK /\ Hold /\ UNCHANGED <<client, body, cloud>>
    BY DEF IInv, CreateFile
  <2> QED
    BY <1>0, <2>1, WriteHolds
<1> USE ListFacts DEF IInv, CreateFile, Well, Fails, Advance, InHand, refreshing, stored, uploading
<1>1. TypeOK'
  <2>1. TypeOK
    BY DEF IInv
  <2>2. /\ file' = file \/ file' = [file EXCEPT ![Order[at]] = Torn]
        /\ errs' = errs \/ errs' = errs \cup {Order[at]}
        /\ faults' = faults \/ (faults < MaxFaults /\ faults' = faults + 1)
        /\ \/ step' = "encode" /\ at' = at
           \/ step' = "update" /\ at' = 1
           \/ step' = "read" /\ at' = at + 1 /\ at # Len(Order)
        /\ UNCHANGED <<pos, hand, set1, mem, disk, ticker, caller, client, body, cloud>>
    OBVIOUS
  <2> HIDE DEF IInv, CreateFile
  <2>3. Order[at] \in Entities
    BY <2>1 DEF TypeOK
  <2>5. errs' \subseteq Entities \cup {"cache"} /\ faults' \in 0..MaxFaults
    BY <2>1, <2>2, <2>3 DEF TypeOK
  <2>6. step' \in Steps /\ at' \in 1..Len(Order)
    BY <2>1, <2>2 DEF TypeOK, Steps
  <2> QED
    BY <1>0, <1>5, <2>1, <2>2, <2>5, <2>6 DEF TypeOK
<1>2. WrittenInv'
  <2>1. \A i \in 1..Len(Order) : i # at => Order[i] # Order[at] /\ file'[Order[i]] = file[Order[i]]
    BY DEF TypeOK
  <2>2. step' = "encode" \/ Order[at] \in errs'
    BY DEF TypeOK
  <2>3. \A i \in 1..Len(Order) : Written(i)' => Written(i) \/ (i = at /\ step' # "encode")
    BY DEF TypeOK, Written
  <2>4. errs \subseteq errs' /\ step' \notin {"save", "saving", "select"}
    BY DEF TypeOK
  <2>5. at \in 1..Len(Order) /\ ~Written(at)
    BY DEF TypeOK, Written
  <2> QED
    BY <2>1, <2>2, <2>3, <2>4, <2>5 DEF WrittenInv, CacheIsPersisted
<1>3. HeldInv'
  <2>1. client' = client
    OBVIOUS
  <2> HIDE DEF IInv, CreateFile
  <2> QED
    BY <1>5, <2>1 DEF HeldInv
<1>4. ClientInv'
  <2>1. TypeOK /\ ClientInv /\ UNCHANGED <<client, body, cloud>>
    OBVIOUS
  <2> HIDE DEF IInv, CreateFile
  <2> QED
    BY <1>5, <2>1, WriteKeepsClient
<1> QED
  BY <1>1, <1>2, <1>3, <1>4

LEMMA EncodeFileInv ==
  ASSUME IInv, EncodeFile
  PROVE  IInv'
<1>0. file' \in [Entities -> Files]
  BY ListFacts DEF IInv, TypeOK, EncodeFile, InHand, Snapshots
<1>5. /\ held' \in [Entities -> SUBSET Files]
      /\ \A e \in Entities : held[e] \subseteq held'[e]
      /\ client.step \in {"read", "put"} => \A e \in Entities : CacheFile(e)' \in held'[e]
  <2>1. TypeOK /\ Hold /\ UNCHANGED <<client, body, cloud>>
    BY DEF IInv, EncodeFile
  <2> QED
    BY <1>0, <2>1, WriteHolds
<1> USE ListFacts DEF IInv, EncodeFile, Well, Fails, Advance, InHand, refreshing, stored, uploading
<1>1. TypeOK'
  <2>1. Order[at] \in Entities /\ hand[Order[at]] \in Files
    BY DEF TypeOK, Snapshots
  <2>2. TypeOK /\ step' \in Steps /\ at' \in 1..Len(Order)
    BY DEF TypeOK, Steps
  <2>3. errs' \subseteq Entities \cup {"cache"} /\ faults' \in 0..MaxFaults
    BY <2>1 DEF TypeOK
  <2>4. UNCHANGED <<pos, hand, set1, mem, disk, ticker, caller, client, body, cloud>>
    OBVIOUS
  <2> HIDE DEF IInv, EncodeFile
  <2> QED
    BY <1>0, <1>5, <2>2, <2>3, <2>4 DEF TypeOK
<1>2. WrittenInv'
  <2>1. \A i \in 1..Len(Order) : i # at => Order[i] # Order[at] /\ file'[Order[i]] = file[Order[i]]
    BY DEF TypeOK
  <2>2. Order[at] \notin errs' => file'[Order[at]] = hand[Order[at]]
    BY DEF TypeOK
  <2>3. \A i \in 1..Len(Order) : Written(i)' => i = at \/ Written(i)
    BY DEF TypeOK, Written
  <2>4. errs \subseteq errs' /\ step' \notin {"save", "saving", "select"}
    BY DEF TypeOK
  <2> QED
    BY <2>1, <2>2, <2>3, <2>4 DEF WrittenInv, CacheIsPersisted
<1>3. HeldInv'
  <2>1. client' = client
    OBVIOUS
  <2> HIDE DEF IInv, EncodeFile
  <2> QED
    BY <1>5, <2>1 DEF HeldInv
<1>4. ClientInv'
  <2>1. TypeOK /\ ClientInv /\ UNCHANGED <<client, body, cloud>>
    OBVIOUS
  <2> HIDE DEF IInv, EncodeFile
  <2> QED
    BY <1>5, <2>1, WriteKeepsClient
<1> QED
  BY <1>1, <1>2, <1>3, <1>4

LEMMA UpdateInv ==
  ASSUME IInv, Update
  PROVE  IInv'
<1> USE ListFacts DEF IInv, Update, refreshing, stored, uploading
<1>1. TypeOK'
  BY DEF TypeOK, Steps
<1>2. WrittenInv'
  BY DEF TypeOK, WrittenInv, Written, CacheIsPersisted
<1>3. HeldInv'
  BY DEF HeldInv, CacheFile
<1>4. ClientInv'
  BY DEF TypeOK, ClientInv, Sent
<1> QED
  BY <1>1, <1>2, <1>3, <1>4

LEMMA SaveBeginsInv ==
  ASSUME IInv, SaveBegins
  PROVE  IInv'
<1> USE ListFacts DEF IInv, SaveBegins, Well, Fails, ToSelect, refreshing, stored, uploading
<1>1. TypeOK'
  BY NoListsFacts DEF TypeOK, Steps
<1>2. WrittenInv'
  <2>1. \A e \in Entities : e \notin errs => file[e] = hand[e]
    BY DEF WrittenInv, Written, Entities
  <2>2. mem = hand /\ hand \in Snapshots /\ hand # Nothing
    BY DEF TypeOK, WrittenInv
  <2>3. step' \in {"saving", "select"} /\ (step' = "saving" => hand' = hand /\ errs' = errs)
    BY DEF TypeOK
  <2>4. CacheIsPersisted'
    BY <2>1, <2>2, <2>3 DEF CacheIsPersisted
  <2> QED
    BY <2>1, <2>2, <2>3, <2>4, ListFacts DEF WrittenInv, Written
<1>3. HeldInv'
  BY DEF HeldInv, CacheFile
<1>4. ClientInv'
  BY DEF TypeOK, ClientInv, Sent
<1> QED
  BY <1>1, <1>2, <1>3, <1>4

LEMMA SaveEndsInv ==
  ASSUME IInv, SaveEnds
  PROVE  IInv'
<1> USE ListFacts DEF IInv, SaveEnds, Well, Fails, ToSelect, refreshing, stored, uploading
<1>1. TypeOK'
  BY NoListsFacts DEF TypeOK, Steps
<1>2. WrittenInv'
  <2>1. \A e \in Entities : e \notin errs => file[e] = hand[e]
    BY DEF WrittenInv, Written, Entities
  <2>2. mem = hand /\ hand \in Snapshots /\ hand # Nothing
    BY DEF TypeOK, WrittenInv
  <2>3. step' \in {"saving", "select"} /\ (step' = "saving" => hand' = hand /\ errs' = errs)
    BY DEF TypeOK
  <2>4. CacheIsPersisted'
    BY <2>1, <2>2, <2>3 DEF CacheIsPersisted
  <2> QED
    BY <2>1, <2>2, <2>3, <2>4, ListFacts DEF WrittenInv, Written
<1>3. HeldInv'
  BY DEF HeldInv, CacheFile
<1>4. ClientInv'
  BY DEF TypeOK, ClientInv, Sent
<1> QED
  BY <1>1, <1>2, <1>3, <1>4

LEMMA RestartInv ==
  ASSUME IInv, Restart
  PROVE  IInv'
<1> USE ListFacts DEF IInv, Restart, Fails, GiveUp, refreshing, stored, uploading
<1>1. TypeOK'
  BY NoListsFacts DEF TypeOK, Steps, Idle
<1>2. WrittenInv'
  BY DEF TypeOK, WrittenInv, Written, CacheIsPersisted
<1>3. HeldInv'
  BY DEF HeldInv, Idle
<1>4. ClientInv'
  BY DEF TypeOK, ClientInv, Sent, Idle
<1> QED
  BY <1>1, <1>2, <1>3, <1>4

LEMMA BeginSyncInv ==
  ASSUME IInv, NEW q \in Requests, BeginSync(q)
  PROVE  IInv'
<1> USE ListFacts DEF IInv, BeginSync, CacheFile, refreshing, stored, uploading
<1>1. TypeOK'
  BY RequestFacts DEF TypeOK, Steps
<1>2. WrittenInv'
  BY DEF TypeOK, WrittenInv, Written, CacheIsPersisted
<1>3. HeldInv'
  BY DEF TypeOK, HeldInv
<1>4. ClientInv'
  BY RequestFacts DEF TypeOK, ClientInv, Sent
<1> QED
  BY <1>1, <1>2, <1>3, <1>4

LEMMA ReadCacheFileInv ==
  ASSUME IInv, ReadCacheFile
  PROVE  IInv'
<1> USE ListFacts DEF IInv, ReadCacheFile, CacheFile, InCall, Answer, GiveUp, refreshing, stored, uploading
<1>1. TypeOK'
  <2>1. client.q \in Requests /\ client.i \in 1..Len(client.q)
    BY DEF TypeOK
  <2>2. client.q[client.i] \in Entities
    BY <2>1
  <2>3. body' \in Files /\ held' \in [Entities -> SUBSET Files]
    BY <2>2, NoListsFacts DEF TypeOK
  <2>4. CASE client' = Idle
    BY <2>3, <2>4 DEF TypeOK, Steps, Idle
  <2>5. CASE client' = [client EXCEPT !.step = "put"]
    BY <2>1, <2>3, <2>5 DEF TypeOK, Steps
  <2> QED
    BY <2>4, <2>5
<1>2. WrittenInv'
  BY DEF TypeOK, WrittenInv, Written, CacheIsPersisted
<1>3. HeldInv'
  BY NoListsFacts DEF TypeOK, HeldInv, Idle
<1>4. ClientInv'
  <2>1. CASE client' = Idle
    BY <2>1 DEF ClientInv, Idle
  <2>2. CASE client' = [client EXCEPT !.step = "put"] /\ held' = held
    <3>1. client.q \in Requests /\ client.i \in 1..Len(client.q)
      BY DEF TypeOK
    <3>2. client.q[client.i] \in Entities
      BY <3>1
    <3>3. /\ client'.q = client.q /\ client'.i = client.i /\ client'.step = "put"
      BY <2>2 DEF TypeOK
    <3>4. body' \in held[client.q[client.i]] \ {Missing}
      BY <3>2, <3>3, <2>2 DEF Idle, HeldInv
    <3>5. \A j \in 1..Len(client.q) : Sent(j)' => Sent(j)
      BY <3>3 DEF Sent
    <3> QED
      BY <2>2, <3>1, <3>2, <3>3, <3>4, <3>5 DEF ClientInv
  <2> QED
    BY <2>1, <2>2
<1> QED
  BY <1>1, <1>2, <1>3, <1>4

\* What a PUT does to the client's variables.
LEMMA PutCacheFileCases ==
  ASSUME TypeOK, PutCacheFile
  PROVE  /\ client.q \in Requests /\ client.i \in 1..Len(client.q)
         /\ client.q[client.i] \in Entities /\ Len(client.q) \in Nat
         /\ cloud' \in {cloud, [cloud EXCEPT ![client.q[client.i]] = body]}
         /\ \/ client' = Idle /\ held' = NothingHeld
            \/ /\ cloud' = [cloud EXCEPT ![client.q[client.i]] = body]
               /\ held' = held
               /\ \/ /\ client.i = Len(client.q)
                     /\ client' = [client EXCEPT !.step = "ok"]
                  \/ /\ client.i # Len(client.q)
                     /\ client' = [client EXCEPT !.i = @ + 1, !.step = "read"]
<1>1. client.q \in Requests /\ client.i \in 1..Len(client.q)
  BY DEF TypeOK, PutCacheFile
<1>2. client.q[client.i] \in Entities /\ Len(client.q) \in Nat
  BY <1>1, RequestFacts
<1> QED
  BY <1>1, <1>2 DEF PutCacheFile, NextEntity, Answer, InCall, GiveUp

LEMMA PutCacheFileInv ==
  ASSUME IInv, PutCacheFile
  PROVE  IInv'
<1> USE ListFacts DEF IInv
<1> DEFINE e == client.q[client.i]
<1>t. TypeOK
  OBVIOUS
<1>0. /\ UNCHANGED <<pos, step, refreshing, stored, ticker, caller>>
      /\ body' = Missing /\ client.step = "put"
      /\ faults' \in 0..MaxFaults
  BY DEF PutCacheFile, Well, Fails, TypeOK
<1>1. TypeOK'
  <2>1. cloud' \in [Entities -> Files] /\ held' \in [Entities -> SUBSET Files]
    <3>1. cloud \in [Entities -> Files] /\ held \in [Entities -> SUBSET Files] /\ body \in Files
      BY DEF TypeOK
    <3> HIDE DEF IInv
    <3>2. held' \in {held, NothingHeld} /\ cloud' \in {cloud, [cloud EXCEPT ![e] = body]}
      BY <1>t, PutCacheFileCases
    <3>3. [cloud EXCEPT ![e] = body] \in [Entities -> Files]
      BY <3>1
    <3> QED
      BY <3>1, <3>2, <3>3, NoListsFacts
  <2>2. /\ client' \in [q : Requests \cup {<<>>}, i : Nat, step : {"idle", "read", "put", "ok"}]
        /\ client'.step # "idle" => client'.q \in Requests /\ client'.i \in 1..Len(client'.q)
    <3>1. CASE client' = Idle
      BY <3>1 DEF Idle
    <3>2. CASE client' = [client EXCEPT !.step = "ok"]
      BY <3>2, PutCacheFileCases DEF TypeOK
    <3>3. CASE /\ client.i # Len(client.q)
               /\ client' = [client EXCEPT !.i = @ + 1, !.step = "read"]
      <4>1. client.i + 1 \in 1..Len(client.q)
        BY <3>3, PutCacheFileCases
      <4>2. /\ client'.q = client.q /\ client'.i = client.i + 1 /\ client'.step = "read"
        BY <3>3 DEF TypeOK
      <4>3. client' \in [q : Requests \cup {<<>>}, i : Nat, step : {"idle", "read", "put", "ok"}]
        <5>1. client \in [q : Requests \cup {<<>>}, i : Nat, step : {"idle", "read", "put", "ok"}]
          BY <1>t DEF TypeOK
        <5>2. client.i + 1 \in Nat
          BY <4>1, PutCacheFileCases
        <5> HIDE DEF IInv
        <5> QED
          BY <3>3, <5>1, <5>2
      <4> QED
        BY <4>1, <4>2, <4>3, PutCacheFileCases
    <3> QED
      BY <3>1, <3>2, <3>3, PutCacheFileCases
  <2> QED
    BY <1>0, <2>1, <2>2 DEF TypeOK, Steps, refreshing, stored
<1>2. WrittenInv'
  BY <1>0 DEF WrittenInv, Written, CacheIsPersisted, refreshing, stored
<1>3. HeldInv'
  <2>1. UNCHANGED file
    BY <1>0 DEF stored
  <2>2. CASE client' = Idle
    BY <2>2 DEF HeldInv, Idle
  <2>3. CASE ~ client' = Idle
    <3>1. held' = held
      BY <2>3, PutCacheFileCases
    <3> QED
      BY <1>0, <2>1, <3>1 DEF HeldInv, CacheFile
  <2> QED
    BY <2>2, <2>3
<1>4. ClientInv'
  <2>1. CASE client' = Idle
    BY <2>1 DEF ClientInv, Idle
  <2>2. CASE ~ client' = Idle
    <3>1. /\ client'.q = client.q /\ held' = held
          /\ cloud' = [cloud EXCEPT ![e] = body]
          /\ client'.step \in {"read", "ok"}
      <4>1. client \in [q : Requests \cup {<<>>}, i : Nat, step : {"idle", "read", "put", "ok"}]
        BY DEF TypeOK
      <4> HIDE DEF IInv
      <4> QED
        BY <1>t, <2>2, <4>1, PutCacheFileCases
    <3>2. ASSUME NEW j \in 1..Len(client.q), Sent(j)'
          PROVE  Sent(j) \/ j = client.i
      <4>1. CASE client' = [client EXCEPT !.step = "ok"]
        <5>1. client.i = Len(client.q)
          <6>1. client'.step = "ok"
            BY <4>1 DEF TypeOK
          <6>2. client' # [client EXCEPT !.i = @ + 1, !.step = "read"]
            BY <6>1 DEF TypeOK
          <6> HIDE DEF IInv
          <6> QED
            BY <1>t, <2>2, <6>2, PutCacheFileCases
        <5> QED
          BY <5>1, <1>0, PutCacheFileCases DEF Sent
      <4>2. CASE client' = [client EXCEPT !.i = @ + 1, !.step = "read"]
        <5>1. client'.i = client.i + 1 /\ client'.step = "read"
          BY <4>2 DEF TypeOK
        <5> QED
          BY <5>1, <3>2, <1>0, PutCacheFileCases DEF Sent
      <4> QED
        BY <2>2, <4>1, <4>2, PutCacheFileCases
    <3>3. \A x \in Entities : cloud'[x] = IF x = e THEN body ELSE cloud[x]
      BY <3>1, PutCacheFileCases DEF TypeOK
    <3>4. \A j \in 1..Len(client.q) : client.q[j] \in Entities
      BY PutCacheFileCases, RequestFacts
    <3>5. body \in held[e] \ {Missing}
      BY <1>0 DEF ClientInv
    <3>6. ASSUME NEW j \in 1..Len(client.q), Sent(j)'
          PROVE  cloud'[client.q[j]] \in held[client.q[j]] \ {Missing}
      <4>1. CASE client.q[j] = e
        BY <4>1, <3>3, <3>4, <3>5
      <4>2. CASE client.q[j] # e
        <5>1. Sent(j) /\ client.step # "idle"
          BY <3>2, <3>6, <4>2, <1>0
        <5> QED
          BY <5>1, <4>2, <3>3, <3>4 DEF ClientInv
      <4> QED
        BY <4>1, <4>2
    <3>7. client'.step # "put"
      BY <3>1
    <3> HIDE DEF IInv
    <3> QED
      BY <3>1, <3>6, <3>7 DEF ClientInv
  <2> QED
    BY <2>1, <2>2
<1> QED
  BY <1>1, <1>2, <1>3, <1>4

LEMMA NextInv == IInv /\ [Next]_vars => IInv'
<1> SUFFICES ASSUME IInv, [Next]_vars PROVE IInv'
  OBVIOUS
<1>1. CASE Next
  BY <1>1, StartInv, TickInv, TakeTickInv, TakeStopInv, StopInv, StopReturnInv,
     PosChangesInv, ReadTablesInv, ReadListInv, CreateFileInv, EncodeFileInv, UpdateInv,
     SaveBeginsInv, SaveEndsInv, RestartInv, BeginSyncInv, ReadCacheFileInv,
     PutCacheFileInv
     DEF Next, Refresh
<1>2. CASE UNCHANGED vars
  BY <1>2 DEF vars, refreshing, stored, uploading, IInv, TypeOK, WrittenInv, Written,
              CacheIsPersisted, HeldInv, CacheFile, ClientInv, Sent
<1> QED
  BY <1>1, <1>2

LEMMA Invariance == Spec => []IInv
BY InitInv, NextInv, PTL DEF Spec

-----------------------------------------------------------------------------
(* Theorems. *)

\* The state of the agent, its cache and its client stays well typed.
THEOREM AgentTypeCorrect == Spec => []TypeOK
<1>1. IInv => TypeOK
  BY DEF IInv
<1> QED
  BY <1>1, Invariance, PTL

\* At the end of a refresh memory and files agree, but for the failed writes.
THEOREM Persisted == Spec => []CacheIsPersisted
<1>1. IInv => CacheIsPersisted
  BY DEF IInv, WrittenInv
<1> QED
  BY <1>1, Invariance, PTL

\* A call of SyncAllEntities that returns nil has sent of each entity what its
\* cache file was during the call, whole or truncated, and never without a file.
THEOREM SyncIsFresh == Spec => []SuccessfulSyncIsFresh
<1>1. IInv => SuccessfulSyncIsFresh
  BY DEF IInv, ClientInv, Sent, SuccessfulSyncIsFresh
<1> QED
  BY <1>1, Invariance, PTL

\* Once Stop has returned nothing of the cache changes.
THEOREM StopIsFinal == Spec => NothingAfterStop
<1> DEFINE DoneInv == caller = "returned" => step = "done"
<1>1. Init => DoneInv
  BY DEF Init
<1>2. DoneInv /\ [Next]_vars =>
        /\ DoneInv'
        /\ caller = "returned" /\ caller' = "returned" => UNCHANGED stored
  BY DEF Next, vars, refreshing, stored, uploading, Start, BeginRefresh, Refresh, ReadList,
         ReadTables, CreateFile, EncodeFile, Update, SaveBegins, SaveEnds, Tick, TakeTick,
         TakeStop, Stop, StopReturn, BeginSync, ReadCacheFile, PutCacheFile, PosChanges,
         Restart
<1> QED
  BY <1>1, <1>2, PTL DEF Spec, NothingAfterStop

-----------------------------------------------------------------------------
(* The safety half of StopReturns. *)

\* Steps a refresh still has before it is back at the select, at most.
Remaining(st, i) ==
  LET lists == 3 * (Len(Order) - i)
  IN  CASE st = "read" -> lists + 6 [] st = "create" -> lists + 5
        [] st = "encode" -> lists + 4 [] st = "update" -> 3
        [] st = "save" -> 2 [] st = "saving" -> 1 [] OTHER -> 0

\* Whatever happens to a refresh brings it nearer to the select.
RefreshMovesOn ==
  Remaining(step, at) > 0 =>
    UNCHANGED <<step, at>> \/ Remaining(step', at') < Remaining(step, at)

\* No tick, no call of Stop and no reader of the files holds a refresh up or
\* starts it over, and no failed write repeats one: the caller of Stop waits for
\* what is left of this refresh only.
THEOREM RefreshEnds == Spec => [][RefreshMovesOn]_vars
<1>1. ASSUME TypeOK, Next, Remaining(step, at) > 0, ~UNCHANGED <<step, at>>
      PROVE  Remaining(step', at') < Remaining(step, at)
  <2>1. /\ Len(Order) \in Nat /\ at \in 1..Len(Order)
        /\ step \in {"read", "create", "encode", "update", "save", "saving"}
    BY <1>1, ListFacts DEF TypeOK, Steps, Remaining
  <2>2. Remaining("new", 1) = 0 /\ Remaining("select", at) = 0
    BY DEF Remaining
  <2>3. CASE Restart
    BY <1>1, <2>2, <2>3 DEF Restart
  <2>4. CASE ReadTables \/ ReadList
    BY <2>1, <2>4 DEF ReadTables, ReadList, Remaining
  <2>5. ASSUME step \in {"create", "encode"}, Advance
        PROVE  Remaining(step', at') < Remaining(step, at)
    <3>1. Remaining(step, at) \in {3 * (Len(Order) - at) + 4, 3 * (Len(Order) - at) + 5}
      BY <2>1, <2>5 DEF Remaining
    <3>2. CASE at = Len(Order)
      <4>1. Remaining(step', at') = 3
        BY <2>5, <3>2 DEF Advance, Remaining
      <4> QED
        BY <2>1, <3>1, <4>1
    <3>3. CASE at # Len(Order)
      <4>1. Remaining(step', at') = 3 * (Len(Order) - (at + 1)) + 6
        BY <2>5, <3>3 DEF Advance, Remaining
      <4> QED
        BY <2>1, <3>1, <4>1
    <3> QED
      BY <3>2, <3>3
  <2>6. CASE CreateFile
    <3>1. CASE step' = "encode" /\ at' = at
      BY <2>1, <2>6, <3>1 DEF CreateFile, Remaining
    <3> QED
      BY <2>5, <2>6, <3>1 DEF CreateFile
  <2>7. CASE EncodeFile
    BY <2>5, <2>7 DEF EncodeFile
  <2>8. CASE Update
    BY <2>8 DEF Update, refreshing, Remaining
  <2>9. CASE SaveBegins \/ SaveEnds
    BY <2>2, <2>9 DEF SaveBegins, SaveEnds, ToSelect, Remaining
  <2> QED
    BY <1>1, <2>1, <2>3, <2>4, <2>6, <2>7, <2>8, <2>9
       DEF Next, Refresh, Start, Tick, TakeTick, TakeStop, Stop, StopReturn, BeginSync,
           ReadCacheFile, PutCacheFile, PosChanges, refreshing
<1>2. TypeOK /\ [Next]_vars => [RefreshMovesOn]_vars
  BY <1>1 DEF RefreshMovesOn
<1> QED
  BY <1>2, AgentTypeCorrect, PTL DEF Spec
=============================================================================
