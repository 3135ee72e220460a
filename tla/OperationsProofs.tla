-------------------------- MODULE OperationsProofs --------------------------
(***************************************************************************)
(* For every number of keys, requests and failures: an operation is begun  *)
(* at most once, a record says "succeeded" only of one that ended well,    *)
(* and what the interface shows of the gateway was so.                     *)
(***************************************************************************)
EXTENDS Operations, TLAPS

\* A request that has its record and is about to be carried out.
Created(c) == req[c].phase = "created"

\* What a request knows of its record.
Requested ==
    \A c \in Clients :
        /\ req[c].phase # "none" => req[c].key \in Keys /\ req[c].kind \in Kinds
        /\ Created(c) => /\ record[req[c].key].state = "running"
                         /\ record[req[c].key].kind = req[c].kind
                         /\ ran[req[c].key] = 0
        /\ \A d \in Clients :
             Created(c) /\ Created(d) /\ req[c].key = req[d].key => c = d

\* How far the operation of a key has come: on record, begun, ended.
OnRecord(k) == /\ record[k].kind \in Kinds
               /\ record[k].state \in {"running", "succeeded", "failed"}
Begun ==
    \A k \in Keys :
        /\ record[k] = NoRecord \/ OnRecord(k)
        /\ record[k] = NoRecord => ran[k] = 0
        /\ ran[k] <= 1
        /\ ran[k] = 0 => op[k] = "none" /\ ended[k] = "none" /\ job.key # k
        /\ op[k] = "asked" => job.key # k
        /\ op[k] = "well" => ended[k] = "well" /\ job.key # k
        /\ record[k].state = "succeeded" =>
              /\ ended[k] = "well" /\ ran[k] = 1 /\ job.key # k
              /\ op[k] \in {"closing", "none"}

\* What a job can be at.
Working == /\ job.stage = "down" => job.kind \in {"stop", "reload", "restart"}
           /\ job.kind \in {"workspace", "none"} => job.stage = "none"

Orderly == TypeOK /\ Requested /\ Begun /\ Working

\* A sample changes nothing but the observer.
LEMMA Looks == Look => UNCHANGED <<record, svc, host, hist>>
  BY DEF Look, Observe, LockBefore, ReadFile, ReadPart, ActivityAfter, Again,
     Answer, Sample

\* A job whose processes are gone ends, or goes on to start them again.
LEMMA Stops ==
    ASSUME Working, job.kind \in GatewayKinds \cup {"workspace", "none"}, Stopped
    PROVE  EndJob("well") \/ EndJob("badly") \/ Onward("off")
<1>1. job.stage \in {"down", "back"} /\ job.kind # "restart"
  BY DEF Stopped, Fallen
<1>2. CASE job.stage = "back"
  BY <1>2 DEF Stopped
<1>3. CASE job.stage = "down"
  BY <1>1, <1>3 DEF Stopped, Working
<1> QED BY <1>1, <1>2, <1>3

\* What the helper works at is an operation on the gateway.
LEMMA Taken ==
    ASSUME Orderly, NEW k \in Keys, Take(k)
    PROVE  Kind(k) \in GatewayKinds
<1>1. ran[k] # 0
  BY DEF Take, Orderly, Begun
<1>2. record[k] # NoRecord
  BY <1>1 DEF Orderly, Begun
<1> QED BY <1>2, OperationsAssumption DEF Orderly, Begun, OnRecord, Take, Kind

\* The fields of a job that begins.
LEMMA WorkIs ==
    \A kind, key : /\ Work(kind, key).kind = kind /\ Work(kind, key).key = key
                   /\ Work(kind, key).stage = IF kind = "start" THEN "off" ELSE "down"
  BY DEF Work

\* The requests keep what they know of their records.
LEMMA RequestedStep ==
    ASSUME Orderly, [Next]_vars
    PROVE  Requested'
<1>k. /\ "none" \notin Keys /\ "cli" \notin Keys
      /\ NoJob.key = "none" /\ NoJob.stage = "none" /\ NoJob.kind = "none"
      /\ NoRecord.state = "none" /\ NoRecord.kind = "none" /\ NoReq.phase = "none"
  BY OperationsAssumption DEF NoJob, NoRecord, NoReq
<1> USE <1>k DEF host, svc, hist, Orderly, TypeOK
<1> USE DEF Requested, Created, Begun, OnRecord
<1>1. CASE \E c \in Clients, k \in Keys, kind \in Kinds : Lookup(c, k, kind)
  BY <1>1 DEF Lookup
<1>2. CASE \E c \in Clients : Create(c)
  <2>1. PICK c \in Clients : Create(c)
    BY <1>2
  <2>2. CASE Refuse(c) /\ UNCHANGED record
    BY <2>1, <2>2 DEF Create, Refuse
  <2>3. CASE Recorded(c) /\ record[req[c].key] = NoRecord
    <3> DEFINE k == req[c].key
    <3>1. k \in Keys /\ req[c].kind \in Kinds /\ req[c].phase = "looked"
      BY <2>1 DEF Create
    <3>2. /\ record'[k].state = "running" /\ record'[k].kind = req[c].kind
          /\ \A j \in Keys \ {k} : record'[j] = record[j]
      BY <2>3, <3>1 DEF Recorded
    <3>3. /\ req'[c].phase = "created" /\ req'[c].key = k /\ req'[c].kind = req[c].kind
          /\ \A d \in Clients \ {c} : req'[d] = req[d]
      BY <2>3, <3>1 DEF Recorded
    <3>4. ran[k] = 0 /\ UNCHANGED ran
      BY <2>1, <2>3, <3>1 DEF Create
    <3>5. \A d \in Clients : Created(d) => req[d].key # k
      BY <2>3
    <3> QED BY ONLY <3>1, <3>2, <3>3, <3>4, <3>5, Requested DEF Requested, Created
  <2> QED BY <2>1, <2>2, <2>3 DEF Create
<1>3. CASE \E c \in Clients : Launch(c)
  BY <1>3 DEF Launch, Refuse
<1>4. CASE \E k \in Keys : Take(k)
  BY <1>4 DEF Take, Work
<1>5. CASE \E k \in Keys : Unanswered(k)
  BY <1>5 DEF Unanswered
<1>6. CASE \E k \in Keys : Probed(k)
  BY <1>6 DEF Probed
<1>7. CASE \E k \in Keys : SaveEnd(k)
  <2>1. PICK k \in Keys : SaveEnd(k)
    BY <1>7
  <2>2. /\ UNCHANGED <<req, ran>> /\ op[k] # "none"
        /\ \A j \in Keys \ {k} : record'[j] = record[j]
    BY <2>1 DEF SaveEnd
  <2>3. ran[k] # 0
    BY <2>2
  <2> QED BY ONLY <2>2, <2>3, Requested DEF Requested, Created
<1>8. CASE \E k \in Keys : Close(k)
  BY <1>8 DEF Close
<1>9. CASE Workspace
  BY <1>9 DEF Workspace
<1>10. CASE WorkspaceJob
  BY <1>10 DEF WorkspaceJob, NoJob
<1>11. CASE \E kind \in External : Cli(kind)
  BY <1>11 DEF Cli, Work
<1>12. CASE \E p \in AllParts : Falls(p) \/ Rises(p)
  BY <1>12 DEF Falls, Rises
<1>13. CASE Stopped
  <2>1. EndJob("well") \/ EndJob("badly") \/ Onward("off")
    BY <1>13, Stops
  <2>2. CASE Onward("off")
    BY <1>13, <2>2 DEF Onward, Stopped, Fallen
  <2>3. ASSUME NEW r \in {"well", "badly"}, EndJob(r)
        PROVE  Requested'
    BY <1>13, <2>3 DEF EndJob, Stopped
  <2> QED BY <2>1, <2>2, <2>3
<1>14. CASE Rising
  BY <1>14 DEF Rising, Fallen, Onward
<1>15. CASE Risen
  BY <1>15 DEF Risen, EndJob, NoJob
<1>16. CASE RollsBack
  BY <1>16 DEF RollsBack, Onward
<1>17. CASE Breaks
  BY <1>17 DEF Breaks, EndJob, NoJob
<1>18. CASE Look
  BY <1>18, Looks
<1>19. CASE PartDies
  BY <1>19 DEF PartDies
<1>20. CASE Crash
  BY <1>20 DEF Crash, NoReq, NoObs
<1>21. CASE UNCHANGED vars
  BY <1>21 DEF vars
<1> QED BY <1>1, <1>2, <1>3, <1>4, <1>5, <1>6, <1>7, <1>8, <1>9, <1>10, <1>11,
   <1>12, <1>13, <1>14, <1>15, <1>16, <1>17, <1>18, <1>19, <1>20, <1>21 DEF
   Next, Step, Request, Background, Job

\* No step begins an operation again, or calls a failed one a success.
LEMMA BegunStep ==
    ASSUME Orderly, [Next]_vars
    PROVE  Begun'
<1>k. /\ "none" \notin Keys /\ "cli" \notin Keys
      /\ NoJob.key = "none" /\ NoJob.stage = "none" /\ NoJob.kind = "none"
      /\ NoRecord.state = "none" /\ NoRecord.kind = "none" /\ NoReq.phase = "none"
  BY OperationsAssumption DEF NoJob, NoRecord, NoReq
<1> USE <1>k DEF host, svc, hist, Orderly, TypeOK
<1> USE DEF Begun, OnRecord
<1>1. CASE \E c \in Clients, k \in Keys, kind \in Kinds : Lookup(c, k, kind)
  BY <1>1 DEF Lookup
<1>2. CASE \E c \in Clients : Create(c)
  <2>1. PICK c \in Clients : Create(c)
    BY <1>2
  <2>2. CASE UNCHANGED record
    BY <2>1, <2>2 DEF Create
  <2>3. CASE Recorded(c) /\ record[req[c].key] = NoRecord
    <3> DEFINE k == req[c].key
    <3>1. k \in Keys /\ req[c].kind \in Kinds
      BY <2>1 DEF Create, Requested
    <3>2. /\ record'[k].state = "running" /\ record'[k].kind = req[c].kind
          /\ \A j \in Keys \ {k} : record'[j] = record[j]
      BY <2>3, <3>1 DEF Recorded
    <3>3. UNCHANGED <<ran, op, ended, job>>
      BY <2>1 DEF Create
    <3>4. record'[k] # NoRecord
      BY <3>2
    <3>5. \A j \in Keys \ {k} : record'[j] # NoRecord => record[j] # NoRecord
      BY <3>2
    <3> HIDE DEF k
    <3> QED BY ONLY <3>1, <3>2, <3>3, <3>4, <3>5, Begun DEF Begun, OnRecord
  <2> QED BY <2>1, <2>2, <2>3 DEF Create, Refuse
<1>3. CASE \E c \in Clients : Launch(c)
  <2>1. PICK c \in Clients : Launch(c)
    BY <1>3
  <2> DEFINE k == req[c].key
  <2>2. /\ k \in Keys /\ ran[k] = 0 /\ record[k].state = "running"
        /\ req[c].kind \in Kinds /\ record[k].kind = req[c].kind
    BY <2>1 DEF Launch, Requested, Created
  <2>3. UNCHANGED <<record, ended, job>>
    BY <2>1 DEF Launch
  <2>4. /\ ran'[k] = 1 /\ op'[k] = "asked"
        /\ \A j \in Keys \ {k} : ran'[j] = ran[j] /\ op'[j] = op[j]
    BY <2>1, <2>2 DEF Launch
  <2>5. job.key # k
    BY <2>2
  <2>6. record[k] # NoRecord
    BY <2>2
  <2> HIDE DEF k
  <2> QED BY ONLY <2>2, <2>3, <2>4, <2>5, <2>6, Begun DEF Begun, OnRecord
<1>4. CASE \E k \in Keys : Take(k)
  BY <1>4 DEF Take, Work
<1>5. CASE \E k \in Keys : Unanswered(k)
  BY <1>5 DEF Unanswered
<1>6. CASE \E k \in Keys : Probed(k)
  BY <1>6 DEF Probed
<1>7. CASE \E k \in Keys : SaveEnd(k)
  BY <1>7 DEF SaveEnd
<1>8. CASE \E k \in Keys : Close(k)
  BY <1>8 DEF Close
<1>9. CASE Workspace
  BY <1>9 DEF Workspace
<1>10. CASE WorkspaceJob
  BY <1>10 DEF WorkspaceJob, NoJob
<1>11. CASE \E kind \in External : Cli(kind)
  BY <1>11 DEF Cli, Work
<1>12. CASE \E p \in AllParts : Falls(p) \/ Rises(p)
  BY <1>12 DEF Falls, Rises
<1>13. CASE Stopped
  <2>1. EndJob("well") \/ EndJob("badly") \/ Onward("off")
    BY <1>13, Stops
  <2>2. CASE Onward("off")
    BY <1>13, <2>2 DEF Onward, Stopped, Fallen
  <2>3. ASSUME NEW r \in {"well", "badly"}, EndJob(r)
        PROVE  Begun'
    BY <1>13, <2>3 DEF EndJob, Stopped
  <2> QED BY <2>1, <2>2, <2>3
<1>14. CASE Rising
  BY <1>14 DEF Rising, Fallen, Onward
<1>15. CASE Risen
  BY <1>15 DEF Risen, EndJob, NoJob
<1>16. CASE RollsBack
  BY <1>16 DEF RollsBack, Onward
<1>17. CASE Breaks
  BY <1>17 DEF Breaks, EndJob, NoJob
<1>18. CASE Look
  BY <1>18, Looks
<1>19. CASE PartDies
  BY <1>19 DEF PartDies
<1>20. CASE Crash
  BY <1>20 DEF Crash, NoReq, NoObs
<1>21. CASE UNCHANGED vars
  BY <1>21 DEF vars
<1> QED BY <1>1, <1>2, <1>3, <1>4, <1>5, <1>6, <1>7, <1>8, <1>9, <1>10, <1>11,
   <1>12, <1>13, <1>14, <1>15, <1>16, <1>17, <1>18, <1>19, <1>20, <1>21 DEF
   Next, Step, Request, Background, Job

\* A job goes through its stages.
LEMMA WorkingStep ==
    ASSUME Orderly, [Next]_vars
    PROVE  Working'
<1>k. /\ "none" \notin Keys /\ "cli" \notin Keys
      /\ NoJob.key = "none" /\ NoJob.stage = "none" /\ NoJob.kind = "none"
      /\ NoRecord.state = "none" /\ NoRecord.kind = "none" /\ NoReq.phase = "none"
  BY OperationsAssumption DEF NoJob, NoRecord, NoReq
<1> USE <1>k DEF host, svc, hist, Orderly, TypeOK
<1> USE DEF Working
<1>1. CASE \E c \in Clients, k \in Keys, kind \in Kinds : Lookup(c, k, kind)
  BY <1>1 DEF Lookup
<1>2. CASE \E c \in Clients : Create(c)
  BY <1>2 DEF Create, Admitted, Recorded, Refuse
<1>3. CASE \E c \in Clients : Launch(c)
  BY <1>3 DEF Launch, Refuse
<1>4. CASE \E k \in Keys : Take(k)
  BY <1>4, Taken, WorkIs DEF Take, GatewayKinds
<1>5. CASE \E k \in Keys : Unanswered(k)
  BY <1>5 DEF Unanswered
<1>6. CASE \E k \in Keys : Probed(k)
  BY <1>6 DEF Probed
<1>7. CASE \E k \in Keys : SaveEnd(k)
  BY <1>7 DEF SaveEnd
<1>8. CASE \E k \in Keys : Close(k)
  BY <1>8 DEF Close
<1>9. CASE Workspace
  BY <1>9 DEF Workspace
<1>10. CASE WorkspaceJob
  BY <1>10 DEF WorkspaceJob, NoJob
<1>11. CASE \E kind \in External : Cli(kind)
  BY <1>11, WorkIs, OperationsAssumption DEF Cli, GatewayKinds
<1>12. CASE \E p \in AllParts : Falls(p) \/ Rises(p)
  BY <1>12 DEF Falls, Rises
<1>13. CASE Stopped
  <2>1. EndJob("well") \/ EndJob("badly") \/ Onward("off")
    BY <1>13, Stops
  <2>2. CASE Onward("off")
    BY <1>13, <2>2 DEF Onward, Stopped, Fallen
  <2>3. ASSUME NEW r \in {"well", "badly"}, EndJob(r)
        PROVE  Working'
    BY <1>13, <2>3 DEF EndJob, Stopped
  <2> QED BY <2>1, <2>2, <2>3
<1>14. CASE Rising
  BY <1>14 DEF Rising, Fallen, Onward
<1>15. CASE Risen
  BY <1>15 DEF Risen, EndJob, NoJob
<1>16. CASE RollsBack
  BY <1>16 DEF RollsBack, Onward
<1>17. CASE Breaks
  BY <1>17 DEF Breaks, EndJob, NoJob
<1>18. CASE Look
  BY <1>18, Looks
<1>19. CASE PartDies
  BY <1>19 DEF PartDies
<1>20. CASE Crash
  BY <1>20 DEF Crash, NoReq, NoObs
<1>21. CASE UNCHANGED vars
  BY <1>21 DEF vars
<1> QED BY <1>1, <1>2, <1>3, <1>4, <1>5, <1>6, <1>7, <1>8, <1>9, <1>10, <1>11,
   <1>12, <1>13, <1>14, <1>15, <1>16, <1>17, <1>18, <1>19, <1>20, <1>21 DEF
   Next, Step, Request, Background, Job

\* The parts of the type invariant.
ServiceType ==
    /\ record \in [Keys -> [kind : Kinds \cup {"none"},
                            state : {"none", "running", "succeeded", "failed"}]]
    /\ active \subseteq Keys
    /\ mu \in {"free", "workspace"} \cup Clients \cup Keys
    /\ req \in [Clients -> [phase : {"none", "looked", "created"},
                            key : Keys \cup {"none"}, kind : Kinds \cup {"none"}]]
    /\ op \in [Keys -> {"none", "asked", "helped", "well", "badly", "closing"}]
    /\ ran \in [Keys -> 0..2] /\ ended \in [Keys -> {"none", "well", "badly"}]
WorldType ==
    /\ file \in BOOLEAN /\ up \subseteq AllParts
    /\ job \in [kind : GatewayKinds \cup {"workspace", "none"},
                stage : {"none", "off", "down", "up", "back"},
                key : Keys \cup {"cli", "none"}]
Samples == [phase : {"idle", "begun", "file", "parts", "checked"},
            next : 1..Len(Parts) + 1, again : BOOLEAN, moved : BOOLEAN,
            busy : BOOLEAN, file : BOOLEAN, up : SUBSET AllParts,
            was : Views, is : Views, known : BOOLEAN, shown : Views]

\* The service keeps its types.
LEMMA ServiceTypeStep ==
    ASSUME ServiceType, WorldType, Requested, Working, [Next]_vars
    PROVE  ServiceType'
<1>k. /\ Kinds \subseteq GatewayKinds \cup {"probe"} /\ External \subseteq GatewayKinds
      /\ NoReq \in [phase : {"none", "looked", "created"},
                    key : Keys \cup {"none"}, kind : Kinds \cup {"none"}]
      /\ NoJob \in [kind : GatewayKinds \cup {"workspace", "none"},
                    stage : {"none", "off", "down", "up", "back"},
                    key : Keys \cup {"cli", "none"}]
  BY OperationsAssumption DEF NoReq, NoJob, GatewayKinds
<1> USE <1>k DEF host, svc, hist
<1> USE DEF ServiceType
<1>1. CASE \E c \in Clients, k \in Keys, kind \in Kinds : Lookup(c, k, kind)
  BY <1>1 DEF Lookup
<1>2. CASE \E c \in Clients : Create(c)
  <2>1. PICK c \in Clients : Create(c)
    BY <1>2
  <2>2. UNCHANGED <<active, op, ran, ended>>
    BY <2>1 DEF Create
  <2>3. req[c].phase # "none" /\ req[c].key \in Keys /\ req[c].kind \in Kinds
    BY <2>1 DEF Create, Requested
  <2>4. CASE Refuse(c) /\ UNCHANGED <<record, mu>>
    BY <2>2, <2>4 DEF Refuse, ServiceType
  <2>5. CASE Recorded(c)
    <3>1. record' \in [Keys -> [kind : Kinds \cup {"none"},
                               state : {"none", "running", "succeeded", "failed"}]]
      BY <2>3, <2>5 DEF Recorded, ServiceType
    <3>2. req' \in [Clients -> [phase : {"none", "looked", "created"},
                               key : Keys \cup {"none"}, kind : Kinds \cup {"none"}]]
      BY <2>5 DEF Recorded, ServiceType
    <3>3. mu' \in {"free", "workspace"} \cup Clients \cup Keys
      BY <2>5 DEF Recorded, ServiceType
    <3> QED BY <2>2, <3>1, <3>2, <3>3 DEF ServiceType
  <2> QED BY <2>1, <2>4, <2>5 DEF Create
<1>3. CASE \E c \in Clients : Launch(c)
  <2>1. PICK c \in Clients : Launch(c)
    BY <1>3
  <2>2. req[c].key \in Keys
    BY <2>1 DEF Launch, Requested
  <2>3. ran' \in [Keys -> 0..2]
    BY <2>1, <2>2 DEF Launch, ServiceType
  <2> QED BY <2>1, <2>2, <2>3 DEF Launch, Refuse, ServiceType
<1>4. CASE \E k \in Keys : Take(k)
  BY <1>4 DEF Take, Work
<1>5. CASE \E k \in Keys : Unanswered(k)
  BY <1>5 DEF Unanswered
<1>6. CASE \E k \in Keys : Probed(k)
  BY <1>6 DEF Probed
<1>7. CASE \E k \in Keys : SaveEnd(k)
  <2>1. PICK k \in Keys : SaveEnd(k)
    BY <1>7
  <2>2. UNCHANGED <<active, mu, req, ran, ended>>
    BY <2>1 DEF SaveEnd
  <2>3. op' \in [Keys -> {"none", "asked", "helped", "well", "badly", "closing"}]
    <3>1. op' = [op EXCEPT ![k] = "closing"]
      BY <2>1 DEF SaveEnd
    <3> QED BY <3>1 DEF ServiceType
  <2>4. record' \in [Keys -> [kind : Kinds \cup {"none"},
                             state : {"none", "running", "succeeded", "failed"}]]
    <3>1. \/ UNCHANGED record
          \/ \E new \in {"succeeded", "failed"} : record' = [record EXCEPT ![k].state = new]
      BY <2>1 DEF SaveEnd
    <3> QED BY <3>1 DEF ServiceType
  <2> QED BY ONLY ServiceType, <2>2, <2>3, <2>4 DEF ServiceType
<1>8. CASE \E k \in Keys : Close(k)
  BY <1>8 DEF Close
<1>9. CASE Workspace
  BY <1>9 DEF Workspace
<1>10. CASE WorkspaceJob
  BY <1>10 DEF WorkspaceJob, NoJob
<1>11. CASE \E kind \in External : Cli(kind)
  BY <1>11 DEF Cli, Work
<1>12. CASE \E p \in AllParts : Falls(p) \/ Rises(p)
  BY <1>12 DEF Falls, Rises
<1>13. CASE Stopped
  <2>1. EndJob("well") \/ EndJob("badly") \/ Onward("off")
    BY <1>13, Stops DEF WorldType
  <2>2. CASE Onward("off")
    BY <2>2 DEF Onward, ServiceType
  <2>3. ASSUME NEW r \in {"well", "badly"}, EndJob(r)
        PROVE  ServiceType'
    BY <2>3 DEF EndJob, ServiceType
  <2> QED BY <2>1, <2>2, <2>3
<1>14. CASE Rising
  BY <1>14 DEF Rising, Fallen, Onward
<1>15. CASE Risen
  BY <1>15 DEF Risen, EndJob, NoJob
<1>16. CASE RollsBack
  BY <1>16 DEF RollsBack, Onward
<1>17. CASE Breaks
  BY <1>17 DEF Breaks, EndJob, NoJob
<1>18. CASE Look
  BY <1>18, Looks
<1>19. CASE PartDies
  BY <1>19 DEF PartDies
<1>20. CASE Crash
  BY <1>20 DEF Crash, NoReq, NoObs
<1>21. CASE UNCHANGED vars
  BY <1>21 DEF vars
<1> QED BY <1>1, <1>2, <1>3, <1>4, <1>5, <1>6, <1>7, <1>8, <1>9, <1>10, <1>11,
   <1>12, <1>13, <1>14, <1>15, <1>16, <1>17, <1>18, <1>19, <1>20, <1>21 DEF
   Next, Step, Request, Background, Job

\* The gateway keeps its types.
LEMMA WorldTypeStep ==
    ASSUME Orderly, WorldType, [Next]_vars
    PROVE  WorldType'
<1>k. /\ Kinds \subseteq GatewayKinds \cup {"probe"} /\ External \subseteq GatewayKinds
      /\ NoReq \in [phase : {"none", "looked", "created"},
                    key : Keys \cup {"none"}, kind : Kinds \cup {"none"}]
      /\ NoJob \in [kind : GatewayKinds \cup {"workspace", "none"},
                    stage : {"none", "off", "down", "up", "back"},
                    key : Keys \cup {"cli", "none"}]
  BY OperationsAssumption DEF NoReq, NoJob, GatewayKinds
<1> USE <1>k DEF host, svc, hist
<1> USE DEF WorldType
<1>1. CASE \E c \in Clients, k \in Keys, kind \in Kinds : Lookup(c, k, kind)
  BY <1>1 DEF Lookup
<1>2. CASE \E c \in Clients : Create(c)
  BY <1>2 DEF Create, Admitted, Recorded, Refuse
<1>3. CASE \E c \in Clients : Launch(c)
  BY <1>3 DEF Launch, Refuse
<1>4. CASE \E k \in Keys : Take(k)
  <2>1. PICK k \in Keys : Take(k)
    BY <1>4
  <2>2. Kind(k) \in GatewayKinds
    BY <2>1, Taken
  <2>3. Work(Kind(k), k) \in [kind : GatewayKinds \cup {"workspace", "none"},
                              stage : {"none", "off", "down", "up", "back"},
                              key : Keys \cup {"cli", "none"}]
    BY <2>2 DEF Work
  <2> QED BY <2>1, <2>3 DEF Take, WorldType
<1>5. CASE \E k \in Keys : Unanswered(k)
  BY <1>5 DEF Unanswered
<1>6. CASE \E k \in Keys : Probed(k)
  BY <1>6 DEF Probed
<1>7. CASE \E k \in Keys : SaveEnd(k)
  BY <1>7 DEF SaveEnd
<1>8. CASE \E k \in Keys : Close(k)
  BY <1>8 DEF Close
<1>9. CASE Workspace
  BY <1>9 DEF Workspace
<1>10. CASE WorkspaceJob
  BY <1>10 DEF WorkspaceJob, NoJob
<1>11. CASE \E kind \in External : Cli(kind)
  BY <1>11 DEF Cli, Work, WorldType
<1>12. CASE \E p \in AllParts : Falls(p) \/ Rises(p)
  BY <1>12 DEF Falls, Rises
<1>13. CASE Stopped
  <2>1. EndJob("well") \/ EndJob("badly") \/ Onward("off")
    BY <1>13, Stops DEF WorldType, Orderly
  <2>2. UNCHANGED up /\ file' = FALSE
    BY <1>13 DEF Stopped
  <2>3. job' \in [kind : GatewayKinds \cup {"workspace", "none"},
                  stage : {"none", "off", "down", "up", "back"},
                  key : Keys \cup {"cli", "none"}]
    BY <2>1 DEF EndJob, Onward, WorldType
  <2> QED BY <2>2, <2>3 DEF WorldType
<1>14. CASE Rising
  BY <1>14 DEF Rising, Fallen, Onward
<1>15. CASE Risen
  BY <1>15 DEF Risen, EndJob, NoJob
<1>16. CASE RollsBack
  BY <1>16 DEF RollsBack, Onward
<1>17. CASE Breaks
  BY <1>17 DEF Breaks, EndJob, NoJob
<1>18. CASE Look
  BY <1>18, Looks
<1>19. CASE PartDies
  BY <1>19 DEF PartDies
<1>20. CASE Crash
  BY <1>20 DEF Crash, NoReq, NoObs
<1>21. CASE UNCHANGED vars
  BY <1>21 DEF vars
<1> QED BY <1>1, <1>2, <1>3, <1>4, <1>5, <1>6, <1>7, <1>8, <1>9, <1>10, <1>11,
   <1>12, <1>13, <1>14, <1>15, <1>16, <1>17, <1>18, <1>19, <1>20, <1>21 DEF
   Next, Step, Request, Background, Job

\* A sample keeps its types.
LEMMA SampleStep ==
    ASSUME Orderly, WorldType, obs \in Samples, [Next]_vars
    PROVE  obs' \in Samples
<1>k. Len(Parts) \in Nat
  BY OperationsAssumption
<1>o. NoObs \in Samples
  <2>1. 1 \in 1..Len(Parts) + 1
    BY <1>k
  <2> QED BY <2>1 DEF NoObs, Samples, Views
<1>m. Moves => obs' \in Samples
  BY DEF Moves, Samples
<1> USE DEF host, svc, hist
<1>1. CASE \E c \in Clients, k \in Keys, kind \in Kinds : Lookup(c, k, kind)
  BY <1>1 DEF Lookup
<1>2. CASE \E c \in Clients : Create(c)
  BY <1>2 DEF Create, Admitted, Recorded, Refuse
<1>3. CASE \E c \in Clients : Launch(c)
  BY <1>3, <1>m DEF Launch
<1>4. CASE \E k \in Keys : Take(k)
  BY <1>4 DEF Take, Work
<1>5. CASE \E k \in Keys : Unanswered(k)
  BY <1>5 DEF Unanswered
<1>6. CASE \E k \in Keys : Probed(k)
  BY <1>6 DEF Probed
<1>7. CASE \E k \in Keys : SaveEnd(k)
  BY <1>7 DEF SaveEnd
<1>8. CASE \E k \in Keys : Close(k)
  BY <1>8, <1>m DEF Close
<1>9. CASE Workspace
  BY <1>9, <1>m DEF Workspace
<1>10. CASE WorkspaceJob
  BY <1>10 DEF WorkspaceJob, NoJob
<1>11. CASE \E kind \in External : Cli(kind)
  BY <1>11 DEF Cli, Work
<1>12. CASE \E p \in AllParts : Falls(p) \/ Rises(p)
  BY <1>12 DEF Falls, Rises
<1>13. CASE Stopped
  <2>1. EndJob("well") \/ EndJob("badly") \/ Onward("off")
    BY <1>13, Stops DEF WorldType, Orderly
  <2> QED BY <2>1 DEF EndJob, Onward
<1>14. CASE Rising
  BY <1>14 DEF Rising, Fallen, Onward
<1>15. CASE Risen
  BY <1>15 DEF Risen, EndJob, NoJob
<1>16. CASE RollsBack
  BY <1>16 DEF RollsBack, Onward
<1>17. CASE Breaks
  BY <1>17 DEF Breaks, EndJob, NoJob
<1>18. CASE Look
  <2>1. obs.next \in 1..Len(Parts) + 1 /\ Len(Parts) \in Nat
    BY <1>k DEF Samples
  <2>2. obs.next <= Len(Parts) => obs.next + 1 \in 1..Len(Parts) + 1
    BY <2>1
  <2>3. World \in Views /\ Busy \in BOOLEAN /\ Known \in BOOLEAN
    BY DEF World, Views, Busy, Known
  <2>4. CASE Observe
    BY <2>4, <1>o DEF Observe, Sample, Samples
  <2>5. CASE LockBefore
    BY <2>5, <2>3 DEF LockBefore, Sample, Samples
  <2>6. CASE ReadFile
    BY <2>6 DEF ReadFile, Sample, Samples, WorldType
  <2>7. CASE ReadPart
    BY <2>7, <2>2 DEF ReadPart, Sample, Samples, WorldType
  <2>8. CASE ActivityAfter
    <3>1. PICK shown \in {Kind(k) : k \in Shows}
                       \cup (IF Shows = {} THEN {"none"} ELSE {}) :
            obs' = [obs EXCEPT !.phase = "checked", !.known = Known,
                               !.shown = shown, !.is = World]
      BY <2>8 DEF ActivityAfter, Sample
    <3>2. shown \in Views
      BY <3>1 DEF Shows, Views, GatewayKinds
    <3> QED BY <2>3, <3>1, <3>2 DEF Samples
  <2>9. CASE Again
    BY <2>9, <1>o DEF Again, Sample, Samples
  <2>10. CASE Answer
    BY <2>10, <1>o DEF Answer, Sample
  <2> QED BY <1>18, <2>4, <2>5, <2>6, <2>7, <2>8, <2>9, <2>10 DEF Look
<1>19. CASE PartDies
  BY <1>19 DEF PartDies
<1>20. CASE Crash
  BY <1>20, <1>o DEF Crash
<1>21. CASE UNCHANGED vars
  BY <1>21 DEF vars
<1> QED BY <1>1, <1>2, <1>3, <1>4, <1>5, <1>6, <1>7, <1>8, <1>9, <1>10, <1>11,
   <1>12, <1>13, <1>14, <1>15, <1>16, <1>17, <1>18, <1>19, <1>20, <1>21 DEF
   Next, Step, Request, Background, Job

\* The fault budget is never overdrawn.
LEMMA LeftType == ASSUME left \in 0..MaxFaults, Fine \/ (\E kind : Fault(kind))
                  PROVE  left' \in 0..MaxFaults
<1>1. left \in Nat /\ MaxFaults \in Nat /\ left <= MaxFaults
  BY OperationsAssumption
<1>2. \A l, m \in Nat : l > 0 /\ l <= m => l - 1 \in 0..m
  OBVIOUS
<1> QED BY <1>1, <1>2 DEF Fine, Fault

\* What an attempt could not tell is one of three things.
LEMMA UnseenType ==
    ASSUME obs' \in Samples, unseen \in {"no", "began", "hidden"}, unseen' = Unseen
    PROVE  unseen' \in {"no", "began", "hidden"}
<1>1. CASE obs'.phase \in {"idle", "begun"}
  BY <1>1 DEF Unseen
<1>2. CASE obs'.phase \notin {"idle", "begun"} /\ unseen = "hidden"
  BY <1>2 DEF Unseen
<1>3. CASE obs'.phase \notin {"idle", "begun"} /\ unseen # "hidden"
  BY <1>3 DEF Unseen
<1> QED BY <1>1, <1>2, <1>3

\* The type invariant is made of its parts.
LEMMA TypeParts == TypeOK <=> /\ ServiceType /\ WorldType /\ obs \in Samples
                              /\ unseen \in {"no", "began", "hidden"}
                              /\ left \in 0..MaxFaults
  BY DEF TypeOK, ServiceType, WorldType, Samples

-----------------------------------------------------------------------------
(***************************************************************************)
(* The inductive invariant and what follows.                               *)
(***************************************************************************)
\* Before the first request nothing is on record and nothing runs.
LEMMA OrderlyInit == Init => Orderly
<1> SUFFICES ASSUME Init PROVE Orderly
  OBVIOUS
<1>1. /\ NoRecord.state = "none" /\ NoRecord.kind = "none" /\ NoReq.phase = "none"
      /\ NoJob.key = "none" /\ NoJob.stage = "none" /\ "none" \notin Keys
  BY OperationsAssumption DEF NoRecord, NoReq, NoJob
<1>2. ServiceType
  BY DEF Init, ServiceType, NoRecord, NoReq
<1>3. WorldType
  BY DEF Init, WorldType, NoJob
<1>4. obs \in Samples
  <2>1. 1 \in 1..Len(Parts) + 1
    BY OperationsAssumption
  <2> QED BY <2>1 DEF Init, NoObs, Samples, Views
<1>5. left \in 0..MaxFaults /\ unseen = "no"
  BY OperationsAssumption DEF Init
<1>6. Requested /\ Begun /\ Working
  BY <1>1 DEF Init, Requested, Created, Begun, Working
<1> QED BY <1>2, <1>3, <1>4, <1>5, <1>6, TypeParts DEF Orderly

\* Every step keeps the inductive invariant.
LEMMA OrderlyStep == Orderly /\ [Next]_vars => Orderly'
<1> SUFFICES ASSUME Orderly, [Next]_vars PROVE Orderly'
  OBVIOUS
<1>1. /\ ServiceType /\ WorldType /\ obs \in Samples
      /\ unseen \in {"no", "began", "hidden"} /\ left \in 0..MaxFaults
  BY TypeParts DEF Orderly
<1>2. Requested' /\ Begun' /\ Working'
  BY RequestedStep, BegunStep, WorkingStep
<1>3. ServiceType' /\ WorldType' /\ obs' \in Samples
  BY <1>1, ServiceTypeStep, WorldTypeStep, SampleStep DEF Orderly
<1>4. unseen' \in {"no", "began", "hidden"}
  BY <1>1, <1>3, UnseenType DEF Next, vars
<1>5. left' \in 0..MaxFaults
  <2>1. CASE UNCHANGED left
    BY <1>1, <2>1
  <2>2. CASE \E kind : Fault(kind)
    BY <1>1, <2>2, LeftType
  <2>3. UNCHANGED left \/ \E kind : Fault(kind)
    BY DEF Next, Step, Request, Background, Job, vars, Fine,
       Lookup, Create, Launch, Take, Unanswered, Probed, SaveEnd, Close,
       Workspace, WorkspaceJob, Cli, Falls, Rises, Stopped, Rising, Risen,
       RollsBack, Breaks, PartDies, Crash, Look, Observe, LockBefore, ReadFile,
       ReadPart, ActivityAfter, Again, Answer, Sample
  <2> QED BY <2>1, <2>2, <2>3
<1>6. TypeOK'
  BY <1>3, <1>4, <1>5 DEF TypeOK, ServiceType, WorldType, Samples
<1> QED BY <1>2, <1>6 DEF Orderly

\* In every reachable state.
THEOREM OrderlyAlways == Spec => []Orderly
<1> QED BY OrderlyInit, OrderlyStep, PTL DEF Spec

\* The records, the requests, the jobs and the samples have their types.
THEOREM TypeCorrect == Spec => []TypeOK
<1>1. Orderly => TypeOK
  BY DEF Orderly
<1> QED BY <1>1, OrderlyAlways, PTL

\* However often a key is sent, by how many pages, after lost answers and
\* crashes: its operation is begun at most once, because CreateOperation
\* (controlapi/store.go) makes a record only where there is none and whoever
\* made it is the only one to begin it.
THEOREM ExecutedOnceAlways == Spec => []ExecutedOnce
<1>1. Orderly => ExecutedOnce
  BY DEF Orderly, Begun, ExecutedOnce
<1> QED BY <1>1, OrderlyAlways, PTL

\* A record says "succeeded" only of an operation that was begun once and whose
\* job ended well, whatever died or was lost in between.
THEOREM SuccessIsTrueAlways == Spec => []SuccessIsTrue
<1>1. Orderly => SuccessIsTrue
  BY DEF Orderly, Begun, SuccessIsTrue
<1> QED BY <1>1, OrderlyAlways, PTL

-----------------------------------------------------------------------------
(***************************************************************************)
(* What the interface shows of the gateway: the records and the samples,   *)
(* and the jobs of others that a sample cannot tell.                       *)
(***************************************************************************)
\* What is under way is what the interface counts as active, and a job that an
\* operation asked for is of its kind.
Underways == /\ active = {k \in Keys : op[k] # "none"}
             /\ job.key \in Keys => Kind(job.key) = job.kind

\* What has been read of the gateway so far still holds, but for processes that
\* have died: no other job has touched it.
Agrees ==
    /\ obs.phase = "parts" => obs.file = file
    /\ file /\ obs.was # "running" => ~(AllParts \subseteq obs.up \cup up)
    /\ \A i \in 1..Len(Parts) : i < obs.next => Parts[i] \in obs.up \/ Parts[i] \notin up
Trusted ==
    (/\ obs.phase \in {"file", "parts"} /\ ~obs.moved /\ unseen = "no"
     /\ Shows = {} /\ (~obs.busy \/ Known)) => ~Foreign /\ Agrees

\* What a complete sample says, unless another's job is at work.
Verdict == IF Sampled = "running" THEN obs.was = "running" ELSE obs.is = Sampled
Judged ==
    (/\ obs.phase = "checked" /\ ~obs.moved /\ unseen # "hidden"
     /\ obs.shown = "none" /\ (~obs.busy \/ obs.known)) =>
        Verdict \/ (unseen = "began" /\ ~obs.busy)

Watching == /\ obs.shown \in GatewayKinds \cup {"none"}
            /\ obs.phase \in {"begun", "file"} => obs.up = {} /\ obs.next = 1
            /\ unseen = "began" => Foreign
            /\ Trusted /\ Judged

\* A record that is there keeps its kind.
LEMMA OnlyNew ==
    ASSUME Orderly, NEW c \in Clients, Create(c)
    PROVE  \A k \in Keys : ran[k] # 0 => record'[k] = record[k]
<1>1. CASE UNCHANGED record
  BY <1>1
<1>2. CASE Recorded(c) /\ record[req[c].key] = NoRecord
  <2>1. req[c].key \in Keys
    BY DEF Create, Orderly, Requested
  <2>2. ran[req[c].key] = 0
    BY <1>2, <2>1 DEF Orderly, Begun
  <2> QED BY <1>2, <2>1, <2>2 DEF Recorded
<1> QED BY <1>1, <1>2 DEF Create

\* What is under way is what is counted.
LEMMA UnderwaysStep ==
    ASSUME Orderly, Underways, [Next]_vars
    PROVE  Underways'
<1>k. /\ {"free", "workspace", "cli", "none"} \cap (Keys \cup Clients) = {}
      /\ NoJob.key = "none" /\ NoJob.stage = "none" /\ NoJob.kind = "none"
      /\ NoRecord.state = "none" /\ NoRecord.kind = "none" /\ NoReq.phase = "none"
  BY OperationsAssumption DEF NoJob, NoRecord, NoReq
<1> USE <1>k DEF host, svc, hist, Orderly, TypeOK
<1> USE DEF Underways, Kind
<1>1. CASE \E c \in Clients, k \in Keys, kind \in Kinds : Lookup(c, k, kind)
  BY <1>1 DEF Lookup
<1>2. CASE \E c \in Clients : Create(c)
  <2>1. PICK c \in Clients : Create(c)
    BY <1>2
  <2>2. CASE UNCHANGED record
    BY <2>1, <2>2 DEF Create
  <2>3. CASE Recorded(c) /\ record[req[c].key] = NoRecord
    <3>1. req[c].key \in Keys
      BY <2>1 DEF Create, Requested
    <3>2. \A k \in Keys \ {req[c].key} : record'[k] = record[k]
      BY <2>3, <3>1 DEF Recorded
    <3>3. ran[req[c].key] = 0
      BY <2>3, <3>1 DEF Begun
    <3>4. job.key # req[c].key
      BY <3>1, <3>3 DEF Begun
    <3>5. UNCHANGED <<active, op, job>>
      BY <2>1 DEF Create
    <3> QED BY ONLY <3>1, <3>2, <3>4, <3>5, Underways DEF Underways, Kind
  <2> QED BY <2>1, <2>2, <2>3 DEF Create, Refuse
<1>3. CASE \E c \in Clients : Launch(c)
  <2>1. PICK c \in Clients : Launch(c)
    BY <1>3
  <2> DEFINE k == req[c].key
  <2>2. k \in Keys
    BY <2>1 DEF Launch, Requested, Created
  <2>3. /\ active' = active \cup {k} /\ op'[k] = "asked"
        /\ \A j \in Keys \ {k} : op'[j] = op[j]
    BY <2>1, <2>2 DEF Launch
  <2>4. UNCHANGED <<record, job>>
    BY <2>1 DEF Launch
  <2> HIDE DEF k
  <2> QED BY ONLY <2>2, <2>3, <2>4, Underways DEF Underways, Kind
<1>4. CASE \E k \in Keys : Take(k)
  <2>1. PICK k \in Keys : Take(k)
    BY <1>4
  <2>2. op[k] = "asked" /\ UNCHANGED <<active, record>>
    BY <2>1 DEF Take
  <2>3. op'[k] \in {"helped", "badly"} /\ \A j \in Keys \ {k} : op'[j] = op[j]
    BY <2>1 DEF Take
  <2>4. UNCHANGED job \/ (job'.kind = Kind(k) /\ job'.key = k)
    BY <2>1, WorkIs DEF Take
  <2> QED BY ONLY <2>2, <2>3, <2>4, Underways DEF Underways, Kind
<1>5. CASE \E k \in Keys : Unanswered(k)
  BY <1>5 DEF Unanswered
<1>6. CASE \E k \in Keys : Probed(k)
  BY <1>6 DEF Probed
<1>7. CASE \E k \in Keys : SaveEnd(k)
  BY <1>7 DEF SaveEnd
<1>8. CASE \E k \in Keys : Close(k)
  BY <1>8 DEF Close
<1>9. CASE Workspace
  BY <1>9 DEF Workspace
<1>10. CASE WorkspaceJob
  BY <1>10 DEF WorkspaceJob, NoJob
<1>11. CASE \E kind \in External : Cli(kind)
  BY <1>11, WorkIs DEF Cli
<1>12. CASE \E p \in AllParts : Falls(p) \/ Rises(p)
  BY <1>12 DEF Falls, Rises
<1>13. CASE Stopped
  <2>1. EndJob("well") \/ EndJob("badly") \/ Onward("off")
    BY <1>13, Stops
  <2>2. CASE Onward("off")
    BY <2>2 DEF Onward
  <2>3. ASSUME NEW r \in {"well", "badly"}, EndJob(r)
        PROVE  Underways'
    BY <2>3 DEF EndJob
  <2> QED BY <2>1, <2>2, <2>3
<1>14. CASE Rising
  BY <1>14 DEF Rising, Fallen, Onward
<1>15. CASE Risen
  BY <1>15 DEF Risen, EndJob, NoJob
<1>16. CASE RollsBack
  BY <1>16 DEF RollsBack, Onward
<1>17. CASE Breaks
  BY <1>17 DEF Breaks, EndJob, NoJob
<1>18. CASE Look
  BY <1>18, Looks
<1>19. CASE PartDies
  BY <1>19 DEF PartDies
<1>20. CASE Crash
  BY <1>20 DEF Crash, NoReq, NoObs
<1>21. CASE UNCHANGED vars
  BY <1>21 DEF vars
<1> QED BY <1>1, <1>2, <1>3, <1>4, <1>5, <1>6, <1>7, <1>8, <1>9, <1>10, <1>11,
   <1>12, <1>13, <1>14, <1>15, <1>16, <1>17, <1>18, <1>19, <1>20, <1>21 DEF
   Next, Step, Request, Background, Job

\* The file lock changes hands only when it is free.
LEMMA JobHolds ==
    ASSUME Orderly, [Next]_vars, Busy, Busy'
    PROVE  job'.kind = job.kind /\ job'.key = job.key
<1>k. /\ {"free", "workspace", "cli", "none"} \cap (Keys \cup Clients) = {}
      /\ NoJob.key = "none" /\ NoJob.stage = "none" /\ NoJob.kind = "none"
      /\ NoRecord.state = "none" /\ NoRecord.kind = "none" /\ NoReq.phase = "none"
  BY OperationsAssumption DEF NoJob, NoRecord, NoReq
<1> USE <1>k DEF host, svc, hist, Orderly, TypeOK
<1> USE DEF Busy
<1>1. CASE \E c \in Clients, k \in Keys, kind \in Kinds : Lookup(c, k, kind)
  BY <1>1 DEF Lookup
<1>2. CASE \E c \in Clients : Create(c)
  BY <1>2 DEF Create, Admitted, Recorded, Refuse
<1>3. CASE \E c \in Clients : Launch(c)
  BY <1>3 DEF Launch, Refuse
<1>4. CASE \E k \in Keys : Take(k)
  BY <1>4 DEF Take, Work
<1>5. CASE \E k \in Keys : Unanswered(k)
  BY <1>5 DEF Unanswered
<1>6. CASE \E k \in Keys : Probed(k)
  BY <1>6 DEF Probed
<1>7. CASE \E k \in Keys : SaveEnd(k)
  BY <1>7 DEF SaveEnd
<1>8. CASE \E k \in Keys : Close(k)
  BY <1>8 DEF Close
<1>9. CASE Workspace
  BY <1>9 DEF Workspace
<1>10. CASE WorkspaceJob
  BY <1>10 DEF WorkspaceJob, NoJob
<1>11. CASE \E kind \in External : Cli(kind)
  BY <1>11 DEF Cli, Work
<1>12. CASE \E p \in AllParts : Falls(p) \/ Rises(p)
  BY <1>12 DEF Falls, Rises
<1>13. CASE Stopped
  <2>1. EndJob("well") \/ EndJob("badly") \/ Onward("off")
    BY <1>13, Stops
  <2>2. CASE Onward("off")
    BY <2>2 DEF Onward
  <2>3. ASSUME NEW r \in {"well", "badly"}, EndJob(r)
        PROVE  job'.kind = job.kind /\ job'.key = job.key
    BY <2>3 DEF EndJob, Busy
  <2> QED BY <2>1, <2>2, <2>3
<1>14. CASE Rising
  BY <1>14 DEF Rising, Fallen, Onward
<1>15. CASE Risen
  BY <1>15 DEF Risen, EndJob, NoJob
<1>16. CASE RollsBack
  BY <1>16 DEF RollsBack, Onward
<1>17. CASE Breaks
  BY <1>17 DEF Breaks, EndJob, NoJob
<1>18. CASE Look
  BY <1>18, Looks
<1>19. CASE PartDies
  BY <1>19 DEF PartDies
<1>20. CASE Crash
  BY <1>20 DEF Crash
<1>21. CASE UNCHANGED vars
  BY <1>21 DEF vars
<1> QED BY <1>1, <1>2, <1>3, <1>4, <1>5, <1>6, <1>7, <1>8, <1>9, <1>10, <1>11,
   <1>12, <1>13, <1>14, <1>15, <1>16, <1>17, <1>18, <1>19, <1>20, <1>21 DEF
   Next, Step, Request, Background, Job

\* What becomes active has not been begun before.
LEMMA NewlyActive ==
    ASSUME Orderly, [Next]_vars
    PROVE  \A k \in active' \ active : ran[k] = 0
<1>k. /\ {"free", "workspace", "cli", "none"} \cap (Keys \cup Clients) = {}
      /\ NoJob.key = "none" /\ NoJob.stage = "none" /\ NoJob.kind = "none"
      /\ NoRecord.state = "none" /\ NoRecord.kind = "none" /\ NoReq.phase = "none"
  BY OperationsAssumption DEF NoJob, NoRecord, NoReq
<1> USE <1>k DEF host, svc, hist, Orderly, TypeOK
<1>1. CASE \E c \in Clients, k \in Keys, kind \in Kinds : Lookup(c, k, kind)
  BY <1>1 DEF Lookup
<1>2. CASE \E c \in Clients : Create(c)
  BY <1>2 DEF Create, Admitted, Recorded, Refuse
<1>3. CASE \E c \in Clients : Launch(c)
  BY <1>3 DEF Launch, Requested, Created
<1>4. CASE \E k \in Keys : Take(k)
  BY <1>4 DEF Take, Work
<1>5. CASE \E k \in Keys : Unanswered(k)
  BY <1>5 DEF Unanswered
<1>6. CASE \E k \in Keys : Probed(k)
  BY <1>6 DEF Probed
<1>7. CASE \E k \in Keys : SaveEnd(k)
  BY <1>7 DEF SaveEnd
<1>8. CASE \E k \in Keys : Close(k)
  BY <1>8 DEF Close
<1>9. CASE Workspace
  BY <1>9 DEF Workspace
<1>10. CASE WorkspaceJob
  BY <1>10 DEF WorkspaceJob, NoJob
<1>11. CASE \E kind \in External : Cli(kind)
  BY <1>11 DEF Cli, Work
<1>12. CASE \E p \in AllParts : Falls(p) \/ Rises(p)
  BY <1>12 DEF Falls, Rises
<1>13. CASE Stopped
  <2>1. EndJob("well") \/ EndJob("badly") \/ Onward("off")
    BY <1>13, Stops
  <2>2. CASE Onward("off")
    BY <2>2 DEF Onward
  <2>3. ASSUME NEW r \in {"well", "badly"}, EndJob(r)
        PROVE  \A k \in active' \ active : ran[k] = 0
    BY <2>3 DEF EndJob
  <2> QED BY <2>1, <2>2, <2>3
<1>14. CASE Rising
  BY <1>14 DEF Rising, Fallen, Onward
<1>15. CASE Risen
  BY <1>15 DEF Risen, EndJob, NoJob
<1>16. CASE RollsBack
  BY <1>16 DEF RollsBack, Onward
<1>17. CASE Breaks
  BY <1>17 DEF Breaks, EndJob, NoJob
<1>18. CASE Look
  BY <1>18, Looks
<1>19. CASE PartDies
  BY <1>19 DEF PartDies
<1>20. CASE Crash
  BY <1>20 DEF Crash, NoReq, NoObs
<1>21. CASE UNCHANGED vars
  BY <1>21 DEF vars
<1> QED BY <1>1, <1>2, <1>3, <1>4, <1>5, <1>6, <1>7, <1>8, <1>9, <1>10, <1>11,
   <1>12, <1>13, <1>14, <1>15, <1>16, <1>17, <1>18, <1>19, <1>20, <1>21 DEF
   Next, Step, Request, Background, Job

\* A change of what is under way in a sample marks it.
LEMMA Unmoved ==
    ASSUME Orderly, obs \in Samples, [Next]_vars, Sampling, Sampling', ~obs'.moved
    PROVE  active' = active /\ (mu' = "workspace" <=> mu = "workspace")
<1>k. /\ {"free", "workspace", "cli", "none"} \cap (Keys \cup Clients) = {}
      /\ NoJob.key = "none" /\ NoJob.stage = "none" /\ NoJob.kind = "none"
      /\ NoRecord.state = "none" /\ NoRecord.kind = "none" /\ NoReq.phase = "none"
  BY OperationsAssumption DEF NoJob, NoRecord, NoReq
<1> USE <1>k DEF host, svc, hist, Orderly, TypeOK
<1>1. CASE \E c \in Clients, k \in Keys, kind \in Kinds : Lookup(c, k, kind)
  BY <1>1 DEF Lookup
<1>2. CASE \E c \in Clients : Create(c)
  BY <1>2 DEF Create, Admitted, Recorded, Refuse
<1>3. CASE \E c \in Clients : Launch(c)
  BY <1>3 DEF Launch, Moves, Sampling, Samples
<1>4. CASE \E k \in Keys : Take(k)
  BY <1>4 DEF Take, Work
<1>5. CASE \E k \in Keys : Unanswered(k)
  BY <1>5 DEF Unanswered
<1>6. CASE \E k \in Keys : Probed(k)
  BY <1>6 DEF Probed
<1>7. CASE \E k \in Keys : SaveEnd(k)
  BY <1>7 DEF SaveEnd
<1>8. CASE \E k \in Keys : Close(k)
  BY <1>8 DEF Close, Moves, Sampling, Samples
<1>9. CASE Workspace
  BY <1>9 DEF Workspace, Moves, Sampling, Samples
<1>10. CASE WorkspaceJob
  BY <1>10 DEF WorkspaceJob, NoJob
<1>11. CASE \E kind \in External : Cli(kind)
  BY <1>11 DEF Cli, Work
<1>12. CASE \E p \in AllParts : Falls(p) \/ Rises(p)
  BY <1>12 DEF Falls, Rises
<1>13. CASE Stopped
  <2>1. EndJob("well") \/ EndJob("badly") \/ Onward("off")
    BY <1>13, Stops
  <2>2. CASE Onward("off")
    BY <2>2 DEF Onward
  <2>3. ASSUME NEW r \in {"well", "badly"}, EndJob(r)
        PROVE  active' = active /\ (mu' = "workspace" <=> mu = "workspace")
    BY <2>3 DEF EndJob
  <2> QED BY <2>1, <2>2, <2>3
<1>14. CASE Rising
  BY <1>14 DEF Rising, Fallen, Onward
<1>15. CASE Risen
  BY <1>15 DEF Risen, EndJob, NoJob
<1>16. CASE RollsBack
  BY <1>16 DEF RollsBack, Onward
<1>17. CASE Breaks
  BY <1>17 DEF Breaks, EndJob, NoJob
<1>18. CASE Look
  BY <1>18, Looks
<1>19. CASE PartDies
  BY <1>19 DEF PartDies
<1>20. CASE Crash
  BY <1>20 DEF Crash, NoObs, Sampling
<1>21. CASE UNCHANGED vars
  BY <1>21 DEF vars
<1> QED BY <1>1, <1>2, <1>3, <1>4, <1>5, <1>6, <1>7, <1>8, <1>9, <1>10, <1>11,
   <1>12, <1>13, <1>14, <1>15, <1>16, <1>17, <1>18, <1>19, <1>20, <1>21 DEF
   Next, Step, Request, Background, Job

\* An operation under way keeps its kind.
LEMMA KindKept ==
    ASSUME Orderly, Underways, [Next]_vars
    PROVE  \A k \in active : record'[k].kind = record[k].kind
<1>k. /\ {"free", "workspace", "cli", "none"} \cap (Keys \cup Clients) = {}
      /\ NoJob.key = "none" /\ NoJob.stage = "none" /\ NoJob.kind = "none"
      /\ NoRecord.state = "none" /\ NoRecord.kind = "none" /\ NoReq.phase = "none"
  BY OperationsAssumption DEF NoJob, NoRecord, NoReq
<1> USE <1>k DEF host, svc, hist, Orderly, TypeOK
<1>1. CASE \E c \in Clients, k \in Keys, kind \in Kinds : Lookup(c, k, kind)
  BY <1>1 DEF Lookup
<1>2. CASE \E c \in Clients : Create(c)
  <2>1. PICK c \in Clients : Create(c)
    BY <1>2
  <2>2. \A k \in active : ran[k] # 0
    BY DEF Underways, Begun
  <2> QED BY <2>1, <2>2, OnlyNew DEF Create, Underways
<1>3. CASE \E c \in Clients : Launch(c)
  BY <1>3 DEF Launch, Refuse
<1>4. CASE \E k \in Keys : Take(k)
  BY <1>4 DEF Take, Work
<1>5. CASE \E k \in Keys : Unanswered(k)
  BY <1>5 DEF Unanswered
<1>6. CASE \E k \in Keys : Probed(k)
  BY <1>6 DEF Probed
<1>7. CASE \E k \in Keys : SaveEnd(k)
  BY <1>7 DEF SaveEnd
<1>8. CASE \E k \in Keys : Close(k)
  BY <1>8 DEF Close
<1>9. CASE Workspace
  BY <1>9 DEF Workspace
<1>10. CASE WorkspaceJob
  BY <1>10 DEF WorkspaceJob, NoJob
<1>11. CASE \E kind \in External : Cli(kind)
  BY <1>11 DEF Cli, Work
<1>12. CASE \E p \in AllParts : Falls(p) \/ Rises(p)
  BY <1>12 DEF Falls, Rises
<1>13. CASE Stopped
  <2>1. EndJob("well") \/ EndJob("badly") \/ Onward("off")
    BY <1>13, Stops
  <2>2. CASE Onward("off")
    BY <2>2 DEF Onward
  <2>3. ASSUME NEW r \in {"well", "badly"}, EndJob(r)
        PROVE  \A k \in active : record'[k].kind = record[k].kind
    BY <2>3 DEF EndJob
  <2> QED BY <2>1, <2>2, <2>3
<1>14. CASE Rising
  BY <1>14 DEF Rising, Fallen, Onward
<1>15. CASE Risen
  BY <1>15 DEF Risen, EndJob, NoJob
<1>16. CASE RollsBack
  BY <1>16 DEF RollsBack, Onward
<1>17. CASE Breaks
  BY <1>17 DEF Breaks, EndJob, NoJob
<1>18. CASE Look
  BY <1>18, Looks
<1>19. CASE PartDies
  BY <1>19 DEF PartDies
<1>20. CASE Crash
  BY <1>20 DEF Crash, NoReq, NoObs
<1>21. CASE UNCHANGED vars
  BY <1>21 DEF vars
<1> QED BY <1>1, <1>2, <1>3, <1>4, <1>5, <1>6, <1>7, <1>8, <1>9, <1>10, <1>11,
   <1>12, <1>13, <1>14, <1>15, <1>16, <1>17, <1>18, <1>19, <1>20, <1>21 DEF
   Next, Step, Request, Background, Job

\* Where no other job is at work and no operation of the service is to be
\* shown, the gateway changes only by processes that die.
LEMMA WorldQuiet ==
    ASSUME Orderly, Underways, [Next]_vars, ~Foreign, Shows = {}
    PROVE  file' = file /\ up' \subseteq up
<1>k. /\ {"free", "workspace", "cli", "none"} \cap (Keys \cup Clients) = {}
      /\ NoJob.key = "none" /\ NoJob.stage = "none" /\ NoJob.kind = "none"
      /\ NoRecord.state = "none" /\ NoRecord.kind = "none" /\ NoReq.phase = "none"
  BY OperationsAssumption DEF NoJob, NoRecord, NoReq
<1> USE <1>k DEF host, svc, hist, Orderly, TypeOK
<1>q. job.stage = "none"
  <2> SUFFICES ASSUME job.stage # "none" PROVE FALSE
    BY DEF WorldType
  <2>1. job.kind \in GatewayKinds
    BY DEF Working
  <2>2. job.key \in active /\ job.key \in Keys
    BY <2>1 DEF Foreign
  <2>3. Kind(job.key) = job.kind
    BY <2>2 DEF Underways
  <2> QED BY <2>1, <2>2, <2>3 DEF Shows
<1>1. CASE \E c \in Clients, k \in Keys, kind \in Kinds : Lookup(c, k, kind)
  BY <1>1 DEF Lookup
<1>2. CASE \E c \in Clients : Create(c)
  BY <1>2 DEF Create, Admitted, Recorded, Refuse
<1>3. CASE \E c \in Clients : Launch(c)
  BY <1>3 DEF Launch, Refuse
<1>4. CASE \E k \in Keys : Take(k)
  BY <1>4 DEF Take, Work
<1>5. CASE \E k \in Keys : Unanswered(k)
  BY <1>5 DEF Unanswered
<1>6. CASE \E k \in Keys : Probed(k)
  BY <1>6 DEF Probed
<1>7. CASE \E k \in Keys : SaveEnd(k)
  BY <1>7 DEF SaveEnd
<1>8. CASE \E k \in Keys : Close(k)
  BY <1>8 DEF Close
<1>9. CASE Workspace
  BY <1>9 DEF Workspace
<1>10. CASE WorkspaceJob
  BY <1>10 DEF WorkspaceJob, NoJob
<1>11. CASE \E kind \in External : Cli(kind)
  BY <1>11 DEF Cli, Work
<1>12. CASE \E p \in AllParts : Falls(p) \/ Rises(p)
  <2>1. job.stage # "none"
    BY <1>12 DEF Falls, Rises, Stopped, Rising, Fallen
  <2> QED BY <2>1, <1>q
<1>13. CASE Stopped
  <2>1. job.stage # "none"
    BY <1>13 DEF Falls, Rises, Stopped, Rising, Fallen
  <2> QED BY <2>1, <1>q
<1>14. CASE Rising
  <2>1. job.stage # "none"
    BY <1>14 DEF Falls, Rises, Stopped, Rising, Fallen
  <2> QED BY <2>1, <1>q
<1>15. CASE Risen
  BY <1>15 DEF Risen, EndJob, NoJob
<1>16. CASE RollsBack
  BY <1>16 DEF RollsBack, Onward
<1>17. CASE Breaks
  BY <1>17 DEF Breaks, EndJob, NoJob
<1>18. CASE Look
  BY <1>18, Looks
<1>19. CASE PartDies
  BY <1>19 DEF PartDies
<1>20. CASE Crash
  BY <1>20 DEF Crash, NoReq, NoObs
<1>21. CASE UNCHANGED vars
  BY <1>21 DEF vars
<1> QED BY <1>1, <1>2, <1>3, <1>4, <1>5, <1>6, <1>7, <1>8, <1>9, <1>10, <1>11,
   <1>12, <1>13, <1>14, <1>15, <1>16, <1>17, <1>18, <1>19, <1>20, <1>21 DEF
   Next, Step, Request, Background, Job

\* What a step may do to a sample.
LEMMA SampleMoves ==
    ASSUME Orderly, obs \in Samples, [Next]_vars
    PROVE  Look \/ obs' = obs \/ obs' = NoObs
           \/ (Sampling /\ obs'.moved /\ obs' = [obs EXCEPT !.moved = TRUE])
<1>k. /\ {"free", "workspace", "cli", "none"} \cap (Keys \cup Clients) = {}
      /\ NoJob.key = "none" /\ NoJob.stage = "none" /\ NoJob.kind = "none"
      /\ NoRecord.state = "none" /\ NoRecord.kind = "none" /\ NoReq.phase = "none"
  BY OperationsAssumption DEF NoJob, NoRecord, NoReq
<1> USE <1>k DEF host, svc, hist, Orderly, TypeOK
<1>1. CASE \E c \in Clients, k \in Keys, kind \in Kinds : Lookup(c, k, kind)
  BY <1>1 DEF Lookup
<1>2. CASE \E c \in Clients : Create(c)
  BY <1>2 DEF Create, Admitted, Recorded, Refuse
<1>3. CASE \E c \in Clients : Launch(c)
  BY <1>3 DEF Launch, Moves, Samples
<1>4. CASE \E k \in Keys : Take(k)
  BY <1>4 DEF Take, Work
<1>5. CASE \E k \in Keys : Unanswered(k)
  BY <1>5 DEF Unanswered
<1>6. CASE \E k \in Keys : Probed(k)
  BY <1>6 DEF Probed
<1>7. CASE \E k \in Keys : SaveEnd(k)
  BY <1>7 DEF SaveEnd
<1>8. CASE \E k \in Keys : Close(k)
  BY <1>8 DEF Close, Moves, Samples
<1>9. CASE Workspace
  BY <1>9 DEF Workspace, Moves, Samples
<1>10. CASE WorkspaceJob
  BY <1>10 DEF WorkspaceJob, NoJob
<1>11. CASE \E kind \in External : Cli(kind)
  BY <1>11 DEF Cli, Work
<1>12. CASE \E p \in AllParts : Falls(p) \/ Rises(p)
  BY <1>12 DEF Falls, Rises
<1>13. CASE Stopped
  <2>1. EndJob("well") \/ EndJob("badly") \/ Onward("off")
    BY <1>13, Stops
  <2> QED BY <2>1 DEF EndJob, Onward
<1>14. CASE Rising
  BY <1>14 DEF Rising, Fallen, Onward
<1>15. CASE Risen
  BY <1>15 DEF Risen, EndJob, NoJob
<1>16. CASE RollsBack
  BY <1>16 DEF RollsBack, Onward
<1>17. CASE Breaks
  BY <1>17 DEF Breaks, EndJob, NoJob
<1>18. CASE Look
  BY <1>18
<1>19. CASE PartDies
  BY <1>19 DEF PartDies
<1>20. CASE Crash
  BY <1>20 DEF Crash, NoObs
<1>21. CASE UNCHANGED vars
  BY <1>21 DEF vars
<1> QED BY <1>1, <1>2, <1>3, <1>4, <1>5, <1>6, <1>7, <1>8, <1>9, <1>10, <1>11,
   <1>12, <1>13, <1>14, <1>15, <1>16, <1>17, <1>18, <1>19, <1>20, <1>21 DEF
   Next, Step, Request, Background, Job

\* How the history of an attempt goes on.
LEMMA UnseenSteps ==
    ASSUME unseen' = Unseen, obs'.phase \notin {"idle", "begun"},
           unseen \in {"no", "began", "hidden"}
    PROVE  /\ unseen' # "hidden" => unseen # "hidden" /\ ~(Foreign' /\ Known')
           /\ unseen' = "no" => unseen = "no" /\ ~(~Busy /\ Foreign')
           /\ unseen = "began" /\ unseen' # "hidden" => Busy' /\ unseen' = "began"
           /\ unseen' = "began" => (unseen = "began" /\ Busy') \/ Foreign'
<1>1. CASE unseen = "hidden"
  BY <1>1 DEF Unseen
<1>2. CASE unseen # "hidden"
  BY <1>2 DEF Unseen
<1> QED BY <1>1, <1>2

\* A job of the gateway holds the file lock.
LEMMA ForeignBusy == Foreign => Busy
  BY DEF Foreign, Busy, NoJob, GatewayKinds

\* Another's job stays another's until it ends.
LEMMA ForeignStays ==
    ASSUME Orderly, [Next]_vars, Foreign, Busy'
    PROVE  Foreign'
<1>1. Busy
  BY ForeignBusy
<1>2. job'.kind = job.kind /\ job'.key = job.key
  BY <1>1, JobHolds
<1>3. \A k \in active' \ active : ran[k] = 0
  BY NewlyActive
<1>4. active' \subseteq Keys
  BY OrderlyStep DEF Orderly, TypeOK
<1>5. \A k \in Keys : ran[k] = 0 => job.key # k
  BY DEF Orderly, Begun
<1> QED BY <1>2, <1>3, <1>4, <1>5 DEF Foreign

\* What each step of the observer leaves of the sample.
LEMMA LookMoves ==
    ASSUME obs \in Samples
    PROVE  /\ Observe \/ Again => /\ obs'.phase = "begun" /\ obs'.up = {}
                                 /\ obs'.next = 1 /\ obs'.shown = "none"
           /\ LockBefore => /\ obs.phase = "begun" /\ obs'.phase = "file"
                            /\ UNCHANGED <<obs.up, obs.next, obs.shown>>
           /\ ReadFile \/ ReadPart => obs'.phase = "parts" /\ obs'.shown = obs.shown
           /\ ActivityAfter => obs'.phase = "checked"
           /\ Answer => obs'.phase = "idle" /\ obs'.shown = "none"
<1>1. Observe \/ Again => /\ obs'.phase = "begun" /\ obs'.up = {}
                         /\ obs'.next = 1 /\ obs'.shown = "none"
  BY DEF Observe, Again, Sample, NoObs
<1>2. LockBefore => /\ obs.phase = "begun" /\ obs'.phase = "file"
                    /\ UNCHANGED <<obs.up, obs.next, obs.shown>>
  BY DEF LockBefore, Sample, Samples
<1>3. ReadFile \/ ReadPart => obs'.phase = "parts" /\ obs'.shown = obs.shown
  BY DEF ReadFile, ReadPart, Sample, Samples
<1>4. ActivityAfter => obs'.phase = "checked"
  BY DEF ActivityAfter, Sample, Samples
<1>5. Answer => obs'.phase = "idle" /\ obs'.shown = "none"
  BY DEF Answer, Sample, NoObs
<1> QED BY <1>1, <1>2, <1>3, <1>4, <1>5

\* An attempt goes on by reading one thing more.
LEMMA GoesOn ==
    ASSUME Orderly, obs \in Samples, [Next]_vars,
           obs'.phase \in {"file", "parts"}, ~obs'.moved
    PROVE  LockBefore \/ ReadFile \/ ReadPart \/ (obs' = obs)
<1>1. CASE Look
  BY <1>1, LookMoves DEF Look
<1>2. CASE Sampling /\ obs'.moved /\ obs' = [obs EXCEPT !.moved = TRUE]
  BY <1>2
<1>3. CASE obs' = NoObs
  BY <1>3 DEF NoObs
<1> QED BY <1>1, <1>2, <1>3, SampleMoves

\* A sample becomes complete by one step and is then kept.
LEMMA Completes ==
    ASSUME Orderly, obs \in Samples, [Next]_vars, obs'.phase = "checked"
    PROVE  ActivityAfter \/ (obs' = obs)
<1>1. CASE Look
  BY <1>1, LookMoves DEF Look
<1>2. CASE Sampling /\ obs'.moved /\ obs' = [obs EXCEPT !.moved = TRUE]
  BY <1>2 DEF Sampling, Samples
<1>3. CASE obs' = NoObs
  BY <1>3 DEF NoObs
<1> QED BY <1>1, <1>2, <1>3, SampleMoves

\* What has been read goes on to hold.
LEMMA TrustedStep ==
    ASSUME Orderly, obs \in Samples, WorldType, Underways, Watching, Next,
           unseen \in {"no", "began", "hidden"}
    PROVE  Trusted'
<1> SUFFICES ASSUME obs'.phase \in {"file", "parts"}, ~obs'.moved, unseen' = "no",
                    Shows' = {}, ~obs'.busy \/ Known'
             PROVE  ~Foreign' /\ Agrees'
  BY DEF Trusted
<1>1. /\ unseen = "no" /\ ~(Foreign' /\ Known') /\ ~(~Busy /\ Foreign')
  BY UnseenSteps DEF Next
<1>2. [Next]_vars
  OBVIOUS
<1>3. CASE LockBefore
  <2>1. /\ obs.phase = "begun" /\ UNCHANGED <<record, svc, host, hist>>
        /\ obs' = [obs EXCEPT !.phase = "file", !.busy = Busy, !.was = World]
    BY <1>3 DEF LockBefore, Sample
  <2>2. /\ obs'.phase = "file" /\ obs'.busy = Busy /\ obs'.was = World
        /\ obs'.up = {} /\ obs'.next = 1
    BY <2>1 DEF Samples, Watching
  <2>3. UNCHANGED <<file, up>> /\ (Foreign' = Foreign) /\ (Known' = Known)
    BY <2>1 DEF svc, host, Foreign, Known
  <2>4. ~Foreign'
    BY <1>1, <2>2, <2>3, ForeignBusy
  <2>5. file /\ World # "running" => ~(AllParts \subseteq up)
    <3>1. file \in BOOLEAN /\ up \subseteq AllParts
      BY DEF WorldType
    <3> QED BY ONLY <3>1 DEF World
  <2>6. \A i \in 1..Len(Parts) : ~(i < 1)
    OBVIOUS
  <2>7. Agrees'
    BY <2>2, <2>3, <2>5, <2>6 DEF Agrees
  <2> QED BY <2>4, <2>7
<1>4. CASE ReadFile \/ ReadPart \/ (obs' = obs)
  <2>1. /\ obs.phase \in {"file", "parts"} /\ obs'.busy = obs.busy
        /\ ~obs.moved /\ obs'.was = obs.was
    BY <1>4 DEF ReadFile, ReadPart, Sample, Samples
  <2>2. Sampling /\ Sampling'
    BY <2>1 DEF Sampling
  <2>3. active' = active /\ Known' = Known
    BY <1>2, <2>2, Unmoved DEF Known
  <2>4. \A k \in active : record'[k].kind = record[k].kind
    BY <1>2, KindKept
  <2>5. Shows = {}
    BY <2>3, <2>4 DEF Shows, Kind
  <2>6. ~Foreign /\ Agrees
    BY <1>1, <2>1, <2>3, <2>5 DEF Watching, Trusted
  <2>7. file' = file /\ up' \subseteq up
    BY <1>2, <2>5, <2>6, WorldQuiet
  <2>8. ~Foreign'
    <3> SUFFICES ASSUME Foreign' PROVE FALSE
      OBVIOUS
    <3>1. Busy /\ Busy'
      BY <1>1 DEF Foreign, Busy, NoJob, GatewayKinds
    <3>2. job'.kind = job.kind /\ job'.key = job.key
      BY <1>2, <3>1, JobHolds
    <3> QED BY <2>3, <2>6, <3>2 DEF Foreign
  <2>9. obs.next \in Nat /\ obs.up \subseteq AllParts
    BY DEF Samples
  <2>10. CASE obs' = obs
    BY <2>6, <2>7, <2>8, <2>10 DEF Agrees
  <2>11. CASE ReadFile
    <3>1. obs' = [obs EXCEPT !.phase = "parts", !.file = file]
      BY <2>11 DEF ReadFile, Sample
    <3>2. /\ obs'.file = file /\ obs'.up = obs.up /\ obs'.next = obs.next
      BY <3>1 DEF Samples
    <3> QED BY <2>1, <2>6, <2>7, <2>8, <3>2 DEF Agrees
  <2>12. CASE ReadPart
    <3>1. /\ obs.phase = "parts"
          /\ obs' = [obs EXCEPT !.next = @ + 1, !.up = @ \cup ({Parts[obs.next]} \cap up)]
      BY <2>12 DEF ReadPart, Sample
    <3>2. /\ obs'.file = obs.file /\ obs'.next = obs.next + 1
          /\ obs'.up = obs.up \cup ({Parts[obs.next]} \cap up)
      BY <3>1 DEF Samples
    <3>3. \A i \in 1..Len(Parts) : i < obs.next + 1 => i < obs.next \/ i = obs.next
      BY <2>9
    <3>4. obs.file = file
      BY <2>6, <3>1 DEF Agrees
    <3>5. file => obs.was = "running" \/ ~(AllParts \subseteq obs.up \cup up)
      BY <2>6 DEF Agrees
    <3>6. \A i \in 1..Len(Parts) : i < obs.next => Parts[i] \in obs.up \/ Parts[i] \notin up
      BY <2>6 DEF Agrees
    <3>7. obs'.up \cup up' \subseteq obs.up \cup up
      BY <2>7, <3>2
    <3>8. \A i \in 1..Len(Parts) : i < obs'.next => Parts[i] \in obs'.up \/ Parts[i] \notin up'
      BY <2>7, <3>2, <3>3, <3>6
    <3>9. file' /\ obs'.was # "running" => ~(AllParts \subseteq obs'.up \cup up')
      BY <2>1, <2>7, <3>5, <3>7
    <3> QED BY <2>7, <2>8, <3>2, <3>4, <3>8, <3>9 DEF Agrees
  <2> QED BY <1>4, <2>8, <2>10, <2>11, <2>12
<1> QED BY <1>2, <1>3, <1>4, GoesOn

\* A sample that agrees with the gateway when it is complete says the truth.
LEMMA Complete ==
    ASSUME Agrees, obs \in Samples, WorldType, obs.phase = "parts",
           obs.next > Len(Parts)
    PROVE  IF Sampled = "running" THEN obs.was = "running" ELSE World = Sampled
<1>1. obs.file = file /\ obs.up \subseteq AllParts /\ obs.next \in Nat
  BY DEF Agrees, Samples
<1>2. CASE ~file
  BY <1>1, <1>2 DEF Sampled, World
<1>3. CASE file /\ obs.up = AllParts
  BY <1>1, <1>3 DEF Sampled, Agrees
<1>4. CASE file /\ obs.up # AllParts
  <2>1. PICK i \in 1..Len(Parts) : Parts[i] \notin obs.up
    BY <1>1, <1>4 DEF AllParts
  <2>2. i < obs.next
    BY <1>1, OperationsAssumption
  <2>3. Parts[i] \notin up /\ Parts[i] \in AllParts
    BY <2>1, <2>2 DEF Agrees, AllParts
  <2> QED BY <1>1, <1>4, <2>3 DEF Sampled, World
<1> QED BY <1>1, <1>2, <1>3, <1>4 DEF WorldType

\* What a complete sample says stays said.
LEMMA JudgedStep ==
    ASSUME Orderly, obs \in Samples, WorldType, Underways, Watching, Next,
           unseen \in {"no", "began", "hidden"}
    PROVE  Judged'
<1> SUFFICES ASSUME obs'.phase = "checked", ~obs'.moved, unseen' # "hidden",
                    obs'.shown = "none", ~obs'.busy \/ obs'.known
             PROVE  Verdict' \/ (unseen' = "began" /\ ~obs'.busy)
  BY DEF Judged
<1>1. /\ unseen # "hidden" /\ ~(Foreign' /\ Known')
      /\ unseen = "began" => Busy' /\ unseen' = "began"
  BY UnseenSteps DEF Next
<1>2. [Next]_vars
  OBVIOUS
<1>3. CASE ActivityAfter
  <2>1. PICK shown \in {Kind(k) : k \in Shows}
                     \cup (IF Shows = {} THEN {"none"} ELSE {}) :
          /\ obs' = [obs EXCEPT !.phase = "checked", !.known = Known,
                                !.shown = shown, !.is = World]
          /\ UNCHANGED <<record, svc, host, hist>>
    BY <1>3 DEF ActivityAfter, Sample
  <2>2. /\ obs'.shown = shown /\ obs'.known = Known /\ obs'.is = World
        /\ obs'.busy = obs.busy /\ obs'.moved = obs.moved /\ obs'.was = obs.was
        /\ obs'.file = obs.file /\ obs'.up = obs.up
    BY <2>1 DEF Samples
  <2>3. Shows = {}
    BY <2>1, <2>2 DEF Shows, GatewayKinds
  <2>4. obs.phase = "parts" /\ obs.next > Len(Parts)
    BY <1>3 DEF ActivityAfter
  <2>5. (Foreign' = Foreign) /\ (Known' = Known)
    BY <2>1 DEF svc, host, Foreign, Known
  <2>6. CASE unseen = "no"
    <3>1. Agrees
      BY <2>2, <2>3, <2>4, <2>6 DEF Watching, Trusted
    <3>2. IF Sampled = "running" THEN obs.was = "running" ELSE World = Sampled
      BY <2>4, <3>1, Complete
    <3>3. Sampled' = Sampled
      BY <2>2 DEF Sampled
    <3> QED BY <2>2, <3>2, <3>3 DEF Verdict
  <2>7. CASE unseen = "began"
    <3>1. Foreign
      BY <2>7 DEF Watching
    <3> QED BY <1>1, <2>2, <2>5, <2>7, <3>1
  <2> QED BY <1>1, <2>6, <2>7
<1>4. CASE obs' = obs
  <2>1. Verdict \/ (unseen = "began" /\ ~obs.busy)
    BY <1>1, <1>4 DEF Watching, Judged
  <2>2. Verdict' = Verdict
    BY <1>4 DEF Verdict, Sampled
  <2> QED BY <1>1, <1>4, <2>1, <2>2
<1> QED BY <1>2, <1>3, <1>4, Completes

\* What the observer relies on is kept.
LEMMA WatchingStep ==
    ASSUME Orderly, Underways, Watching, [Next]_vars
    PROVE  Watching'
<1>1. /\ WorldType /\ obs \in Samples /\ unseen \in {"no", "began", "hidden"}
  BY TypeParts DEF Orderly
<1>2. CASE UNCHANGED vars
  BY <1>2 DEF vars, svc, host, hist, Watching, Trusted, Judged, Foreign, Known,
     Agrees, Verdict, Sampled, Shows, Kind
<1>3. CASE Next
  <2>1. Trusted' /\ Judged'
    BY <1>1, <1>3, TrustedStep, JudgedStep
  <2>2. Look \/ obs' = obs \/ obs' = NoObs
        \/ (Sampling /\ obs'.moved /\ obs' = [obs EXCEPT !.moved = TRUE])
    BY <1>1, SampleMoves
  <2>3. obs'.phase \in {"begun", "file"} => obs'.up = {} /\ obs'.next = 1
    <3>1. CASE Look
      BY <1>1, <3>1, LookMoves DEF Watching, Look
    <3>2. CASE obs' = obs \/ (obs' = [obs EXCEPT !.moved = TRUE])
      BY <1>1, <3>2 DEF Watching, Samples
    <3>3. CASE obs' = NoObs
      BY <3>3 DEF NoObs
    <3> QED BY <2>2, <3>1, <3>2, <3>3
  <2>4. ASSUME unseen' = "began" PROVE Foreign'
    <3>1. CASE obs'.phase \in {"idle", "begun"}
      BY <1>3, <2>4, <3>1 DEF Next, Unseen
    <3>2. CASE obs'.phase \notin {"idle", "begun"}
      <4>1. (unseen = "began" /\ Busy') \/ Foreign'
        BY <1>1, <1>3, <2>4, <3>2, UnseenSteps DEF Next
      <4> QED BY <4>1, ForeignStays DEF Watching
    <3> QED BY <3>1, <3>2
  <2>5. obs'.shown \in GatewayKinds \cup {"none"}
    <3>1. CASE ActivityAfter
      <4>1. PICK shown \in {Kind(k) : k \in Shows}
                         \cup (IF Shows = {} THEN {"none"} ELSE {}) :
              obs' = [obs EXCEPT !.phase = "checked", !.known = Known,
                                 !.shown = shown, !.is = World]
        BY <3>1 DEF ActivityAfter, Sample
      <4> QED BY <1>1, <4>1 DEF Samples, Shows
    <3>2. CASE Look /\ ~ActivityAfter
      BY <1>1, <3>2, LookMoves DEF Watching, Look
    <3>3. CASE obs' = obs \/ (obs' = [obs EXCEPT !.moved = TRUE])
      BY <1>1, <3>3 DEF Watching, Samples
    <3>4. CASE obs' = NoObs
      BY <3>4 DEF NoObs
    <3> QED BY <2>2, <3>1, <3>2, <3>3, <3>4
  <2> QED BY <2>1, <2>3, <2>4, <2>5 DEF Watching
<1> QED BY <1>2, <1>3

\* Before the first request nothing is under way and nothing is sampled.
LEMMA WatchingInit == Init => Underways /\ Watching
<1> SUFFICES ASSUME Init PROVE Underways /\ Watching
  OBVIOUS
<1>1. "none" \notin Keys
  BY OperationsAssumption
<1>2. Underways
  BY <1>1 DEF Init, Underways, NoJob
<1>3. obs.phase = "idle" /\ obs.shown = "none" /\ unseen = "no"
  BY DEF Init, NoObs
<1> QED BY <1>2, <1>3 DEF Watching, Trusted, Judged

\* In every reachable state.
THEOREM WatchingAlways == Spec => [](Orderly /\ Underways /\ Watching)
<1> QED BY OrderlyInit, OrderlyStep, WatchingInit, UnderwaysStep, WatchingStep,
           PTL DEF Spec

\* What a step shows of the gateway.
LEMMA ShownStep ==
    ASSUME Orderly, Underways, Watching
    PROVE  /\ unseen # "hidden" =>
                 /\ \A view \in {"degraded", "stopped"} : Shown(view) => obs.is = view
                 /\ Shown("running") => obs.was = "running"
           /\ ActivityAfter /\ obs'.shown # "none" => Underway(obs'.shown)
<1>1. obs \in Samples
  BY TypeParts DEF Orderly
<1>2. ASSUME unseen # "hidden", NEW view \in {"degraded", "stopped", "running"},
             Shown(view)
      PROVE  Verdict /\ view = Sampled
  <2>1. obs.phase = "checked" /\ view = View
    BY <1>2 DEF Shown
  <2>2. ~Changed /\ obs.shown = "none" /\ ~(Busy /\ ~obs.known) /\ view = Sampled
    BY <1>2, <2>1 DEF View, Watching, GatewayKinds
  <2>3. ~obs.moved /\ obs.busy = Busy
    BY <2>2 DEF Changed
  <2>4. Verdict \/ (unseen = "began" /\ ~obs.busy)
    BY <1>1, <1>2, <2>1, <2>2, <2>3 DEF Watching, Judged, Samples
  <2>5. unseen = "began" => Busy
    BY ForeignBusy DEF Watching
  <2> QED BY <2>2, <2>3, <2>4, <2>5
<1>3. ASSUME ActivityAfter, obs'.shown # "none" PROVE Underway(obs'.shown)
  <2>1. PICK shown \in {Kind(k) : k \in Shows}
                     \cup (IF Shows = {} THEN {"none"} ELSE {}) :
          obs' = [obs EXCEPT !.phase = "checked", !.known = Known,
                             !.shown = shown, !.is = World]
    BY <1>3 DEF ActivityAfter, Sample
  <2>2. obs'.shown = shown
    BY <1>1, <2>1 DEF Samples
  <2>3. PICK k \in Shows : shown = Kind(k)
    BY <1>3, <2>1, <2>2
  <2> QED BY <2>2, <2>3 DEF Shows, Underways, Underway
<1> QED BY <1>2, <1>3 DEF Verdict

\* What the interface shows of the gateway holds: the sample that deriveGateway-
\* Presentation (controlapi/gateway_presentation.go) judges was not disturbed, but
\* for another's job that came and went in it or worked beside the service's own.
THEOREM ShownIsTrueAlways == Spec => ShownIsTrue
<1>1. Orderly /\ Underways /\ Watching =>
        [/\ unseen # "hidden" =>
              /\ \A view \in {"degraded", "stopped"} : Shown(view) => obs.is = view
              /\ Shown("running") => obs.was = "running"
         /\ ActivityAfter /\ obs'.shown # "none" => Underway(obs'.shown)]_vars
  BY ShownStep
<1> QED BY <1>1, WatchingAlways, PTL DEF Spec, ShownIsTrue
=============================================================================
