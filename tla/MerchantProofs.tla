--------------------------- MODULE MerchantProofs --------------------------
(***************************************************************************)
(* Proofs about the records of merchants, for any number of requests,      *)
(* merchants, addresses and starts: first the sessions, then the device,   *)
(* then accounts, wallets and the seed.                                    *)
(***************************************************************************)
EXTENDS MerchantProperties, TLAPS

-----------------------------------------------------------------------------
(* Sessions *)

Open == { "open", "flushed" }

\* What had ended when a request began has ended.
SessionInv ==
  /\ asked \in Workload /\ RequestTypeOK
  /\ \A q \in Request : before[q] \subseteq Ended

\* A request that goes on from one stage to a later one.
LEMMA AdvanceSession ==
  ASSUME SessionInv, asked' = asked,
         NEW r \in Request, NEW from \in Open,
         NEW next \in { "flushed", "refused", "done" }, Advance(r, from, next)
  PROVE  /\ SessionInv'
         /\ stage[r] = from /\ stage'[r] = next /\ before' = before
         /\ \A q \in Request : q # r => stage'[q] = stage[q]
         /\ \A q \in Request : r \notin before[q]
<1>1. /\ stage[r] = from /\ stage'[r] = next /\ before' = before
      /\ \A q \in Request : q # r => stage'[q] = stage[q]
  BY DEF SessionInv, RequestTypeOK, Advance
<1>2. \A q \in Request : r \notin before[q]
  BY <1>1 DEF SessionInv, Ended, Open
<1>3. RequestTypeOK'
  BY DEF SessionInv, RequestTypeOK, Advance, Stage
<1>4. QED
  BY <1>1, <1>2, <1>3 DEF SessionInv, Ended, Open

\* A request that begins, or is refused at once.
LEMMA BeginSession ==
  ASSUME SessionInv, asked' = asked,
         NEW r \in Request, NEW next \in { "open", "refused" }, Begin(r, next)
  PROVE  /\ SessionInv'
         /\ stage[r] = "new" /\ stage'[r] = next /\ before'[r] = Ended
         /\ \A q \in Request : q # r => stage'[q] = stage[q] /\ before'[q] = before[q]
<1>1. /\ stage[r] = "new" /\ stage'[r] = next /\ before'[r] = Ended
      /\ \A q \in Request : q # r => stage'[q] = stage[q] /\ before'[q] = before[q]
  BY DEF SessionInv, RequestTypeOK, Begin
<1>2. RequestTypeOK'
  BY DEF SessionInv, RequestTypeOK, Begin, Stage, Ended
<1>3. QED
  BY <1>1, <1>2 DEF SessionInv, Ended

\* A stop refuses what is open.
LEMMA StopSession ==
  ASSUME SessionInv, asked' = asked, RollBack
  PROVE  /\ SessionInv' /\ before' = before
         /\ \A q \in Request :
              \/ stage'[q] = stage[q] /\ stage[q] \notin Open
              \/ stage[q] \in Open /\ stage'[q] = "refused"
<1>1. /\ before' = before
      /\ \A q \in Request :
           \/ stage'[q] = stage[q] /\ stage[q] \notin Open
           \/ stage[q] \in Open /\ stage'[q] = "refused"
  BY DEF RollBack, Open
<1>2. RequestTypeOK'
  BY DEF SessionInv, RequestTypeOK, RollBack, Stage
<1>3. QED
  BY <1>1, <1>2 DEF SessionInv, Ended, Open

-----------------------------------------------------------------------------
(* The device *)

\* What a request answered for the device.
Answers(r) == stage[r] = "done" /\ asked[r].op \in DeviceOps

\* One request at a time holds the row; only device requests flush apart from
\* their commit.
OneFlushed ==
  /\ \A r \in Request : stage[r] = "flushed" => asked[r].op \in DeviceOps
  /\ \A r, q \in Request : stage[r] = "flushed" /\ stage[q] = "flushed" => r = q

\* A request that holds the row has read what is still there.
FlushedIsFresh ==
  \A r \in Request :
    stage[r] = "flushed" =>
      /\ loaded[r].info = info
      /\ loaded[r].device = Null <=> device = Null

\* Row and information are inserted together, and written by answered requests.
WrittenByAnswered ==
  /\ device = Null <=> info = Null
  /\ device # Null => Answers(device.by) /\ Answers(info.by)
  /\ \A r \in Request : Answers(r) => device # Null

\* An open request that will commit has read the row, or there was none; if the
\* model has changed since, that is by a request that had not ended before.
StaleOnlyByLater ==
  \A r \in Request :
    stage[r] \in Open /\ asked[r].op \in DeviceOps /\ loaded[r].device # Null =>
      /\ device # Null
      /\ device.model # loaded[r].device.model => device.by \notin before[r]

\* A heartbeat that was not refused has read a row.
HeartbeatReads ==
  \A r \in Request :
    stage[r] \in Open /\ asked[r].op = "heartbeat" => loaded[r].device # Null

DeviceInv ==
  /\ SessionInv /\ DeviceTypeOK(Merchant)
  /\ OneFlushed /\ FlushedIsFresh /\ WrittenByAnswered /\ StaleOnlyByLater
  /\ HeartbeatReads /\ ReportsKept /\ ModelsAgreeUnlessOverlap

\* There is no device at first.
LEMMA InitDevice == Init => DeviceInv
<1> SUFFICES ASSUME Init PROVE DeviceInv
  OBVIOUS
<1>1. /\ asked \in Workload /\ device = Null /\ info = Null
      /\ stage \in [ Request -> { "new" } ] /\ before \in [ Request -> { {} } ]
      /\ loaded \in [ Request -> Copy(Merchant) ]
  BY DEF Init, RequestInit, DeviceInit, Copy
<1>2. SessionInv /\ DeviceTypeOK(Merchant)
  BY <1>1 DEF SessionInv, RequestTypeOK, DeviceTypeOK, Stage
<1>3. OneFlushed /\ FlushedIsFresh /\ StaleOnlyByLater /\ HeartbeatReads
  BY <1>1 DEF OneFlushed, FlushedIsFresh, StaleOnlyByLater, HeartbeatReads, Open
<1>4. WrittenByAnswered /\ ReportsKept /\ ModelsAgreeUnlessOverlap
  BY <1>1 DEF WrittenByAnswered, Answers, ReportsKept, ModelsAgreeUnlessOverlap, Ok
<1>5. QED
  BY <1>2, <1>3, <1>4 DEF DeviceInv

\* Steps that leave the device alone and take no device request further than to
\* be refused.
LEMMA DeviceUntouched ==
  ASSUME DeviceInv, SessionInv', UNCHANGED << asked, deviceVars >>,
         \A q \in Request :
           \/ stage'[q] = stage[q] /\ before'[q] = before[q]
           \/ /\ stage[q] # "done" /\ stage'[q] # "flushed"
              /\ asked[q].op \in DeviceOps => stage'[q] = "refused"
  PROVE  DeviceInv'
<1> USE DEF deviceVars
<1>1. DeviceTypeOK(Merchant)'
  BY DEF DeviceInv, DeviceTypeOK
<1>2. OneFlushed' /\ FlushedIsFresh'
  BY DEF DeviceInv, OneFlushed, FlushedIsFresh
<1>3. \A q \in Request : Answers(q) => Answers(q)' /\ before'[q] = before[q]
  BY DEF Answers
<1>4. \A q \in Request : Answers(q)' => Answers(q)
  BY DEF Answers
<1>5. device # Null => device.by \in Request /\ info.by \in Request
  BY NullAssumption DEF DeviceInv, WrittenByAnswered, DeviceTypeOK, Device, Info
<1>6. WrittenByAnswered'
  BY <1>3, <1>4, <1>5 DEF DeviceInv, WrittenByAnswered
<1>7. StaleOnlyByLater' /\ HeartbeatReads'
  BY DEF DeviceInv, StaleOnlyByLater, HeartbeatReads, Open, DeviceOps
<1>8. \A q \in Request : (Ok(q, "register") \/ Ok(q, "heartbeat")) <=> Answers(q)
  BY DEF Ok, Answers, DeviceOps
<1>9. \A q \in Request :
        (Ok(q, "register") \/ Ok(q, "heartbeat"))' <=> Answers(q)'
  BY DEF Ok, Answers, DeviceOps
<1>10. ReportsKept'
  BY <1>3, <1>4, <1>8, <1>9 DEF DeviceInv, ReportsKept
<1>11. ModelsAgreeUnlessOverlap'
  BY <1>3, <1>5 DEF DeviceInv, ModelsAgreeUnlessOverlap, WrittenByAnswered, Overlap
<1>12. QED
  BY <1>1, <1>2, <1>6, <1>7, <1>10, <1>11 DEF DeviceInv

\* A device request begins with a copy of the row as it is.
LEMMA BeginDeviceKeeps ==
  ASSUME DeviceInv, asked' = asked, NEW r \in Request,
         NEW hasProfile \in BOOLEAN,
         \/ BeginRegister(r, asked[r], hasProfile)
         \/ BeginHeartbeat(r, asked[r], hasProfile)
  PROVE  DeviceInv'
<1>1. PICK next \in { "open", "refused" } :
        /\ asked[r].op \in DeviceOps /\ Begin(r, next)
        /\ loaded' = [ loaded EXCEPT
             ![r].device = IF next = "open" THEN device ELSE Null ]
        /\ asked[r].op = "heartbeat" /\ next = "open" => device # Null
        /\ device' = device /\ info' = info
  <2>1. CASE BeginRegister(r, asked[r], hasProfile)
    BY <2>1 DEF BeginRegister, DeviceOps
  <2>2. CASE BeginHeartbeat(r, asked[r], hasProfile)
    BY <2>2 DEF BeginHeartbeat, DeviceOps
  <2>3. QED
    BY <2>1, <2>2
<1>2. /\ SessionInv'
      /\ stage[r] = "new" /\ stage'[r] = next /\ before'[r] = Ended
      /\ \A q \in Request : q # r => stage'[q] = stage[q] /\ before'[q] = before[q]
  BY <1>1, BeginSession DEF DeviceInv
<1>3. /\ \A q \in Request : q # r => loaded'[q] = loaded[q]
      /\ loaded'[r].device = IF next = "open" THEN device ELSE Null
      /\ loaded' \in [ Request -> Copy(Merchant) ]
  BY <1>1 DEF DeviceInv, DeviceTypeOK, Copy
<1>4. DeviceTypeOK(Merchant)'
  BY <1>1, <1>3 DEF DeviceInv, DeviceTypeOK, Copy, Device, Info
<1>5. OneFlushed' /\ FlushedIsFresh'
  BY <1>1, <1>2, <1>3 DEF DeviceInv, OneFlushed, FlushedIsFresh
<1>6. \A q \in Request : Answers(q) <=> Answers(q)'
  BY <1>1, <1>2 DEF Answers
<1>7. \A q \in Request : Answers(q) => before'[q] = before[q]
  BY <1>2 DEF Answers
<1>8. device # Null => device.by \in Request /\ info.by \in Request
  BY DEF DeviceInv, WrittenByAnswered, DeviceTypeOK, Device, Info
<1>9. WrittenByAnswered'
  BY <1>1, <1>6, <1>8 DEF DeviceInv, WrittenByAnswered
<1>10. StaleOnlyByLater'
  <2> SUFFICES ASSUME NEW q \in Request, stage'[q] \in Open,
                      asked[q].op \in DeviceOps, loaded'[q].device # Null
               PROVE  /\ device # Null
                      /\ device.model # loaded'[q].device.model =>
                           device.by \notin before'[q]
    BY <1>1 DEF StaleOnlyByLater
  <2>1. CASE q = r
    BY <2>1, <1>1, <1>2, <1>3 DEF Open
  <2>2. CASE q # r
    BY <2>2, <1>1, <1>2, <1>3 DEF DeviceInv, StaleOnlyByLater
  <2>3. QED
    BY <2>1, <2>2
<1>11. HeartbeatReads'
  BY <1>1, <1>2, <1>3 DEF DeviceInv, HeartbeatReads, Open
<1>12. \A q \in Request :
         /\ (Ok(q, "register") \/ Ok(q, "heartbeat")) <=> Answers(q)
         /\ (Ok(q, "register") \/ Ok(q, "heartbeat"))' <=> Answers(q)'
  BY DEF Ok, Answers, DeviceOps
<1>13. ReportsKept'
  BY <1>1, <1>6, <1>7, <1>12 DEF DeviceInv, ReportsKept
<1>14. ModelsAgreeUnlessOverlap'
  BY <1>1, <1>7, <1>8
     DEF DeviceInv, ModelsAgreeUnlessOverlap, WrittenByAnswered, Overlap
<1>15. QED
  BY <1>2, <1>4, <1>5, <1>9, <1>10, <1>11, <1>13, <1>14 DEF DeviceInv

\* The flush takes the row, or is refused when the row was inserted meanwhile.
LEMMA FlushKeeps ==
  ASSUME DeviceInv, asked' = asked, NEW r \in Request,
         asked[r].op \in DeviceOps, Flush(r)
  PROVE  DeviceInv'
<1>1. PICK next \in { "flushed", "refused" } :
        /\ Advance(r, "open", next)
        /\ next = "flushed" => (loaded[r].device = Null <=> device = Null)
        /\ loaded' = [ loaded EXCEPT
             ![r].info = IF next = "flushed" THEN info ELSE Null ]
        /\ device' = device /\ info' = info
  <2>1. loaded[r].device # Null => device # Null \/ stage[r] # "open"
    BY DEF DeviceInv, StaleOnlyByLater, Open
  <2>2. QED
    BY <2>1 DEF Flush, Advance
<1>2. /\ SessionInv'
      /\ stage[r] = "open" /\ stage'[r] = next /\ before' = before
      /\ \A q \in Request : q # r => stage'[q] = stage[q]
  BY <1>1, AdvanceSession DEF DeviceInv, Open
<1>3. /\ \A q \in Request : /\ q # r => loaded'[q] = loaded[q]
                            /\ loaded'[q].device = loaded[q].device
      /\ loaded'[r].info = IF next = "flushed" THEN info ELSE Null
      /\ loaded' \in [ Request -> Copy(Merchant) ]
  BY <1>1 DEF DeviceInv, DeviceTypeOK, Copy
<1>4. DeviceTypeOK(Merchant)'
  BY <1>1, <1>3 DEF DeviceInv, DeviceTypeOK, Copy, Device, Info
<1>5. OneFlushed'
  BY <1>1, <1>2 DEF DeviceInv, OneFlushed, Flush, DeviceFree
<1>6. FlushedIsFresh'
  BY <1>1, <1>2, <1>3 DEF DeviceInv, FlushedIsFresh
<1>7. \A q \in Request : Answers(q) <=> Answers(q)'
  BY <1>1, <1>2 DEF Answers
<1>8. device # Null => device.by \in Request /\ info.by \in Request
  BY DEF DeviceInv, WrittenByAnswered, DeviceTypeOK, Device, Info
<1>9. WrittenByAnswered'
  BY <1>1, <1>7, <1>8 DEF DeviceInv, WrittenByAnswered
<1>10. StaleOnlyByLater' /\ HeartbeatReads'
  BY <1>1, <1>2, <1>3 DEF DeviceInv, StaleOnlyByLater, HeartbeatReads, Open
<1>11. \A q \in Request :
         /\ (Ok(q, "register") \/ Ok(q, "heartbeat")) <=> Answers(q)
         /\ (Ok(q, "register") \/ Ok(q, "heartbeat"))' <=> Answers(q)'
  BY DEF Ok, Answers, DeviceOps
<1>12. ReportsKept'
  BY <1>1, <1>2, <1>7, <1>11 DEF DeviceInv, ReportsKept
<1>13. ModelsAgreeUnlessOverlap'
  BY <1>1, <1>2 DEF DeviceInv, ModelsAgreeUnlessOverlap, Overlap
<1>14. QED
  BY <1>2, <1>4, <1>5, <1>6, <1>9, <1>10, <1>12, <1>13 DEF DeviceInv

\* The rows a commit writes are of the tables' types, and one of the two names
\* this request: a report keeps what it does not name.
LEMMA CommitRows ==
  ASSUME DeviceInv, NEW r \in Request, asked[r].op \in DeviceOps,
         stage[r] = "flushed"
  PROVE  /\ DeviceAfter(r, asked[r]) \in Device(Merchant)
         /\ InfoAfter(r, asked[r]) \in Info
         /\ InfoAfter(r, asked[r]).by = r
         /\ \A f \in Field :
              \/ InfoAfter(r, asked[r]).status[f] = r
              \/ /\ f \notin asked[r].fields
                 /\ info # Null => InfoAfter(r, asked[r]).status[f] = info.status[f]
<1>1. /\ asked[r].merchant \in Merchant /\ asked[r].fields \subseteq Field
      /\ asked[r].op = "register" => asked[r].model \in Model
  BY WorkloadAssumption DEF DeviceInv, SessionInv
<1>2. /\ loaded[r].info = info /\ (loaded[r].device = Null <=> device = Null)
      /\ loaded[r].device \in Device(Merchant) \cup { Null }
      /\ info \in Info \cup { Null } /\ device \in Device(Merchant) \cup { Null }
  BY DEF DeviceInv, FlushedIsFresh, DeviceTypeOK, Copy
<1>3. asked[r].op = "heartbeat" => loaded[r].device \in Device(Merchant)
  BY <1>2 DEF DeviceInv, HeartbeatReads, Open
<1>4. DeviceAfter(r, asked[r]) \in Device(Merchant)
  <2>1. CASE loaded[r].device = Null
    BY <2>1, <1>1, <1>3, NullAssumption DEF DeviceAfter, Device, DeviceOps
  <2>2. CASE loaded[r].device # Null
    BY <2>2, <1>1, <1>2 DEF DeviceAfter, Device
  <2>3. QED
    BY <2>1, <2>2
<1>5. Earlier(r) \in [ Field -> Request \cup { Null } ]
  BY <1>2 DEF Earlier, Info
<1>6. Reported(asked[r], Earlier(r), r) \in [ Field -> Request \cup { Null } ]
  BY <1>5 DEF Reported
<1>7. (IF asked[r].op = "register" THEN asked[r].model ELSE loaded[r].device.model)
        \in Model
  BY <1>1, <1>3 DEF DeviceOps, Device
<1>8. InfoAfter(r, asked[r]) \in Info /\ InfoAfter(r, asked[r]).by = r
  BY <1>6, <1>7 DEF InfoAfter, Info
<1>9. \A f \in Field :
        InfoAfter(r, asked[r]).status[f] =
          IF f \in asked[r].fields THEN r ELSE Earlier(r)[f]
  BY DEF InfoAfter, Reported
<1>10. info # Null => Earlier(r) = info.status
  BY <1>2 DEF Earlier
<1>11. QED
  BY <1>4, <1>8, <1>9, <1>10

\* The commit of a device request.
LEMMA CommitDeviceKeeps ==
  ASSUME DeviceInv, asked' = asked, NEW r \in Request, CommitDevice(r, asked[r])
  PROVE  DeviceInv'
<1>1. /\ asked[r].op \in DeviceOps /\ Advance(r, "flushed", "done")
      /\ device' = DeviceAfter(r, asked[r]) /\ info' = InfoAfter(r, asked[r])
      /\ loaded' = loaded
  BY DEF CommitDevice, DeviceOps
<1>2. /\ SessionInv'
      /\ stage[r] = "flushed" /\ stage'[r] = "done" /\ before' = before
      /\ \A q \in Request : q # r => stage'[q] = stage[q]
      /\ \A q \in Request : r \notin before[q]
  BY <1>1, AdvanceSession DEF DeviceInv, Open
<1>3. /\ device' \in Device(Merchant) /\ info' \in Info /\ info'.by = r
      /\ \A f \in Field :
           \/ info'.status[f] = r
           \/ /\ f \notin asked[r].fields
              /\ info # Null => info'.status[f] = info.status[f]
  BY <1>1, <1>2, CommitRows
<1>4. DeviceTypeOK(Merchant)'
  BY <1>1, <1>3 DEF DeviceInv, DeviceTypeOK, Copy, Device, Info
<1>5. OneFlushed'
  BY <1>1, <1>2 DEF DeviceInv, OneFlushed
<1>6. FlushedIsFresh'
  BY <1>1, <1>2 DEF DeviceInv, OneFlushed, FlushedIsFresh
<1>7. device' # Null /\ info' # Null
  BY <1>3, NullAssumption
<1>8. \A q \in Request : Answers(q) => Answers(q)'
  BY <1>1, <1>2 DEF Answers
<1>9. Answers(r)' /\ ~Answers(r)
  BY <1>1, <1>2 DEF Answers
<1>10. loaded[r].device = Null <=> device = Null
  BY <1>2 DEF DeviceInv, FlushedIsFresh
<1>11. \/ device' = device /\ device # Null
       \/ device'.by = r
  BY <1>1, <1>10 DEF DeviceAfter, DeviceInv, DeviceTypeOK, Device
<1>12. WrittenByAnswered'
  BY <1>3, <1>7, <1>8, <1>9, <1>11 DEF DeviceInv, WrittenByAnswered, DeviceTypeOK, Device
<1>13. StaleOnlyByLater'
  <2> SUFFICES ASSUME NEW q \in Request, stage'[q] \in Open,
                      asked[q].op \in DeviceOps, loaded[q].device # Null
               PROVE  device'.model # loaded[q].device.model =>
                        device'.by \notin before[q]
    BY <1>1, <1>2, <1>7 DEF StaleOnlyByLater
  <2>1. q # r
    BY <1>2 DEF Open
  <2>2. CASE device'.by = r
    BY <2>2, <1>2
  <2>3. CASE device' = device
    BY <2>1, <2>3, <1>2 DEF DeviceInv, StaleOnlyByLater
  <2>4. QED
    BY <2>2, <2>3, <1>11
<1>14. HeartbeatReads'
  BY <1>1, <1>2 DEF DeviceInv, HeartbeatReads, Open
<1>15. \A q \in Request :
         /\ (Ok(q, "register") \/ Ok(q, "heartbeat")) <=> Answers(q)
         /\ (Ok(q, "register") \/ Ok(q, "heartbeat"))' <=> Answers(q)'
  BY DEF Ok, Answers, DeviceOps
<1>16. ReportsKept'
  <2> SUFFICES ASSUME NEW q \in Request, Answers(q)', NEW f \in asked[q].fields
               PROVE  info'.status[f] # Null /\ info'.status[f] \notin before[q]
    BY <1>1, <1>2, <1>15 DEF ReportsKept
  <2>1. f \in Field
    BY WorkloadAssumption DEF DeviceInv, SessionInv, Answers
  <2>2. CASE info'.status[f] = r
    BY <2>2, <1>2, RequestAssumption
  <2>3. CASE f \notin asked[r].fields /\ (info # Null => info'.status[f] = info.status[f])
    <3>1. q # r /\ Answers(q)
      BY <2>3, <1>2 DEF Answers
    <3>2. info # Null
      BY <3>1, <1>15 DEF DeviceInv, WrittenByAnswered
    <3>3. QED
      BY <2>3, <3>1, <3>2, <1>15 DEF DeviceInv, ReportsKept
  <2>4. QED
    BY <2>1, <2>2, <2>3, <1>3
<1>17. ModelsAgreeUnlessOverlap'
  <2> SUFFICES ASSUME device'.model # info'.model
               PROVE  /\ device'.by # r
                      /\ device'.by \notin before[r] /\ r \notin before[device'.by]
    BY <1>2, <1>3, <1>7 DEF ModelsAgreeUnlessOverlap, Overlap
  <2>1. CASE loaded[r].device = Null
    <3>1. asked[r].op = "register"
      BY <2>1, <1>1, <1>2 DEF DeviceInv, HeartbeatReads, Open, DeviceOps
    <3>2. QED
      BY <3>1, <2>1, <1>1 DEF DeviceAfter, InfoAfter
  <2>2. CASE loaded[r].device # Null /\ asked[r].op = "register"
                                    /\ asked[r].model # loaded[r].device.model
    <3>1. device \in Device(Merchant)
      BY <2>2, <1>10 DEF DeviceInv, DeviceTypeOK
    <3>2. QED
      BY <3>1, <2>2, <1>1 DEF DeviceAfter, InfoAfter, Device
  <2>3. CASE /\ loaded[r].device # Null
             /\ ~(asked[r].op = "register" /\ asked[r].model # loaded[r].device.model)
    <3>1. device' = device /\ info'.model = loaded[r].device.model
      BY <2>3, <1>1 DEF DeviceAfter, InfoAfter
    <3>2. device.by \notin before[r]
      BY <3>1, <2>3, <1>1, <1>2 DEF DeviceInv, StaleOnlyByLater, Open
    <3>3. device.by \in Request /\ Answers(device.by)
      BY <2>3, <1>10 DEF DeviceInv, WrittenByAnswered, DeviceTypeOK, Device
    <3>4. QED
      BY <3>1, <3>2, <3>3, <1>2, <1>9
  <2>4. QED
    BY <2>1, <2>2, <2>3
<1>18. QED
  BY <1>2, <1>4, <1>5, <1>6, <1>12, <1>13, <1>14, <1>16, <1>17 DEF DeviceInv

\* What a step of a handler over accounts and wallets does to its session.
LEMMA WalletStepSession ==
  ASSUME NEW r \in Request, WalletStep(r)
  PROVE  /\ asked[r].op \in WalletOps
         /\ \/ \E next \in { "open", "refused" } : Begin(r, next)
            \/ \E next \in { "done", "refused" } : Advance(r, "open", next)
<1>1. CASE BeginAccount(r)
  BY <1>1 DEF BeginAccount, WalletOps
<1>2. CASE WriteAccount(r)
  BY <1>2 DEF WriteAccount, WalletOps
<1>3. CASE BeginWallet(r)
  BY <1>3 DEF BeginWallet, WalletOps
<1>4. CASE WriteWallet(r)
  BY <1>4 DEF WriteWallet, WalletOps
<1>5. QED
  BY <1>1, <1>2, <1>3, <1>4 DEF WalletStep

\* Every step keeps what is known of the device.
LEMMA NextDevice ==
  ASSUME DeviceInv, [Next]_vars
  PROVE  DeviceInv'
<1>0. SessionInv
  BY DEF DeviceInv
<1>1. ASSUME NEW r \in Request, Serve(r)
      PROVE  DeviceInv'
  <2>1. asked' = asked
    BY <1>1 DEF Serve
  <2>2. CASE WalletStep(r) /\ UNCHANGED deviceVars
    <3>1. asked[r].op \in WalletOps /\ asked[r].op \notin DeviceOps
      BY <2>2, WalletStepSession DEF WalletOps, DeviceOps
    <3>2. CASE \E next \in { "open", "refused" } : Begin(r, next)
      <4>1. PICK next \in { "open", "refused" } : Begin(r, next)
        BY <3>2
      <4>2. QED
        BY <4>1, <3>1, <2>1, <2>2, <1>0, BeginSession, DeviceUntouched
    <3>3. CASE \E next \in { "done", "refused" } : Advance(r, "open", next)
      <4>1. PICK next \in { "done", "refused" } : Advance(r, "open", next)
        BY <3>3
      <4>2. /\ SessionInv' /\ stage[r] = "open" /\ stage'[r] = next
            /\ before' = before
            /\ \A q \in Request : q # r => stage'[q] = stage[q]
        BY <4>1, <2>1, <1>0, AdvanceSession DEF Open
      <4>3. QED
        BY <4>2, <3>1, <2>1, <2>2, DeviceUntouched
    <3>4. QED
      BY <3>2, <3>3, <2>2, WalletStepSession
  <2>3. CASE DeviceStep(r, asked[r], account[asked[r].merchant] = "profile")
    BY <2>1, <2>3, BeginDeviceKeeps, FlushKeeps, CommitDeviceKeeps
       DEF DeviceStep, DeviceOps
  <2>4. QED
    BY <2>2, <2>3, <1>1 DEF Serve
<1>2. CASE UNCHANGED << requestVars, asked, deviceVars >>
  BY <1>2, DeviceUntouched DEF requestVars, DeviceInv, SessionInv, RequestTypeOK, Ended
<1>3. CASE Stop /\ UNCHANGED deviceVars
  <2>1. /\ SessionInv' /\ before' = before /\ asked' = asked
        /\ \A q \in Request :
             \/ stage'[q] = stage[q] /\ stage[q] \notin Open
             \/ stage[q] \in Open /\ stage'[q] = "refused"
    BY <1>3, <1>0, StopSession DEF Stop
  <2>2. QED
    BY <2>1, <1>3, DeviceUntouched DEF Open
<1>4. QED
  BY <1>1, <1>2, <1>3 DEF Next, Start, vars

(***************************************************************************)
(* The bookkeeping of one device: who holds its row, what open requests    *)
(* have read of it, and who wrote what, in every state.                    *)
(***************************************************************************)
THEOREM DeviceInvariant == Spec => []DeviceInv
<1>1. Init => DeviceInv
  BY InitDevice
<1>2. DeviceInv /\ [Next]_vars => DeviceInv'
  BY NextDevice
<1>3. QED
  BY <1>1, <1>2, PTL DEF Spec

(***************************************************************************)
(* What a device reported (DeviceService.register and heartbeat) is not    *)
(* lost to a request that overlapped, however many report.                 *)
(***************************************************************************)
THEOREM ReportsAreKept == Spec => []ReportsKept
<1>1. DeviceInv => ReportsKept
  BY DEF DeviceInv
<1>2. QED
  BY <1>1, DeviceInvariant, PTL

(***************************************************************************)
(* The two tables name different models of a device only after requests    *)
(* that overlapped (DeviceService._upsert_info).                           *)
(***************************************************************************)
THEOREM ModelsAgree == Spec => []ModelsAgreeUnlessOverlap
<1>1. DeviceInv => ModelsAgreeUnlessOverlap
  BY DEF DeviceInv
<1>2. QED
  BY <1>1, DeviceInvariant, PTL

-----------------------------------------------------------------------------
(* Accounts, wallets and the seed *)

\* Nothing is open unless the server serves.
Idle ==
  server # "serving" => \A r \in Request : stage[r] \notin Open

\* An empty database stays empty: the seed raises, and nobody can sign up
\* before the seed has added the roles.
Blank ==
  /\ \A m \in Merchant : account[m] = "none" /\ identity[m] = {}
  /\ \A n \in RowName : wallet[n] = Null
  /\ reference = {}
  /\ \A r \in Request : asked[r].op \in WalletOps => stage[r] \in { "new", "refused" }

\* Otherwise the client has a profile and a primary wallet, and nobody else the
\* client's registration.
Kept ==
  /\ account[Client] = "profile" /\ identity[Client] = Identity
  /\ \A m \in Merchant \ { Client } : "registration" \notin identity[m]
  /\ Primaries(wallet, Client) # {}

\* Rows are inserted by committed requests, but for the client's first one.
InsertedByDone ==
  \A n \in RowName :
    wallet[n] # Null =>
      /\ n \in Request => /\ Ok(n, "wallet")
                          /\ wallet[n].merchant = asked[n].merchant
                          /\ wallet[n].primary => asked[n].primary
      /\ n \notin Request => n = 0 /\ wallet[n].merchant = Client

\* A request replaces wallets of its merchant, if its own is primary.
ReplacesOwn ==
  \A r \in Request :
    stage[r] = "open" /\ asked[r].op = "wallet" =>
      /\ read[r] \subseteq Rows(wallet, asked[r].merchant)
      /\ ~asked[r].primary => read[r] = {}

\* What an open request does not replace was inserted after it began.
UnseenIsLater ==
  \A r \in Request :
    stage[r] = "open" /\ asked[r].op = "wallet" /\ asked[r].primary =>
      Primaries(wallet, asked[r].merchant)
        \subseteq read[r] \cup (Request \ before[r])

\* uq_merchant_wallet_address_network
AddressesDiffer ==
  \A m \in Merchant : \A n, k \in Rows(wallet, m) :
    wallet[n].address = wallet[k].address => n = k

WalletInv ==
  /\ SessionInv /\ WalletTypeOK /\ Idle /\ (Blank \/ Kept)
  /\ InsertedByDone /\ ReplacesOwn /\ UnseenIsLater /\ AddressesDiffer
  /\ LatestPrimaryPays /\ SeedFailureCauses

\* A row is not Null.
LEMMA RowIsNotNull ==
  ASSUME WalletTypeOK, NEW n \in RowName, wallet[n] # Null
  PROVE  wallet[n] \in Row
BY DEF WalletTypeOK

\* The database is empty at first, or holds one wallet of the client.
LEMMA InitWallets == Init => WalletInv
<1> SUFFICES ASSUME Init PROVE WalletInv
  OBVIOUS
<1>1. /\ asked \in Workload /\ server = "down" /\ starts = 0
      /\ stage \in [ Request -> { "new" } ] /\ before \in [ Request -> { {} } ]
      /\ read \in [ Request -> { {} } ]
  BY DEF Init, RequestInit, WalletInit
<1>2. SessionInv
  BY <1>1 DEF SessionInv, RequestTypeOK, Stage
<1>3. /\ account \in [ Merchant -> { "none", "profile" } ]
      /\ reference \subseteq ReferenceData
      /\ identity \in [ Merchant -> SUBSET Identity ]
      /\ \/ /\ \A m \in Merchant : account[m] = "none" /\ identity[m] = {}
            /\ wallet = [ n \in RowName |-> Null ] /\ reference = {}
         \/ /\ account[Client] = "profile" /\ identity[Client] = Identity
            /\ \A m \in Merchant \ { Client } : "registration" \notin identity[m]
            /\ \E row \in Row :
                 /\ row.merchant = Client /\ row.primary
                 /\ wallet = [ n \in RowName |-> IF n = 0 THEN row ELSE Null ]
  <2>1. CASE /\ account = [ m \in Merchant |-> "none" ]
             /\ identity = [ m \in Merchant |-> {} ]
             /\ wallet = [ n \in RowName |-> Null ] /\ reference = {}
    BY <2>1
  <2>2. CASE /\ \E others \in { "none", "profile" }, company \in { {}, { "name" } } :
                  /\ others = "none" => company = {}
                  /\ account = [ m \in Merchant |->
                                   IF m = Client THEN "profile" ELSE others ]
                  /\ identity = [ m \in Merchant |->
                                    IF m = Client THEN Identity ELSE company ]
             /\ \E address \in { ClientAddress, Placeholder } :
                  wallet = [ n \in RowName |->
                               IF n = 0 THEN [ merchant |-> Client, primary |-> TRUE,
                                               address |-> address ]
                               ELSE Null ]
             /\ reference = ReferenceData \ { "gateways" }
    <3>1. PICK address \in { ClientAddress, Placeholder } :
            wallet = [ n \in RowName |->
                         IF n = 0 THEN [ merchant |-> Client, primary |-> TRUE,
                                         address |-> address ]
                         ELSE Null ]
      BY <2>2
    <3>2. [ merchant |-> Client, primary |-> TRUE, address |-> address ] \in Row
      BY WalletAssumption DEF Row
    <3>3. /\ account \in [ Merchant -> { "none", "profile" } ]
          /\ account[Client] = "profile" /\ identity[Client] = Identity
          /\ identity \in [ Merchant -> SUBSET Identity ]
          /\ \A m \in Merchant \ { Client } : "registration" \notin identity[m]
      BY <2>2, WalletAssumption DEF Identity
    <3>4. QED
      BY <2>2, <3>1, <3>2, <3>3
  <2>3. QED
    BY <2>1, <2>2 DEF Init, WalletInit
<1>4. \A n \in RowName : wallet[n] # Null => n = 0 /\ wallet[n].merchant = Client
  BY <1>3
<1>5. 0 \in RowName /\ 0 \notin Request
  BY WalletAssumption DEF RowName
<1>6. WalletTypeOK
  <2>1. wallet \in [ RowName -> Row \cup { Null } ]
    BY <1>3
  <2>2. QED
    BY <2>1, <1>1, <1>3, WalletAssumption DEF WalletTypeOK
<1>7. Blank \/ Kept
  <2>1. CASE /\ wallet = [ n \in RowName |-> Null ]
             /\ \A m \in Merchant : account[m] = "none" /\ identity[m] = {}
             /\ reference = {}
    BY <2>1, <1>1 DEF Blank
  <2>2. CASE /\ account[Client] = "profile" /\ identity[Client] = Identity
             /\ \A m \in Merchant \ { Client } : "registration" \notin identity[m]
             /\ \E row \in Row :
                 /\ row.merchant = Client /\ row.primary
                 /\ wallet = [ n \in RowName |-> IF n = 0 THEN row ELSE Null ]
    <3>1. 0 \in Primaries(wallet, Client)
      BY <2>2, <1>5, NullAssumption DEF Primaries, Rows
    <3>2. QED
      BY <2>2, <3>1 DEF Kept
  <2>3. QED
    BY <1>3, <2>1, <2>2
<1>8. Idle /\ ReplacesOwn /\ UnseenIsLater
  BY <1>1 DEF Idle, ReplacesOwn, UnseenIsLater, Open
<1>9. InsertedByDone
  BY <1>4, <1>5 DEF InsertedByDone
<1>10. AddressesDiffer
  BY <1>4, <1>3 DEF AddressesDiffer, Rows
<1>11. LatestPrimaryPays /\ SeedFailureCauses
  BY <1>1 DEF LatestPrimaryPays, SeedFailureCauses, Ok
<1>12. QED
  BY <1>2, <1>6, <1>7, <1>8, <1>9, <1>10, <1>11 DEF WalletInv

\* Steps that leave accounts and wallets alone, and take no request for them
\* further than to be refused.
LEMMA WalletsUntouched ==
  ASSUME WalletInv, SessionInv', UNCHANGED << asked, walletVars >>,
         server' \in { "down", "serving", "failed" }, starts' \in 0 .. MaxStarts,
         server' = "failed" => server = "failed",
         Idle',
         \A q \in Request :
           asked[q].op \in WalletOps =>
             \/ stage'[q] = stage[q] /\ before'[q] = before[q]
             \/ stage[q] # "done" /\ stage'[q] = "refused"
  PROVE  WalletInv'
<1> USE DEF walletVars
<1>1. WalletTypeOK'
  BY DEF WalletInv, WalletTypeOK
<1>2. \A q \in Request : Ok(q, "wallet")' <=> Ok(q, "wallet")
  BY DEF Ok, WalletOps
<1>3. \A q \in Request : Ok(q, "wallet") => before'[q] = before[q]
  BY DEF Ok, WalletOps
<1>4. (Blank \/ Kept)'
  BY DEF WalletInv, Blank, Kept
<1>5. InsertedByDone' /\ AddressesDiffer'
  BY <1>2 DEF WalletInv, InsertedByDone, AddressesDiffer
<1>6. ReplacesOwn'
  BY DEF WalletInv, ReplacesOwn, WalletOps
<1>7. UnseenIsLater'
  BY DEF WalletInv, UnseenIsLater, WalletOps
<1>8. LatestPrimaryPays'
  BY <1>2, <1>3 DEF WalletInv, LatestPrimaryPays
<1>9. SeedFailureCauses'
  BY <1>2 DEF WalletInv, SeedFailureCauses
<1>10. QED
  BY <1>1, <1>4, <1>5, <1>6, <1>7, <1>8, <1>9 DEF WalletInv

\* A request for a wallet begins with the primary wallets as they are.
LEMMA BeginWalletKeeps ==
  ASSUME WalletInv, NEW r \in Request, BeginWallet(r),
         UNCHANGED << asked, server, starts >>, server = "serving"
  PROVE  WalletInv'
<1> DEFINE m == asked[r].merchant
<1>1. PICK next \in { "open", "refused" } :
        /\ asked[r].op = "wallet" /\ account[m] # "none" /\ Begin(r, next)
        /\ next = "open" => read' = [ read EXCEPT ![r] = Replaced(r) ]
        /\ next = "refused" => read' = [ read EXCEPT ![r] = {} ]
        /\ account' = account /\ identity' = identity
        /\ wallet' = wallet /\ reference' = reference
  BY DEF BeginWallet
<1>2. /\ SessionInv'
      /\ stage[r] = "new" /\ stage'[r] = next /\ before'[r] = Ended
      /\ \A q \in Request : q # r => stage'[q] = stage[q] /\ before'[q] = before[q]
  BY <1>1, BeginSession DEF WalletInv
<1>3. m \in Merchant /\ asked[r].primary \in BOOLEAN
  BY <1>1, WorkloadAssumption DEF WalletInv, SessionInv
<1>4. Replaced(r) \subseteq Rows(wallet, m) /\ Rows(wallet, m) \subseteq RowName
  BY DEF Replaced, Primaries, Rows, WalletInv, WalletTypeOK
<1>5. /\ read' \in [ Request -> SUBSET RowName ]
      /\ \A q \in Request : q # r => read'[q] = read[q]
      /\ next = "open" => read'[r] = Replaced(r)
  BY <1>1, <1>4 DEF WalletInv, WalletTypeOK
<1>6. WalletTypeOK'
  BY <1>1, <1>5 DEF WalletInv, WalletTypeOK
<1>7. Idle'
  BY DEF Idle
<1>8. Kept /\ Kept'
  BY <1>1, <1>3 DEF WalletInv, Blank, Kept
<1>9. \A q \in Request : Ok(q, "wallet")' <=> Ok(q, "wallet")
  BY <1>1, <1>2 DEF Ok
<1>10. \A q \in Request : Ok(q, "wallet") => q # r /\ before'[q] = before[q]
  BY <1>2 DEF Ok
<1>11. InsertedByDone' /\ AddressesDiffer'
  BY <1>1, <1>9 DEF WalletInv, InsertedByDone, AddressesDiffer
<1>12. ReplacesOwn'
  BY <1>1, <1>2, <1>4, <1>5 DEF WalletInv, ReplacesOwn, Replaced
<1>13. UnseenIsLater'
  <2> SUFFICES ASSUME NEW q \in Request, stage'[q] = "open",
                      asked[q].op = "wallet", asked[q].primary
               PROVE  Primaries(wallet, asked[q].merchant)
                        \subseteq read'[q] \cup (Request \ before'[q])
    BY <1>1 DEF UnseenIsLater
  <2>1. CASE q = r
    BY <2>1, <1>2, <1>5 DEF Replaced
  <2>2. CASE q # r
    BY <2>2, <1>2, <1>5 DEF WalletInv, UnseenIsLater
  <2>3. QED
    BY <2>1, <2>2
<1>14. LatestPrimaryPays'
  BY <1>1, <1>9, <1>10 DEF WalletInv, LatestPrimaryPays
<1>15. SeedFailureCauses'
  BY DEF SeedFailureCauses
<1>16. QED
  BY <1>2, <1>6, <1>7, <1>8, <1>11, <1>12, <1>13, <1>14, <1>15 DEF WalletInv

\* Accounts are requested of a database that is not empty.
LEMMA AccountKeeps ==
  ASSUME WalletInv, NEW r \in Request, BeginAccount(r) \/ WriteAccount(r),
         UNCHANGED << asked, server, starts >>, server = "serving"
  PROVE  WalletInv'
<1> DEFINE m == asked[r].merchant
<1>1. m \in Merchant /\ asked[r].op \in { "signup", "create" }
  BY WorkloadAssumption DEF WalletInv, SessionInv, BeginAccount, WriteAccount
<1>2. /\ SessionInv' /\ read' = read /\ wallet' = wallet /\ reference' = reference
      /\ \A q \in Request : q # r => stage'[q] = stage[q] /\ before'[q] = before[q]
      /\ stage[r] \in { "new", "open" }
      /\ stage[r] = "new" => stage'[r] \in { "open", "refused" }
      /\ stage[r] = "new" /\ Blank => stage'[r] = "refused"
      /\ stage[r] = "new" => account' = account /\ identity' = identity
      /\ \/ account' = account /\ identity' = identity
         \/ /\ account[m] = Held(asked[r].op)
            /\ account' = [ account EXCEPT ![m] = Gained(asked[r].op) ]
            /\ \/ identity' = identity
               \/ \E company \in SUBSET Identity :
                    /\ ~RegistrationTaken(company)
                    /\ identity' = [ identity EXCEPT ![m] = company ]
  <2>1. CASE BeginAccount(r)
    <3>1. PICK next \in { "open", "refused" } :
            /\ Begin(r, next) /\ UNCHANGED walletVars
            /\ Blank => next = "refused"
      BY <2>1, <1>1 DEF BeginAccount, Blank
    <3>2. QED
      BY <3>1, BeginSession DEF WalletInv, walletVars
  <2>2. CASE WriteAccount(r)
    <3>1. PICK next \in { "done", "refused" } :
            /\ Advance(r, "open", next)
            /\ next = "done" => /\ account[m] = Held(asked[r].op)
                               /\ \/ asked[r].op # "create"
                                  \/ ~RegistrationTaken(asked[r].company)
            /\ account' = IF next = "done"
                          THEN [ account EXCEPT ![m] = Gained(asked[r].op) ]
                          ELSE account
            /\ identity' = IF next = "done" /\ asked[r].op = "create"
                           THEN [ identity EXCEPT ![m] = asked[r].company ]
                           ELSE identity
      BY <2>2 DEF WriteAccount
    <3>2. /\ read' = read /\ wallet' = wallet /\ reference' = reference
          /\ asked[r].op = "create" => asked[r].company \in SUBSET Identity
      BY <2>2, WorkloadAssumption DEF WriteAccount, WalletInv, SessionInv
    <3>3. /\ SessionInv' /\ stage[r] = "open" /\ stage'[r] = next /\ before' = before
          /\ \A q \in Request : q # r => stage'[q] = stage[q]
      BY <3>1, AdvanceSession DEF WalletInv, Open
    <3>4. QED
      BY <3>1, <3>2, <3>3
  <2>3. QED
    BY <2>1, <2>2
<1>3. WalletTypeOK'
  BY <1>2 DEF WalletInv, WalletTypeOK, Gained
<1>4. Idle'
  BY DEF Idle
<1>5. (Blank \/ Kept)'
  <2>1. CASE Blank
    <3>1. /\ stage[r] = "new" /\ stage'[r] = "refused"
          /\ account' = account /\ identity' = identity
      BY <2>1, <1>1, <1>2 DEF Blank, WalletOps
    <3>2. QED
      BY <3>1, <2>1, <1>2 DEF Blank
  <2>2. CASE Kept
    <3>1. CASE account' = account /\ identity' = identity
      BY <3>1, <2>2, <1>2 DEF Kept
    <3>2. CASE /\ account[m] = Held(asked[r].op)
               /\ account' = [ account EXCEPT ![m] = Gained(asked[r].op) ]
               /\ \/ identity' = identity
                  \/ \E company \in SUBSET Identity :
                       /\ ~RegistrationTaken(company)
                       /\ identity' = [ identity EXCEPT ![m] = company ]
      <4>1. m # Client
        BY <3>2, <2>2 DEF Kept, Held
      <4>2. account'[Client] = "profile"
        BY <4>1, <3>2, <2>2, WalletAssumption DEF Kept, WalletInv, WalletTypeOK
      <4>3. /\ identity'[Client] = Identity
            /\ \A k \in Merchant \ { Client } : "registration" \notin identity'[k]
        <5>1. CASE identity' = identity
          BY <5>1, <2>2 DEF Kept
        <5>2. CASE \E company \in SUBSET Identity :
                     /\ ~RegistrationTaken(company)
                     /\ identity' = [ identity EXCEPT ![m] = company ]
          <6>1. PICK company \in SUBSET Identity :
                  /\ ~RegistrationTaken(company)
                  /\ identity' = [ identity EXCEPT ![m] = company ]
            BY <5>2
          <6>2. "registration" \notin company
            BY <6>1, <2>2, WalletAssumption DEF RegistrationTaken, Kept, Identity
          <6>3. identity \in [ Merchant -> SUBSET Identity ]
            BY DEF WalletInv, WalletTypeOK
          <6>4. \A k \in Merchant : identity'[k] = IF k = m THEN company ELSE identity[k]
            BY <6>1, <6>3
          <6>5. QED
            BY <6>2, <6>4, <4>1, <2>2, WalletAssumption DEF Kept
        <5>3. QED
          BY <5>1, <5>2, <3>2
      <4>4. QED
        BY <4>2, <4>3, <2>2, <1>2 DEF Kept
    <3>3. QED
      BY <3>1, <3>2, <1>2
  <2>3. QED
    BY <2>1, <2>2 DEF WalletInv
<1>6. \A q \in Request : asked[q].op = "wallet" =>
        stage'[q] = stage[q] /\ before'[q] = before[q]
  BY <1>1, <1>2
<1>7. \A q \in Request : Ok(q, "wallet")' <=> Ok(q, "wallet")
  BY <1>6 DEF Ok
<1>8. InsertedByDone' /\ AddressesDiffer'
  BY <1>2, <1>7 DEF WalletInv, InsertedByDone, AddressesDiffer
<1>9. ReplacesOwn' /\ UnseenIsLater'
  BY <1>2, <1>6 DEF WalletInv, ReplacesOwn, UnseenIsLater
<1>10. LatestPrimaryPays'
  BY <1>2, <1>6, <1>7 DEF WalletInv, LatestPrimaryPays, Ok
<1>11. SeedFailureCauses'
  BY DEF SeedFailureCauses
<1>12. QED
  BY <1>2, <1>3, <1>4, <1>5, <1>8, <1>9, <1>10, <1>11 DEF WalletInv

\* The rows after a wallet is added: its own is new, those it replaces are no
\* longer primary, and nothing else changes.
LEMMA WithWalletRows ==
  ASSUME WalletInv, NEW r \in Request, stage[r] = "open",
         asked[r].op = "wallet", wallet' = WithWallet(r)
  PROVE  /\ wallet[r] = Null
         /\ wallet' \in [ RowName -> Row \cup { Null } ]
         /\ wallet'[r].merchant = asked[r].merchant
         /\ wallet'[r].address = asked[r].address
         /\ wallet'[r].primary = asked[r].primary
         /\ wallet'[r] # Null
         /\ \A n \in RowName \ { r } :
              /\ wallet'[n] # Null <=> wallet[n] # Null
              /\ wallet[n] # Null =>
                   /\ wallet'[n].merchant = wallet[n].merchant
                   /\ wallet'[n].address = wallet[n].address
                   /\ wallet'[n].primary = (wallet[n].primary /\ n \notin read[r])
<1>1. r \in RowName
  BY DEF RowName
<1>2. wallet[r] = Null
  BY <1>1 DEF WalletInv, InsertedByDone, Ok
<1>3. /\ asked[r].merchant \in Merchant /\ asked[r].address \in Address
      /\ asked[r].primary \in BOOLEAN
  BY WorkloadAssumption DEF WalletInv, SessionInv
<1> DEFINE own == [ merchant |-> asked[r].merchant, address |-> asked[r].address,
                    primary |-> asked[r].primary ]
<1>4. own \in Row /\ own # Null
  BY <1>3, NullAssumption DEF Row
<1>5. \A n \in RowName \ { r } :
        wallet'[n] = IF n \in read[r] THEN [ wallet[n] EXCEPT !.primary = FALSE ]
                     ELSE wallet[n]
  BY DEF WithWallet
<1>6. \A n \in read[r] : wallet[n] # Null /\ n \in RowName
  BY DEF WalletInv, ReplacesOwn, Rows, WalletTypeOK
<1>7. ASSUME NEW n \in RowName \ { r }
      PROVE  /\ wallet'[n] # Null <=> wallet[n] # Null
             /\ wallet'[n] \in Row \cup { Null }
             /\ wallet[n] # Null =>
                  /\ wallet'[n].merchant = wallet[n].merchant
                  /\ wallet'[n].address = wallet[n].address
                  /\ wallet'[n].primary = (wallet[n].primary /\ n \notin read[r])
  <2>1. CASE n \in read[r]
    <3>1. wallet[n] \in Row /\ wallet[n] # Null
      BY <2>1, <1>6, RowIsNotNull DEF WalletInv
    <3>2. wallet'[n] \in Row
      BY <3>1, <2>1, <1>5 DEF Row
    <3>3. wallet'[n] # Null
      BY <3>2, NullAssumption
    <3>4. wallet'[n] = [ wallet[n] EXCEPT !.primary = FALSE ]
      BY <2>1, <1>5
    <3>5. QED
      BY <3>1, <3>2, <3>3, <3>4, <2>1 DEF Row
  <2>2. CASE n \notin read[r]
    <3>1. wallet'[n] = wallet[n] /\ wallet[n] \in Row \cup { Null }
      BY <2>2, <1>5 DEF WalletInv, WalletTypeOK
    <3>2. QED
      BY <3>1, <2>2 DEF Row
  <2>3. QED
    BY <2>1, <2>2
<1>8. wallet'[r] = own
  BY <1>1 DEF WithWallet
<1>9. wallet' \in [ RowName -> Row \cup { Null } ]
  <2>1. wallet' = [ n \in RowName |-> wallet'[n] ]
    BY DEF WithWallet
  <2>2. \A n \in RowName : wallet'[n] \in Row \cup { Null }
    BY <1>4, <1>7, <1>8
  <2>3. QED
    BY <2>1, <2>2
<1>10. QED
  BY <1>2, <1>4, <1>7, <1>8, <1>9

\* The commit of a wallet.
LEMMA WriteWalletKeeps ==
  ASSUME WalletInv, NEW r \in Request, WriteWallet(r),
         UNCHANGED << asked, server, starts >>, server = "serving"
  PROVE  WalletInv'
<1> DEFINE m == asked[r].merchant
           taken == AddressTaken(wallet, m, asked[r].address)
<1>1. /\ asked[r].op = "wallet"
      /\ Advance(r, "open", IF taken THEN "refused" ELSE "done")
      /\ wallet' = IF taken THEN wallet ELSE WithWallet(r)
      /\ read' = read /\ account' = account /\ identity' = identity
      /\ reference' = reference
  BY DEF WriteWallet
<1>2. /\ SessionInv'
      /\ stage[r] = "open" /\ stage'[r] = IF taken THEN "refused" ELSE "done"
      /\ before' = before
      /\ \A q \in Request : q # r => stage'[q] = stage[q]
      /\ \A q \in Request : r \notin before[q]
  <2>1. (IF taken THEN "refused" ELSE "done") \in { "flushed", "refused", "done" }
    OBVIOUS
  <2>2. QED
    BY <2>1, <1>1, AdvanceSession DEF WalletInv, Open
<1>3. Idle' /\ SeedFailureCauses'
  BY DEF Idle, SeedFailureCauses
<1>4. CASE taken
  <2>1. UNCHANGED walletVars
    BY <1>1, <1>4 DEF walletVars
  <2>2. server' \in { "down", "serving", "failed" } /\ starts' \in 0 .. MaxStarts
    BY DEF WalletInv, WalletTypeOK
  <2>3. QED
    BY <2>1, <2>2, <1>2, <1>3, <1>4, WalletsUntouched
<1>5. CASE ~taken
  <2>1. /\ wallet[r] = Null
        /\ wallet' \in [ RowName -> Row \cup { Null } ]
        /\ wallet'[r].merchant = m
        /\ wallet'[r].address = asked[r].address
        /\ wallet'[r].primary = asked[r].primary
        /\ wallet'[r] # Null
        /\ \A n \in RowName \ { r } :
             /\ wallet'[n] # Null <=> wallet[n] # Null
             /\ wallet[n] # Null =>
                  /\ wallet'[n].merchant = wallet[n].merchant
                  /\ wallet'[n].address = wallet[n].address
                  /\ wallet'[n].primary = (wallet[n].primary /\ n \notin read[r])
    <3>1. wallet' = WithWallet(r) /\ asked[r].op = "wallet" /\ stage[r] = "open"
      BY <1>1, <1>2, <1>5
    <3>2. QED
      BY <3>1, WithWalletRows
  <2>2. r \in RowName /\ m \in Merchant /\ asked[r].primary \in BOOLEAN
    BY <1>1, WorkloadAssumption DEF RowName, WalletInv, SessionInv
  <2>3. DOMAIN wallet = RowName /\ DOMAIN wallet' = RowName
    BY <2>1 DEF WalletInv, WalletTypeOK
  <2>4. /\ Rows(wallet', m) = Rows(wallet, m) \cup { r }
        /\ \A o \in Merchant : o # m => Rows(wallet', o) = Rows(wallet, o)
    BY <2>1, <2>2, <2>3 DEF Rows
  <2>5. \A n \in read[r] : wallet[n] # Null /\ wallet[n].merchant = m
    BY <1>1, <1>2 DEF WalletInv, ReplacesOwn, Rows
  <2>6. \A o \in Merchant : o # m => Primaries(wallet', o) = Primaries(wallet, o)
    <3> SUFFICES ASSUME NEW o \in Merchant, o # m
                 PROVE  Primaries(wallet', o) = Primaries(wallet, o)
      OBVIOUS
    <3>1. \A n \in Rows(wallet, o) : n \in RowName /\ wallet[n] # Null /\ n # r /\ n \notin read[r]
      BY <2>1, <2>3, <2>5 DEF Rows
    <3>2. \A n \in Rows(wallet, o) : wallet'[n].primary = (wallet[n].primary /\ n \notin read[r])
      BY <3>1, <2>1
    <3>3. \A n \in Rows(wallet, o) : wallet'[n].primary <=> wallet[n].primary
      BY <3>1, <3>2
    <3>4. QED
      BY <3>3, <2>4 DEF Primaries
  <2>7. Primaries(wallet', m) = (Primaries(wallet, m) \ read[r])
                                  \cup (IF asked[r].primary THEN { r } ELSE {})
    BY <2>1, <2>2, <2>3, <2>4 DEF Primaries, Rows
  <2>8. ~asked[r].primary => read[r] = {}
    BY <1>1, <1>2 DEF WalletInv, ReplacesOwn
  <2>9. \A q \in Request : Ok(q, "wallet")' <=> (Ok(q, "wallet") \/ q = r)
    BY <1>1, <1>2, <1>5 DEF Ok
  <2>10. WalletTypeOK'
    BY <2>1, <1>1 DEF WalletInv, WalletTypeOK
  <2>11. Kept'
    <3>1. Kept
      BY <1>1, <1>2 DEF WalletInv, Blank, WalletOps
    <3>2. QED
      BY <3>1, <2>2, <2>6, <2>7, <2>8, <1>1, WalletAssumption DEF Kept
  <2>12. InsertedByDone'
    <3> SUFFICES ASSUME NEW n \in RowName, wallet'[n] # Null
                 PROVE  /\ n \in Request => /\ Ok(n, "wallet")'
                                            /\ wallet'[n].merchant = asked[n].merchant
                                            /\ wallet'[n].primary => asked[n].primary
                        /\ n \notin Request => n = 0 /\ wallet'[n].merchant = Client
      BY DEF InsertedByDone
    <3>1. CASE n = r
      BY <3>1, <2>1, <2>9
    <3>2. CASE n # r
      BY <3>2, <2>1, <2>9 DEF WalletInv, InsertedByDone
    <3>3. QED
      BY <3>1, <3>2
  <2>13. ReplacesOwn'
    <3> SUFFICES ASSUME NEW q \in Request, stage'[q] = "open", asked[q].op = "wallet"
                 PROVE  /\ read[q] \subseteq Rows(wallet', asked[q].merchant)
                        /\ ~asked[q].primary => read[q] = {}
      BY <1>1 DEF ReplacesOwn
    <3>1. stage[q] = "open" /\ asked[q].merchant \in Merchant
      BY <1>2, <1>5, WorkloadAssumption DEF WalletInv, SessionInv
    <3>2. QED
      BY <3>1, <2>4 DEF WalletInv, ReplacesOwn
  <2>14. UnseenIsLater'
    <3> SUFFICES ASSUME NEW q \in Request, stage'[q] = "open",
                        asked[q].op = "wallet", asked[q].primary
                 PROVE  Primaries(wallet', asked[q].merchant)
                          \subseteq read[q] \cup (Request \ before[q])
      BY <1>1, <1>2 DEF UnseenIsLater
    <3>1. stage[q] = "open" /\ asked[q].merchant \in Merchant
      BY <1>2, <1>5, WorkloadAssumption DEF WalletInv, SessionInv
    <3>2. Primaries(wallet, asked[q].merchant) \subseteq read[q] \cup (Request \ before[q])
      BY <3>1 DEF WalletInv, UnseenIsLater
    <3>3. QED
      BY <3>1, <3>2, <2>6, <2>7, <1>2
  <2>15. AddressesDiffer'
    <3> SUFFICES ASSUME NEW o \in Merchant,
                        NEW n \in Rows(wallet', o), NEW k \in Rows(wallet', o),
                        wallet'[n].address = wallet'[k].address
                 PROVE  n = k
      BY DEF AddressesDiffer
    <3>1. \A i \in Rows(wallet', o) : i # r =>
            i \in Rows(wallet, o) /\ wallet'[i].address = wallet[i].address
      BY <2>1, <2>3, <2>4 DEF Rows
    <3>2. o = m => \A i \in Rows(wallet, o) : wallet[i].address # asked[r].address
      BY <1>5 DEF AddressTaken
    <3>3. r \in Rows(wallet', o) => o = m
      BY <2>1, <2>3 DEF Rows
    <3>4. QED
      BY <3>1, <3>2, <3>3, <2>1 DEF WalletInv, AddressesDiffer
  <2>16. LatestPrimaryPays'
    <3> SUFFICES ASSUME NEW q \in Request, Ok(q, "wallet")', asked[q].primary
                 PROVE  /\ Primaries(wallet', asked[q].merchant) # {}
                        /\ Primaries(wallet', asked[q].merchant)
                             \subseteq Request \ before[q]
      BY <1>1, <1>2 DEF LatestPrimaryPays
    <3>1. asked[q].merchant \in Merchant
      BY WorkloadAssumption DEF WalletInv, SessionInv
    <3>2. CASE q = r
      <4>1. Primaries(wallet, m) \subseteq read[r] \cup (Request \ before[r])
        BY <3>2, <1>1, <1>2 DEF WalletInv, UnseenIsLater
      <4>2. QED
        BY <4>1, <3>2, <2>7, <1>2
    <3>3. CASE q # r
      <4>1. /\ Primaries(wallet, asked[q].merchant) # {}
            /\ Primaries(wallet, asked[q].merchant) \subseteq Request \ before[q]
        BY <3>3, <2>9 DEF WalletInv, LatestPrimaryPays
      <4>2. QED
        BY <4>1, <3>1, <2>6, <2>7, <2>8, <1>2
    <3>4. QED
      BY <3>2, <3>3
  <2>17. QED
    BY <2>10, <2>11, <2>12, <2>13, <2>14, <2>15, <2>16, <1>2, <1>3 DEF WalletInv
<1>6. QED
  BY <1>4, <1>5

\* A seed of an empty database raises: it adds the client's wallet twice.
LEMMA BlankSeedFails ==
  ASSUME WalletInv, Blank, Seed
  PROVE  server' = "failed" /\ UNCHANGED << wallet, account, identity, reference >>
<1>1. account[Client] = "none"
  BY WalletAssumption DEF Blank
<1>2. Primaries(wallet, Client) = {}
  BY DEF Blank, Primaries, Rows, WalletInv, WalletTypeOK
<1>3. /\ FirstAdded = { Client }
      /\ Flushed = [ m \in Merchant |-> IF m = Client THEN Identity ELSE {} ]
  BY <1>1 DEF FirstAdded, Flushed, Blank
<1>4. Synced = { Client }
  BY <1>3, WalletAssumption DEF Synced, Identity
<1>5. SyncAdded(Client) = { Client }
  BY <1>2 DEF SyncAdded
<1>6. \A company, table : ~SeedCommits(company, table, { Client })
  BY <1>3 DEF SeedCommits
<1>7. PICK company, table : SeedWrites(company, table, { Client })
  BY <1>4, <1>5 DEF Seed
<1>8. QED
  BY <1>6, <1>7 DEF SeedWrites

\* The wallets with the address of one corrected, and no two of a merchant with
\* one address.
Corrected(p) == [ wallet EXCEPT ![p].address = ClientAddress ]
Differ(p) ==
  \A m \in Merchant : \A n, k \in Rows(Corrected(p), m) :
    Corrected(p)[n].address = Corrected(p)[k].address => n = k

\* A seed that takes another profile for the client's.
Mistaken ==
  /\ \E m \in Merchant \ { Client } : "name" \in identity[m]
  /\ server' = "failed"
  /\ UNCHANGED << wallet, account, identity, reference >>

\* A seed that finds the client's profile corrects the address of one primary
\* wallet, or raises because another wallet of the client carries that address.
CorrectsOne(p) ==
  /\ Differ(p) => /\ wallet' = Corrected(p) /\ account' = account
                  /\ identity' = identity /\ server' = "serving"
  /\ ~Differ(p) => /\ server' = "failed"
                   /\ UNCHANGED << wallet, account, identity, reference >>
  /\ reference \subseteq ReferenceData \cup SiteContent =>
       reference' \subseteq ReferenceData \cup SiteContent

\* A later seed does one or the other: it cannot give the client's registration
\* to another profile, since the client's has it.
LEMMA LaterSeed ==
  ASSUME WalletInv, Kept, Seed
  PROVE  Mistaken \/ \E p \in Primaries(wallet, Client) : CorrectsOne(p)
<1>1. /\ account[Client] = "profile" /\ Primaries(wallet, Client) # {}
      /\ identity[Client] = Identity /\ Client \in Merchant
      /\ \A m \in Merchant \ { Client } : "registration" \notin identity[m]
  BY WalletAssumption DEF Kept
<1>2. identity \in [ Merchant -> SUBSET Identity ]
  BY DEF WalletInv, WalletTypeOK
<1>3. FirstAdded = {} /\ Flushed = identity
  BY <1>1, <1>2 DEF FirstAdded, Flushed
<1>4. /\ Synced = { m \in Merchant : "name" \in identity[m] }
      /\ Synced # {}
  BY <1>1, <1>3 DEF Synced, Identity
<1>5. PICK m \in Synced :
        \E table \in IF Primaries(wallet, m) = {} THEN { wallet } ELSE Rewritten(m) :
          SeedWrites([ identity EXCEPT ![m] = Identity ], table, SyncAdded(m))
  BY <1>3, <1>4 DEF Seed
<1>6. PICK table \in IF Primaries(wallet, m) = {} THEN { wallet } ELSE Rewritten(m) :
        SeedWrites([ identity EXCEPT ![m] = Identity ], table, SyncAdded(m))
  BY <1>5
<1>7. CASE m # Client
  <2>1. /\ m \in Merchant /\ "name" \in identity[m]
        /\ [ identity EXCEPT ![m] = Identity ][m] = Identity
        /\ [ identity EXCEPT ![m] = Identity ][Client] = Identity
    BY <1>1, <1>2, <1>4, <1>7
  <2>2. ~SeedCommits([ identity EXCEPT ![m] = Identity ], table, SyncAdded(m))
    BY <2>1, <1>1, <1>7 DEF SeedCommits, Identity
  <2>3. QED
    BY <2>1, <2>2, <1>6, <1>7 DEF SeedWrites, Mistaken
<1>8. CASE m = Client
  <2>1. [ identity EXCEPT ![m] = Identity ] = identity /\ SyncAdded(m) = {}
    BY <1>1, <1>2, <1>8 DEF SyncAdded
  <2>2. PICK p \in Primaries(wallet, Client) : table = Corrected(p)
    BY <1>1, <1>6, <1>8 DEF Rewritten, Corrected
  <2>3. SeedWrites(identity, Corrected(p), {})
    BY <2>1, <2>2, <1>6
  <2>4. SeedCommits(identity, Corrected(p), {}) <=> Differ(p)
    BY <1>1, <1>3 DEF SeedCommits, Differ
  <2>5. [ account EXCEPT ![Client] = IF @ = "none" THEN "profile" ELSE @ ] = account
    BY <1>1 DEF WalletInv, WalletTypeOK
  <2>6. Seeded(Corrected(p), FirstAdded \cup {}, starts + 1) = Corrected(p)
    BY <1>3 DEF Seeded
  <2>7. CorrectsOne(p)
    <3>1. CASE Differ(p)
      <4>1. /\ wallet' = Corrected(p) /\ account' = account /\ identity' = identity
            /\ reference' = reference \cup ReferenceData \cup SiteContent
            /\ server' = "serving"
        BY <3>1, <2>3, <2>4, <2>5, <2>6 DEF SeedWrites
      <4>2. QED
        BY <4>1, <3>1 DEF CorrectsOne
    <3>2. CASE ~Differ(p)
      BY <3>2, <2>3, <2>4 DEF SeedWrites, CorrectsOne
    <3>3. QED
      BY <3>1, <3>2
  <2>8. QED
    BY <2>7
<1>9. QED
  BY <1>7, <1>8

\* A wallet whose address the seed corrects stays the row it was.
LEMMA CorrectedRows ==
  ASSUME WalletInv, NEW p \in Primaries(wallet, Client)
  PROVE  /\ Corrected(p) \in [ RowName -> Row \cup { Null } ]
         /\ p \in RowName
         /\ Corrected(p)[p].address = ClientAddress
         /\ \A n \in RowName :
              /\ Corrected(p)[n] # Null <=> wallet[n] # Null
              /\ Corrected(p)[n].merchant = wallet[n].merchant
              /\ Corrected(p)[n].primary = wallet[n].primary
              /\ n # p => Corrected(p)[n] = wallet[n]
         /\ \A m \in Merchant : /\ Rows(Corrected(p), m) = Rows(wallet, m)
                                /\ Primaries(Corrected(p), m) = Primaries(wallet, m)
<1>1. p \in RowName /\ wallet[p] # Null /\ wallet \in [ RowName -> Row \cup { Null } ]
  BY DEF WalletInv, WalletTypeOK, Primaries, Rows
<1>2. wallet[p] \in Row
  BY <1>1
<1>3. [ wallet[p] EXCEPT !.address = ClientAddress ] \in Row
  BY <1>2, WalletAssumption DEF Row
<1>4. Corrected(p)[p] = [ wallet[p] EXCEPT !.address = ClientAddress ]
  BY <1>1 DEF Corrected
<1>5. Corrected(p) \in [ RowName -> Row \cup { Null } ]
  BY <1>1, <1>3 DEF Corrected
<1>6. Corrected(p)[p] # Null
  BY <1>3, <1>4, NullAssumption
<1>7. \A n \in RowName : n # p => Corrected(p)[n] = wallet[n]
  BY <1>1 DEF Corrected
<1>8. /\ Corrected(p)[p].address = ClientAddress
      /\ Corrected(p)[p].merchant = wallet[p].merchant
      /\ Corrected(p)[p].primary = wallet[p].primary
  BY <1>2, <1>4 DEF Row
<1>9. \A n \in RowName :
        /\ Corrected(p)[n] # Null <=> wallet[n] # Null
        /\ Corrected(p)[n].merchant = wallet[n].merchant
        /\ Corrected(p)[n].primary = wallet[n].primary
  BY <1>1, <1>6, <1>7, <1>8
<1>10. \A m \in Merchant : Rows(Corrected(p), m) = Rows(wallet, m)
  BY <1>1, <1>5, <1>9 DEF Rows
<1>11. \A m \in Merchant : Primaries(Corrected(p), m) = Primaries(wallet, m)
  BY <1>1, <1>9, <1>10 DEF Primaries, Rows
<1>12. QED
  BY <1>1, <1>5, <1>7, <1>8, <1>9, <1>10, <1>11

\* A start, with the seed or without.
LEMMA StartKeeps ==
  ASSUME WalletInv, Start
  PROVE  WalletInv'
<1>1. /\ server # "serving" /\ starts' \in 0 .. MaxStarts
      /\ stage' = stage /\ before' = before /\ asked' = asked /\ read' = read
  BY WalletAssumption DEF Start, requestVars, WalletInv, WalletTypeOK
<1>2. \A r \in Request : stage[r] \notin Open
  BY <1>1 DEF WalletInv, Idle
<1>3. SessionInv' /\ Idle' /\ ReplacesOwn' /\ UnseenIsLater'
  BY <1>1, <1>2
     DEF WalletInv, SessionInv, RequestTypeOK, Ended, Idle, ReplacesOwn,
         UnseenIsLater, Open
<1>4. \A q \in Request : Ok(q, "wallet")' <=> Ok(q, "wallet")
  BY <1>1 DEF Ok
<1>5. CASE UNCHANGED << wallet, account, identity, reference >> /\ (server' = "serving" \/ Blank)
  <2>1. server' \in { "serving", "failed" }
    BY <1>5, BlankSeedFails DEF Start
  <2>2. WalletTypeOK' /\ (Blank \/ Kept)'
    BY <2>1, <1>1, <1>5 DEF WalletInv, WalletTypeOK, Blank, Kept
  <2>3. InsertedByDone' /\ AddressesDiffer' /\ LatestPrimaryPays'
    BY <1>1, <1>4, <1>5
       DEF WalletInv, InsertedByDone, AddressesDiffer, LatestPrimaryPays
  <2>4. SeedFailureCauses'
    BY <1>5, WalletAssumption DEF SeedFailureCauses, Blank
  <2>5. QED
    BY <2>2, <2>3, <2>4, <1>3 DEF WalletInv
<1>6. CASE Kept /\ Mistaken
  <2>1. server' = "failed" /\ UNCHANGED << wallet, account, identity, reference >>
    BY <1>6 DEF Mistaken
  <2>2. WalletTypeOK' /\ Kept'
    BY <2>1, <1>1, <1>6 DEF WalletInv, WalletTypeOK, Kept
  <2>3. InsertedByDone' /\ AddressesDiffer' /\ LatestPrimaryPays'
    BY <2>1, <1>1, <1>4
       DEF WalletInv, InsertedByDone, AddressesDiffer, LatestPrimaryPays
  <2>4. SeedFailureCauses'
    BY <2>1, <1>6 DEF SeedFailureCauses, Mistaken
  <2>5. QED
    BY <2>2, <2>3, <2>4, <1>3 DEF WalletInv
<1>7. CASE Kept /\ \E p \in Primaries(wallet, Client) : CorrectsOne(p)
  <2>1. PICK p \in Primaries(wallet, Client) : CorrectsOne(p)
    BY <1>7
  <2>2. /\ Corrected(p) \in [ RowName -> Row \cup { Null } ]
        /\ p \in RowName
        /\ Corrected(p)[p].address = ClientAddress
        /\ \A n \in RowName :
             /\ Corrected(p)[n] # Null <=> wallet[n] # Null
             /\ Corrected(p)[n].merchant = wallet[n].merchant
             /\ Corrected(p)[n].primary = wallet[n].primary
             /\ n # p => Corrected(p)[n] = wallet[n]
        /\ \A m \in Merchant : /\ Rows(Corrected(p), m) = Rows(wallet, m)
                               /\ Primaries(Corrected(p), m) = Primaries(wallet, m)
    BY CorrectedRows
  <2>3. /\ Differ(p) => /\ wallet' = Corrected(p) /\ account' = account
                        /\ identity' = identity /\ server' = "serving"
        /\ ~Differ(p) => /\ server' = "failed"
                         /\ UNCHANGED << wallet, account, identity, reference >>
        /\ reference' \subseteq ReferenceData \cup SiteContent
    BY <2>1 DEF WalletInv, WalletTypeOK, CorrectsOne
  <2>4. WalletTypeOK'
    BY <2>2, <2>3, <1>1 DEF WalletInv, WalletTypeOK
  <2>5. Kept'
    BY <2>2, <2>3, <1>7, WalletAssumption DEF Kept
  <2>6. InsertedByDone'
    BY <2>2, <2>3, <1>1, <1>4 DEF WalletInv, InsertedByDone
  <2>7. LatestPrimaryPays'
    <3>1. \A q \in Request : asked[q].merchant \in Merchant
      BY WorkloadAssumption DEF WalletInv, SessionInv
    <3>2. \A m \in Merchant : Primaries(wallet', m) = Primaries(wallet, m)
      BY <2>2, <2>3
    <3>3. QED
      BY <3>1, <3>2, <1>1, <1>4 DEF WalletInv, LatestPrimaryPays
  <2>8. CASE Differ(p)
    <3>1. AddressesDiffer'
      <4> SUFFICES ASSUME NEW m \in Merchant, NEW n \in Rows(Corrected(p), m),
                          NEW k \in Rows(Corrected(p), m),
                          Corrected(p)[n].address = Corrected(p)[k].address
                   PROVE  n = k
        BY <2>3, <2>8 DEF AddressesDiffer
      <4>1. QED
        BY <2>8 DEF Differ
    <3>2. SeedFailureCauses'
      BY <2>3, <2>8 DEF SeedFailureCauses
    <3>3. QED
      BY <3>1, <3>2, <2>4, <2>5, <2>6, <2>7, <1>3 DEF WalletInv
  <2>9. CASE ~Differ(p)
    <3>1. AddressesDiffer'
      BY <2>3, <2>9 DEF WalletInv, AddressesDiffer
    <3>2. PICK k \in Rows(wallet, Client) :
            k # p /\ wallet[k].address = ClientAddress
      <4>1. PICK m \in Merchant :
              \E n, k \in Rows(Corrected(p), m) :
                Corrected(p)[n].address = Corrected(p)[k].address /\ n # k
        BY <2>9 DEF Differ
      <4>2. PICK n \in Rows(Corrected(p), m), k \in Rows(Corrected(p), m) :
              Corrected(p)[n].address = Corrected(p)[k].address /\ n # k
        BY <4>1
      <4>3. /\ n \in Rows(wallet, m) /\ k \in Rows(wallet, m)
            /\ n \in RowName /\ k \in RowName
        BY <4>2, <2>2 DEF Rows, WalletInv, WalletTypeOK
      <4>4. n = p \/ k = p
        BY <4>2, <4>3, <2>2 DEF WalletInv, AddressesDiffer
      <4>5. m = Client
        BY <4>3, <4>4 DEF Rows, Primaries
      <4>6. QED
        BY <4>2, <4>3, <4>4, <4>5, <2>2
    <3>3. /\ k \in RowName /\ p \in RowName /\ p \in Rows(wallet, Client)
          /\ wallet[k] # Null /\ wallet[p] # Null
          /\ wallet[k].merchant = Client /\ wallet[p].merchant = Client
      BY <3>2 DEF Rows, Primaries, WalletInv, WalletTypeOK
    <3>4. k \in Request \/ p \in Request
      BY <3>2, <3>3 DEF WalletInv, InsertedByDone
    <3>5. \E r \in Request : Ok(r, "wallet") /\ asked[r].merchant = Client
      BY <3>3, <3>4 DEF WalletInv, InsertedByDone
    <3>6. Primaries(wallet, Client) \ { k } # {}
      BY <3>2
    <3>7. SeedFailureCauses'
      BY <3>2, <3>5, <3>6, <2>3, <2>9, <1>1, <1>4 DEF SeedFailureCauses
    <3>8. QED
      BY <3>1, <3>7, <2>4, <2>5, <2>6, <2>7, <1>3 DEF WalletInv
  <2>10. QED
    BY <2>8, <2>9
<1>8. QED
  BY <1>5, <1>6, <1>7, BlankSeedFails, LaterSeed DEF Start, WalletInv

\* What a step of a device's handler does to its session.
LEMMA DeviceStepSession ==
  ASSUME SessionInv, asked' = asked, NEW r \in Request,
         NEW hasProfile \in BOOLEAN, DeviceStep(r, asked[r], hasProfile)
  PROVE  /\ asked[r].op \in DeviceOps /\ SessionInv'
         /\ \A q \in Request : q # r => stage'[q] = stage[q] /\ before'[q] = before[q]
<1>1. asked[r].op \in DeviceOps
  BY DEF DeviceStep, BeginRegister, BeginHeartbeat, CommitDevice, DeviceOps
<1>2. CASE \E next \in { "open", "refused" } : Begin(r, next)
  BY <1>1, <1>2, BeginSession
<1>3. CASE \E from \in Open, next \in { "flushed", "refused", "done" } :
             Advance(r, from, next)
  BY <1>1, <1>3, AdvanceSession
<1>4. \/ \E next \in { "open", "refused" } : Begin(r, next)
      \/ \E from \in Open, next \in { "flushed", "refused", "done" } :
           Advance(r, from, next)
  BY DEF DeviceStep, BeginRegister, BeginHeartbeat, Flush, CommitDevice, Open
<1>5. QED
  BY <1>2, <1>3, <1>4

\* Every step keeps what is known of accounts and wallets.
LEMMA NextWallets ==
  ASSUME WalletInv, [Next]_vars
  PROVE  WalletInv'
<1>0. SessionInv /\ server \in { "down", "serving", "failed" } /\ starts \in 0 .. MaxStarts
  BY DEF WalletInv, WalletTypeOK
<1>1. ASSUME NEW r \in Request, Serve(r)
      PROVE  WalletInv'
  <2>1. server = "serving" /\ UNCHANGED << asked, server, starts >>
    BY <1>1 DEF Serve
  <2>2. CASE WalletStep(r)
    BY <2>1, <2>2, BeginWalletKeeps, AccountKeeps, WriteWalletKeeps DEF WalletStep
  <2>3. CASE /\ DeviceStep(r, asked[r], account[asked[r].merchant] = "profile")
             /\ UNCHANGED walletVars
    <3>1. /\ asked[r].op \in DeviceOps /\ SessionInv'
          /\ \A q \in Request : q # r =>
               stage'[q] = stage[q] /\ before'[q] = before[q]
      BY <2>1, <2>3, <1>0, DeviceStepSession
    <3>2. Idle'
      BY <2>1 DEF Idle
    <3>3. QED
      BY <3>1, <3>2, <2>1, <2>3, <1>0, WalletsUntouched DEF WalletOps, DeviceOps
  <2>4. QED
    BY <2>2, <2>3, <1>1 DEF Serve
<1>2. CASE Start
  BY <1>2, StartKeeps
<1>3. CASE Stop
  <2>1. /\ SessionInv' /\ before' = before
        /\ \A q \in Request :
             \/ stage'[q] = stage[q] /\ stage[q] \notin Open
             \/ stage[q] \in Open /\ stage'[q] = "refused"
    BY <1>3, <1>0, StopSession DEF Stop
  <2>2. /\ UNCHANGED << asked, walletVars >> /\ starts' = starts /\ server' = "down"
    BY <1>3 DEF Stop
  <2>3. Idle'
    BY <2>1 DEF Idle, Open
  <2>4. QED
    BY <2>1, <2>2, <2>3, <1>0, WalletsUntouched DEF Open
<1>4. CASE UNCHANGED vars
  <2>1. /\ UNCHANGED << asked, walletVars, stage, before, server, starts >>
    BY <1>4 DEF vars, requestVars
  <2>2. SessionInv' /\ Idle'
    BY <2>1 DEF WalletInv, SessionInv, RequestTypeOK, Ended, Idle
  <2>3. QED
    BY <2>1, <2>2, <1>0, WalletsUntouched
<1>5. QED
  BY <1>1, <1>2, <1>3, <1>4 DEF Next

(***************************************************************************)
(* The bookkeeping of accounts and wallets: who inserted which row, what   *)
(* open requests will replace, and what a start finds, in every state.     *)
(***************************************************************************)
THEOREM WalletInvariant == Spec => []WalletInv
<1>1. Init => WalletInv
  BY InitWallets
<1>2. WalletInv /\ [Next]_vars => WalletInv'
  BY NextWallets
<1>3. QED
  BY <1>1, <1>2, PTL DEF Spec

(***************************************************************************)
(* Every table and every session keeps its type.                           *)
(***************************************************************************)
THEOREM RecordsTyped == Spec => []TypeOK
<1>1. DeviceInv /\ WalletInv => TypeOK
  BY DEF DeviceInv, WalletInv, SessionInv, TypeOK
<1>2. QED
  BY <1>1, DeviceInvariant, WalletInvariant, PTL

(***************************************************************************)
(* The payee is the latest primary wallet (MerchantService.add_wallet),    *)
(* whatever requests, stops and seeds come between.                        *)
(***************************************************************************)
THEOREM LatestPays == Spec => []LatestPrimaryPays
<1>1. WalletInv => LatestPrimaryPays
  BY DEF WalletInv
<1>2. QED
  BY <1>1, WalletInvariant, PTL

(***************************************************************************)
(* A seed (scripts/seed.py) raises for one of three reasons only, whatever *)
(* wallets and companies merchants have posted before.                     *)
(***************************************************************************)
THEOREM SeedFailure == Spec => []SeedFailureCauses
<1>1. WalletInv => SeedFailureCauses
  BY DEF WalletInv
<1>2. QED
  BY <1>1, WalletInvariant, PTL

(***************************************************************************)
(* After a start that seeded, the client's primary wallets carry the       *)
(* client's address, but for two that requests which overlapped left.      *)
(***************************************************************************)
THEOREM SeedPaysClient == Spec => SeedRestoresPayee
<1>1. ASSUME WalletInv, Start, Seed, server' = "serving",
             ~(\E n, k \in Primaries(wallet, Client) : n # k /\ Overlap(n, k))
      PROVE  \A n \in Primaries(wallet', Client) : wallet'[n].address = ClientAddress
  <2>1. Kept
    BY <1>1, BlankSeedFails DEF WalletInv
  <2>2. PICK p \in Primaries(wallet, Client) : CorrectsOne(p)
    BY <2>1, <1>1, LaterSeed DEF Mistaken
  <2>3. wallet' = Corrected(p)
    BY <2>2, <1>1 DEF CorrectsOne
  <2>4. /\ wallet'[p].address = ClientAddress
        /\ Primaries(wallet', Client) = Primaries(wallet, Client)
    <3>1. /\ Corrected(p)[p].address = ClientAddress
          /\ Primaries(Corrected(p), Client) = Primaries(wallet, Client)
      BY <1>1, CorrectedRows, WalletAssumption
    <3>2. QED
      BY <3>1, <2>3
  <2>5. ASSUME NEW n \in Primaries(wallet, Client), n # p
        PROVE  FALSE
    <3>1. \A k \in Primaries(wallet, Client) :
            /\ k \in RowName /\ wallet[k] # Null /\ wallet[k].merchant = Client
            /\ wallet[k].primary
      BY <1>1 DEF Primaries, Rows, WalletInv, WalletTypeOK
    <3>2. \A k \in Primaries(wallet, Client) : k \in Request =>
            /\ Ok(k, "wallet") /\ asked[k].merchant = Client /\ asked[k].primary
            /\ Primaries(wallet, Client) \subseteq Request \ before[k]
      BY <3>1, <1>1 DEF WalletInv, InsertedByDone, LatestPrimaryPays
    <3>3. \A k \in Primaries(wallet, Client) : k \notin Request => k = 0
      BY <3>1, <1>1 DEF WalletInv, InsertedByDone
    <3>4. n \in Request /\ p \in Request
      BY <2>5, <3>2, <3>3
    <3>5. Overlap(n, p)
      BY <3>2, <3>4 DEF Overlap
    <3>6. QED
      BY <3>5, <2>5, <1>1
  <2>6. QED
    BY <2>4, <2>5
<1>2. WalletInv /\ [Next]_vars =>
        [ Start /\ Seed /\ server' = "serving" /\ account'[Client] = "profile" =>
            \/ \A n \in Primaries(wallet', Client) : wallet'[n].address = ClientAddress
            \/ \E n, k \in Primaries(wallet, Client) : n # k /\ Overlap(n, k) ]_vars
  BY <1>1
<1>3. QED
  BY <1>2, WalletInvariant, PTL DEF Spec, SeedRestoresPayee

=============================================================================
