--------------------------- MODULE DeviceRecords ---------------------------
(***************************************************************************)
(* Registration and heartbeats of one POS device (one serial number):      *)
(* app/services/device_service.py.                                         *)
(*                                                                         *)
(* A handler reads the device's row, flushes it, reads the device's        *)
(* information, merges into it and commits.  The flush takes the row's     *)
(* lock (or the serial number's place in the unique index) until the       *)
(* commit, so what follows it is done one request at a time; what came     *)
(* before it may be stale.                                                 *)
(*                                                                         *)
(* A status report is named by the request that makes it.  Manufacturer,   *)
(* Android and app versions go the way of the model and are left out.      *)
(***************************************************************************)
EXTENDS Requests

CONSTANTS
  Model,
  Field    \* the status fields of a request: printer, card reader, ...

VARIABLES
  device,  \* the row of sunmi_devices
  info,    \* the row of device_information
  loaded   \* what a request has read of both

deviceVars == << device, info, loaded >>

\* `by` is an observation: the request that wrote the model.
Device(merchants) == [ merchant : merchants, model : Model, by : Request ]
Info == [ model : Model, by : Request,
          status : [ Field -> Request \cup { Null } ] ]

Copy(merchants) ==
  [ device : Device(merchants) \cup { Null }, info : Info \cup { Null } ]

DeviceTypeOK(merchants) ==
  /\ device \in Device(merchants) \cup { Null }
  /\ info \in Info \cup { Null }
  /\ loaded \in [ Request -> Copy(merchants) ]

DeviceInit ==
  /\ device = Null /\ info = Null
  /\ loaded = [ r \in Request |-> [ device |-> Null, info |-> Null ] ]

\* A mutant: the handler does not flush before it reads the information.
DeviceFreeAlways == TRUE

\* The row, or the index entry, that a flushed request holds until it ends.
DeviceFree == \A q \in Request : stage[q] # "flushed"

\* _extra_status: a field without a value is not reported.
Reported(asks, kept, r) ==
  [ f \in Field |-> IF f \in asks.fields THEN r ELSE kept[f] ]

-----------------------------------------------------------------------------

\* The merchant's profile and the device's row are read.
BeginRegister(r, asks, hasProfile) ==
  LET allowed == hasProfile /\ (device # Null => device.merchant = asks.merchant)
  IN  /\ asks.op = "register"
      /\ Begin(r, IF allowed THEN "open" ELSE "refused")
      /\ loaded' = [ loaded EXCEPT ![r].device = IF allowed THEN device ELSE Null ]
      /\ UNCHANGED << device, info >>

BeginHeartbeat(r, asks, hasProfile) ==
  LET known == hasProfile /\ device # Null /\ device.merchant = asks.merchant
  IN  /\ asks.op = "heartbeat"
      /\ Begin(r, IF known THEN "open" ELSE "refused")
      /\ loaded' = [ loaded EXCEPT ![r].device = IF known THEN device ELSE Null ]
      /\ UNCHANGED << device, info >>

\* The flush: an UPDATE of the row that was read, or an INSERT that finds a row
\* committed meanwhile (ix_sunmi_devices_serial).  Then the information is read.
Flush(r) ==
  LET conflict == loaded[r].device = Null /\ device # Null
  IN  /\ DeviceFree
      /\ Advance(r, "open", IF conflict THEN "refused" ELSE "flushed")
      /\ loaded' = [ loaded EXCEPT ![r].info = IF conflict THEN Null ELSE info ]
      /\ UNCHANGED << device, info >>

\* A column that is set to the value it was loaded with is not in the UPDATE.
DeviceAfter(r, asks) ==
  LET old == loaded[r].device
  IN  IF old = Null
      THEN [ merchant |-> asks.merchant, model |-> asks.model, by |-> r ]
      ELSE IF asks.op = "register" /\ asks.model # old.model
      THEN [ device EXCEPT !.model = asks.model, !.by = r ]
      ELSE device

Earlier(r) ==
  IF loaded[r].info = Null THEN [ f \in Field |-> Null ] ELSE loaded[r].info.status

\* A mutant: an empty report is stored as none.
InfoAfterNone(r, asks) ==
  [ model  |-> IF asks.op = "register" THEN asks.model ELSE loaded[r].device.model,
    by     |-> r,
    status |-> IF asks.fields = {} THEN Null ELSE Reported(asks, Earlier(r), r) ]

\* A mutant: the model is written when the row is inserted.
InfoAfterModelKept(r, asks) ==
  [ model  |-> IF loaded[r].info = Null THEN asks.model ELSE loaded[r].info.model,
    by     |-> r,
    status |-> Reported(asks, Earlier(r), r) ]

\* _upsert_info: the model is the one asked for, or the one a heartbeat read;
\* the report is merged over what was there.
InfoAfter(r, asks) ==
  [ model  |-> IF asks.op = "register" THEN asks.model ELSE loaded[r].device.model,
    by     |-> r,
    status |-> Reported(asks, Earlier(r), r) ]

CommitDevice(r, asks) ==
  /\ asks.op \in { "register", "heartbeat" }
  /\ Advance(r, "flushed", "done")
  /\ device' = DeviceAfter(r, asks)
  /\ info' = InfoAfter(r, asks)
  /\ UNCHANGED loaded

DeviceStep(r, asks, hasProfile) ==
  \/ BeginRegister(r, asks, hasProfile)
  \/ BeginHeartbeat(r, asks, hasProfile)
  \/ asks.op \in { "register", "heartbeat" } /\ Flush(r)
  \/ CommitDevice(r, asks)

=============================================================================
