--------------------------- MODULE ModbusAdapter ---------------------------
(***************************************************************************)
(* The Modbus adapter of a skid (edge/common/modbus_adapter.py): a         *)
(* connection made once, a lock that lets one request at a time onto the   *)
(* bus, and a flag that a failed request clears.  The pymodbus client,     *)
(* which is external, loses and restores its link by itself.               *)
(***************************************************************************)
EXTENDS Integers, Sequences

CONSTANTS BusCallers,  \* tasks that send requests
          Nobody

VARIABLES
  bus,           \* self._client: "disabled" (no MODBUS_HOST), "none", "up" or "down"
  busConnected,  \* self._connected
  holder,        \* who holds self._lock and waits for a response, or Nobody
  queue          \* who waits for the lock, in order

busVars == <<bus, busConnected, holder, queue>>

ASSUME NobodyAssumption == Nobody \notin BusCallers

BusTypeOK ==
  /\ bus \in {"disabled", "none", "up", "down"}
  /\ busConnected \in BOOLEAN
  /\ holder \in BusCallers \cup {Nobody}
  /\ queue \in Seq(BusCallers)

BusInit ==
  /\ bus \in {"disabled", "none"}
  /\ busConnected = FALSE /\ holder = Nobody /\ queue = <<>>

OnBus(c) == holder = c \/ \E i \in DOMAIN queue : queue[i] = c

\* connect: an attempt that fails closes its client and is made again after a pause.
BusOpens ==
  /\ bus = "none"
  /\ bus' = "up" /\ busConnected' = TRUE
  /\ UNCHANGED <<holder, queue>>

\* disconnect, which does not wait for the lock.
BusCloses ==
  /\ bus' = IF bus = "disabled" THEN bus ELSE "none"
  /\ busConnected' = FALSE

\* A register or coil operation asks for the lock; asyncio's lock is first come, first served.
Request(c) ==
  /\ bus # "disabled" /\ ~OnBus(c)
  /\ queue' = Append(queue, c)
  /\ UNCHANGED <<bus, busConnected, holder>>

\* Whoever gets the lock sends, or is refused (_assert_connected) and lets go again.
Acquire ==
  /\ holder = Nobody /\ queue # <<>>
  /\ holder' = IF busConnected /\ bus # "none" THEN Head(queue) ELSE Nobody
  /\ queue' = Tail(queue)
  /\ UNCHANGED <<bus, busConnected>>

Release == holder' = Nobody /\ UNCHANGED <<bus, queue>>

Responds(c) == holder = c /\ bus = "up" /\ Release /\ UNCHANGED busConnected

\* A ModbusException: no response, the client closed, or an error response of the device.
RequestFails(c) == holder = c /\ Release /\ busConnected' = FALSE

\* Any other exception leaves the flag as it is.
RequestRaises(c) == holder = c /\ bus # "up" /\ Release /\ UNCHANGED busConnected

\* External: the library reconnects its client, and the adapter's flag does not hear of it.
LinkFlips ==
  /\ \/ bus = "up" /\ bus' = "down"
     \/ bus = "down" /\ bus' = "up"
  /\ UNCHANGED <<busConnected, holder, queue>>

BusReturns(c) == Responds(c) \/ RequestFails(c) \/ RequestRaises(c)

BusNext ==
  \/ BusOpens \/ Acquire \/ LinkFlips
  \/ BusCloses /\ UNCHANGED <<holder, queue>>
  \/ \E c \in BusCallers : Request(c) \/ BusReturns(c)
=============================================================================
