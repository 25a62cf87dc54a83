---------------------------- MODULE RequestBuilder ----------------------------
(*****************************************************************************)
(* The bid requests of the load generator (request_builder), as the requests *)
(* of BidHandler: which fields the two templates have, the header the        *)
(* targeter adds, and the numbers of the devices asked for.  An identifier   *)
(* drawn at random is any value; a device ID is the number that is encrypted *)
(* with the key that the data generator uses as well.                        *)
(*****************************************************************************)
EXTENDS Integers

CONSTANTS maxDatabaseDeviceID

ASSUME BuilderAssumption == maxDatabaseDeviceID \in Nat

\* The identifiers are uuid strings, never empty; the encrypted device ID is
\* 32 hexadecimal digits, which uuid.ParseBytes() accepts like a uuid.
Template3(id, item) ==
  [route |-> "bid", form |-> "3.0", id |-> id, ifa |-> "uuid", items |-> <<item>>,
   unfit |-> {}]

Template2(id, item) ==
  [route |-> "bid", form |-> "2.5", id |-> id, ifa |-> "uuid", items |-> <<item>>,
   unfit |-> {}]

WithHeader(body, version) ==
  [f \in DOMAIN body \cup {"header"} |-> IF f = "header" THEN version ELSE body[f]]

\* Builder.Generate() with chooseTemplate(), and the targeter's header.
Generated(id, item) ==
  {WithHeader(Template3(id, item), "3.0"), WithHeader(Template2(id, item), "2.5")}

\* generateDeviceIFA(): Intn() leaves the upper end out.
RandomID(min, max) == min .. max - 1

BidDevices(devicesUsed) == IF devicesUsed > 1 THEN RandomID(1, devicesUsed) ELSE {1}

\* Mutant: the devices that are not in the database start after the ones used.
NobidDevicesNear(devicesUsed, percent) ==
  LET maxID == (devicesUsed * percent) \div (100 - percent)
  IN IF maxID <= 1 THEN {devicesUsed + 1} ELSE RandomID(devicesUsed + 1, devicesUsed + maxID)

\* The number of unknown devices keeps the cache hit rate of the known ones.
NobidDevices(devicesUsed, percent) ==
  LET maxID == (devicesUsed * percent) \div (100 - percent)
  IN IF maxID <= 1
     THEN {maxDatabaseDeviceID + 1}
     ELSE RandomID(maxDatabaseDeviceID + 1, maxDatabaseDeviceID + maxID)
=============================================================================
