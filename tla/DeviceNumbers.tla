---------------------------- MODULE DeviceNumbers ----------------------------
(*****************************************************************************)
(* The numbers two tools have to agree on: the data generator writes the     *)
(* devices of a range of keys, the load generator asks for devices by their  *)
(* numbers; both encrypt a number with the same key.                         *)
(*****************************************************************************)
EXTENDS BudgetBatches, RequestBuilder

\* A device table that the load generator is used with ends below the devices
\* asked for in vain.
ASSUME DeviceTableAssumption ==
  \A c \in Configs : c.Type = "devices" => Resolve(c).KeyHigh <= maxDatabaseDeviceID

\* Numbers of devices the load generator may be told to use: as many as the
\* runs that ended well have written, from the first one on.
Usable == {used \in 0 .. maxDatabaseDeviceID : {1} \cup (1 .. used) \subseteq filled}

\* Once the devices are written, by one run or by several that divide the range
\* between them, the load generator's bid requests find their device whenever
\* no more devices are used than there are, and its no-bid requests never do:
\* the two tools agree on the numbers.
DevicesKnown ==
  cfg.Type = "devices" =>
    \A used \in Usable, percent \in {0, 20, 50, 75} :
      /\ BidDevices(used) \subseteq DOMAIN stored
      /\ NobidDevices(used, percent) \cap DOMAIN stored = {}
=============================================================================
