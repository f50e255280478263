-------------------------------- MODULE Raid --------------------------------
(***************************************************************************)
(* The RAID back ends of the zoned block device: RAID0, RAID1, RAID-C and  *)
(* RAID-auto with its two default layouts, under the Zone layer that       *)
(* appends to a zone, finishes it and resets it.  Sources:                 *)
(* fs/raid/zone_raid*.cc and the Zone operations of fs/zbd_aquafs.cc.      *)
(*                                                                         *)
(* Sizes are in blocks.  A device zone is the sequence of blocks written   *)
(* to it, its length the write pointer; a block holds the logical address  *)
(* it was written for and the generation of the zone, so that stale and    *)
(* misplaced data can be told from the right ones.  A device zone can go   *)
(* offline, a block write, a finish or a reset of one device can fail, and *)
(* the system can restart at any point.  The default build is modelled,    *)
(* without AQUAFS_RAID_URING, on devices of equal geometry (asserted by    *)
(* AbstractRaidZonedBlockDevice::Open).                                    *)
(***************************************************************************)
EXTENDS Integers, Sequences, FiniteSets, SequencesExt, FiniteSetsExt

CONSTANTS
    Modes,      \* the modes of the array that are explored
    N,          \* nr_dev()
    NZ,         \* zones of a device
    ZB,         \* blocks of a device zone
    Meta,       \* AQUAFS_META_ZONES
    InPlay,     \* bound: for each mode, the sets of logical zones that are used
    MaxAppend,  \* bound: blocks of one append
    MaxResets,  \* bound: resets of zones
    MaxLosses,  \* bound: device zones that go offline
    Faults      \* which device operations may fail: "write", "finish", "reset"

AllModes == {"RAID0", "RAID1", "RAIDC", "AUTO0", "AUTO1"}

(* nr_zones_ of each back end; RAID-auto maps the zones of its default     *)
(* layout only.                                                            *)
NrZones(m) ==
    CASE m \in {"RAID0", "RAID1"} -> NZ
      [] m = "RAIDC" -> N * NZ
      [] m = "AUTO0" -> NZ \div 2
      [] m = "AUTO1" -> NZ \div 3

ASSUME RaidAssumption ==
    /\ Modes \subseteq AllModes
    /\ {N, NZ, ZB, Meta, MaxAppend} \subseteq Nat \ {0}
    /\ {MaxResets, MaxLosses} \subseteq Nat
    /\ Meta * N <= NZ
    /\ \A m \in Modes : \A S \in InPlay[m] : S \subseteq 0 .. NrZones(m) - 1
    /\ Faults \subseteq {"write", "finish", "reset"}

Devices == 0 .. N - 1
DeviceZones == Devices \X (0 .. NZ - 1)

VARIABLES
    mode,       \* main_mode_, and for RAID-auto the flag raid_auto_default
    disk,       \* device zone -> the blocks written to it
    offline,    \* the device zones that are offline
    map,        \* device_zone_map_: sub zone -> its device zones, in order
    inv,        \* the keys of device_zone_inv_map_
    zone,       \* the Zone objects: wp, room left and, as history, the blocks
                \* acknowledged, the generation, and whether it was finished
    suspect,    \* history: zones with a device finish or reset that failed, or
                \* that share their address with another zone that was used
    losses      \* history: per zone, its device zones that went offline

vars == <<mode, disk, offline, map, inv, zone, suspect, losses>>

RaidAuto == mode \in {"AUTO0", "AUTO1"}

-----------------------------------------------------------------------------
(* Layout                                                                  *)

(* The zones in play. *)
Zones == DOMAIN zone

(* zone_sz_ *)
ZoneSize == IF mode \in {"RAID1", "RAIDC"} THEN ZB ELSE N * ZB

(* ZoneStart: RAID-C answers with the address on the device. *)
Start(z) == IF mode = "RAIDC" THEN (z % NZ) * ZB ELSE z * ZoneSize

(* mode_map_ of RAID-auto: the meta zones are not striped or mirrored. *)
ZoneMode(z) ==
    IF ~RaidAuto THEN mode
    ELSE IF z < Meta THEN "NONE"
    ELSE IF mode = "AUTO0" THEN "RAID0" ELSE "RAID1"

(* The sub zone of RAID-auto that holds block k of zone z. *)
getAutoDeviceZoneIdx(z, k) ==
    z * N + IF ZoneMode(z) = "RAID0" THEN k % N ELSE k \div ZB

(* getFreeZoneDevice, getFreeDeviceZone: first device, first zone not in   *)
(* the inverse map.                                                        *)
Free(used) == DeviceZones \ used

\* Mutant of getFreeDeviceZone: zones in use are offered.
getFreeDeviceZoneTaken(d, used) == 0 .. NZ - 1

getFreeDeviceZone(d, used) == {z \in 0 .. NZ - 1 : <<d, z>> \notin used}

(* The order in which createMapping and createMappingTwice meet the free   *)
(* device zones: by zone, then by device.                                  *)
Earlier(a, b) == a[2] < b[2] \/ (a[2] = b[2] /\ a[1] <= b[1])
NthFree(used, n) ==
    CHOOSE p \in Free(used) : Cardinality({q \in Free(used) : Earlier(q, p)}) = n

(* createMapping(Twice) for zone z: its sub zones take `copies' device     *)
(* zones each, in that order.                                              *)
createMapping(al, z, copies) ==
    [map |-> [s \in DOMAIN al.map \cup z * N .. z * N + N - 1 |->
                IF s \in DOMAIN al.map THEN al.map[s]
                ELSE [i \in 1 .. copies |->
                        NthFree(al.inv, (s - z * N) * copies + i)]],
     inv |-> al.inv \cup {NthFree(al.inv, n) : n \in 1 .. N * copies}]

(* The constructor maps the sub zones of the meta zones to device 0.       *)
MetaMapping ==
    [map |-> [s \in 0 .. Meta * N - 1 |-> <<<<0, s>>>>],
     inv |-> {<<0, s>> : s \in 0 .. Meta * N - 1}]

(* RaidAutoZonedBlockDevice's constructor and Open: zone by zone. *)
Copies(m) == IF m = "AUTO1" THEN 2 ELSE 1
ZonesMapped(m) ==
    LET upTo[z \in 0 .. NrZones(m)] ==
          IF z <= Meta THEN MetaMapping
          ELSE createMapping(upTo[z - 1], z - 1, Copies(m))
    IN  upTo[NrZones(m)]
DefaultMapping(m) ==
    IF m \in {"AUTO0", "AUTO1"} THEN ZonesMapped(m) ELSE [map |-> <<>>, inv |-> {}]

(* The places of block k of zone z: one, or one for each mirror.  A place  *)
(* is a device zone and the block in it.                                   *)
Places(z, k) ==
    LET pos == Start(z) + k
        sub == getAutoDeviceZoneIdx(z, k)
        at(item, off) == [dz |-> item, off |-> off]
    IN  CASE mode = "RAID0" ->
               <<at(<<pos % N, (pos \div N) \div ZB>>, (pos \div N) % ZB)>>
          [] mode = "RAID1" ->
               <<at(<<0, pos \div ZB>>, pos % ZB)>>
          [] mode = "RAIDC" ->
               <<at(<<pos \div (NZ * ZB), (pos % (NZ * ZB)) \div ZB>>,
                    pos % ZB)>>
          [] RaidAuto /\ ZoneMode(z) = "RAID0" ->
               <<at(map[sub][1], (pos % ZoneSize) \div N)>>
          [] RaidAuto /\ ZoneMode(z) = "NONE" ->
               <<at(map[sub][1], pos % ZB)>>
          [] RaidAuto /\ ZoneMode(z) = "RAID1" ->
               [i \in 1 .. Len(map[sub]) |-> at(map[sub][i], pos % ZB)]

(* The device zones of a zone, in the order in which Reset and Finish walk *)
(* them.                                                                   *)
Members(z) ==
    CASE mode \in {"RAID0", "RAID1"} -> [i \in 1 .. N |-> <<i - 1, z>>]
      [] mode = "RAIDC" -> <<Places(z, 0)[1].dz>>
      [] RaidAuto -> FlattenSeq([i \in 1 .. N |-> map[z * N + i - 1]])

-----------------------------------------------------------------------------
(* Devices                                                                 *)

Block(z, k) == [z |-> z, k |-> k, gen |-> zone[z].gen]
NoZone == -1
Pad == [z |-> NoZone, k |-> 0, gen |-> 0]        \* after a finish
Zeros == [z |-> NoZone, k |-> 1, gen |-> 0]      \* beyond the write pointer
IOError == [z |-> NoZone, k |-> 2, gen |-> 0]

(* A device takes a block only at the write pointer of an online zone.     *)
DeviceWrite(acc, w) ==
    LET dz == w.place.dz
    IN  IF /\ acc.ok
           /\ dz \notin offline
           /\ Len(acc.disk[dz]) = w.place.off
        THEN [acc EXCEPT !.disk[dz] = Append(@, w.block)]
        ELSE [acc EXCEPT !.ok = FALSE]

(* The first n of the device writes ws. *)
Written(ws, n) ==
    LET upTo[i \in 0 .. Len(ws)] ==
          IF i = 0 THEN [disk |-> disk, ok |-> TRUE] ELSE DeviceWrite(upTo[i - 1], ws[i])
    IN  upTo[n]

(* Read of one block.  Every back end reads the first place only.          *)
Read(z, k) ==
    LET p == Places(z, k)[1]
    IN  IF p.dz \in offline THEN IOError
        ELSE IF p.off < Len(disk[p.dz]) THEN disk[p.dz][p.off + 1]
        ELSE Zeros

\* Mutant of Mirrors: only the first mirror is written.
MirrorsFirst(places) == 1

(* A write goes to every mirror. *)
Mirrors(places) == Len(places)

(* The device writes that a Write of blocks k .. k+n-1 makes, in order.    *)
(* Striped zones go block by block; RAID-auto cuts other requests at the   *)
(* ends of device zones and writes each piece to every mirror in turn.     *)
DeviceWrites(z, k, n) ==
    LET one(b, i) == [place |-> Places(z, b)[i], block |-> Block(z, b)]
        piece(c) == {b \in k .. k + n - 1 : b \div ZB = c}
        copies(c) == Mirrors(Places(z, Min(piece(c))))
        writes(c) ==
            FlattenSeq([i \in 1 .. copies(c) |->
               [j \in 1 .. Cardinality(piece(c)) |->
                  one(Min(piece(c)) + j - 1, i)]])
        first == k \div ZB
        last == (k + n - 1) \div ZB
    IN  IF ZoneMode(z) = "RAID0" THEN [j \in 1 .. n |-> one(k + j - 1, 1)]
        ELSE FlattenSeq([c \in 1 .. last - first + 1 |-> writes(first + c - 1)])

Sum(s) ==
    LET upTo[i \in 0 .. Len(s)] == IF i = 0 THEN 0 ELSE upTo[i - 1] + s[i]
    IN  upTo[Len(s)]

\* Mutant of ZoneWp: every mirror is counted.
ZoneWpMirrors(z) ==
    LET ms == Members(z)
    IN  Sum([i \in DOMAIN ms |-> Len(disk[ms[i]])])

(* What ZoneWp reports of a zone, relative to its start.  For a striped    *)
(* zone of RAID-auto flush_zone_info adds up the device zones found at the *)
(* offsets 0, 1, ... of the device zone size.                              *)
ZoneWp(z) ==
    LET written(dz) == Len(disk[dz])
    IN  CASE mode = "RAID0" -> Sum([i \in 1 .. N |-> written(<<i - 1, z>>)])
          [] mode = "RAID1" -> written(<<0, z>>)
          [] mode = "RAIDC" -> written(<<z \div NZ, z % NZ>>)
          [] RaidAuto -> Sum([i \in 1 .. N |->
                           written(map[getAutoDeviceZoneIdx(z, (i - 1) * ZB)][1])])

(* ZoneIsWritable and ZoneIsOffline look at one device zone of the zone.   *)
(* ZoneIsWritable is false for a full device zone too; such a zone may keep*)
(* capacity here that the code takes from it.                              *)
Usable(z) ==
    (CASE mode \in {"RAID0", "RAID1"} -> <<0, z>>
       [] mode = "RAIDC" -> <<z \div NZ, z % NZ>>
       [] RaidAuto -> map[z * N][1]) \notin offline

-----------------------------------------------------------------------------
Init ==
    /\ mode \in Modes
    /\ disk = [dz \in DeviceZones |-> <<>>]
    /\ offline = {}
    /\ map = DefaultMapping(mode).map
    /\ inv = DefaultMapping(mode).inv
    /\ \E S \in InPlay[mode] : zone = [z \in S |->
                 [wp |-> 0, cap |-> ZoneSize, acked |-> {}, gen |-> 0,
                  finished |-> FALSE]]
    /\ suspect = {}
    /\ losses = [z \in Zones |-> 0]

(* The zones that have the address of zone z. *)
Clash(z) == {y \in Zones : Start(y) = Start(z)}
Touched(z) == IF Clash(z) = {z} THEN {} ELSE Clash(z)

\* Mutant of Fits: the capacity left is not looked at.
FitsAlways(z, n) == TRUE

Fits(z, n) == n <= zone[z].cap

(* Zone::Append and the Write of the back end: all the blocks, or an error *)
(* after some of the device writes.  The write pointer of the Zone stays   *)
(* where it was when the back end fails.                                   *)
AppendTo(z, n) ==
    LET first == zone[z].wp
        ws == DeviceWrites(z, first, n)
    IN  /\ Fits(z, n)
        /\ \E done \in 0 .. Len(ws) :
             LET r == Written(ws, done)
             IN  /\ done < Len(ws) => "write" \in Faults
                 /\ disk' = r.disk
                 /\ zone' = IF r.ok /\ done = Len(ws)
                            THEN [zone EXCEPT ![z].wp = @ + n,
                                              ![z].cap = @ - n,
                                              ![z].acked = @ \cup first .. first + n - 1]
                            ELSE zone
        /\ suspect' = suspect \cup Touched(z)
        /\ UNCHANGED <<mode, offline, map, inv, losses>>

Padded(s) == s \o [i \in 1 .. ZB - Len(s) |-> Pad]

(* Zone::Finish and the Finish of the back end, which walks the device     *)
(* zones and stops at the first that fails.                                *)
Finish(z) ==
    LET ms == Members(z)
    IN  /\ zone[z].cap > 0
        /\ \E done \in 0 .. Len(ms) :
             /\ done < Len(ms) => "finish" \in Faults \/ ms[done + 1] \in offline
             /\ \A i \in 1 .. done : ms[i] \notin offline
             /\ disk' = [dz \in DeviceZones |->
                           IF \E i \in 1 .. done : ms[i] = dz
                           THEN Padded(disk[dz]) ELSE disk[dz]]
             /\ zone' = IF done = Len(ms)
                        THEN [zone EXCEPT ![z].wp = ZoneSize, ![z].cap = 0,
                                          ![z].finished = TRUE]
                        ELSE zone
             /\ suspect' = suspect \cup Touched(z)
                             \cup (IF done < Len(ms) THEN {z} ELSE {})
        /\ UNCHANGED <<mode, offline, map, inv, losses>>

(* Which device resets take effect, and what the back end answers: RAID0   *)
(* resets every device and answers for the last one, the others stop at    *)
(* the first failure.                                                      *)
ResetDone(ms, failed) ==
    IF mode = "RAID0" THEN {i \in DOMAIN ms : i \notin failed}
    ELSE {i \in DOMAIN ms : \A j \in failed : i < j}
ResetOk(ms, failed) ==
    IF mode = "RAID0" THEN Len(ms) \notin failed ELSE failed = {}

Resets == FoldSet(LAMBDA z, n : n + zone[z].gen, 0, Zones)

(* Zone::Reset, of a zone that holds no live data. *)
Reset(z) ==
    LET ms == Members(z)
        dead == {i \in DOMAIN ms : ms[i] \in offline}
    IN  /\ Resets < MaxResets
        /\ zone[z].wp > 0
        /\ \E failed \in SUBSET DOMAIN ms :
             /\ dead \subseteq failed
             /\ failed # dead => "reset" \in Faults
             /\ disk' = [dz \in DeviceZones |->
                           IF \E i \in ResetDone(ms, failed) : ms[i] = dz
                           THEN <<>> ELSE disk[dz]]
             /\ zone' = [zone EXCEPT ![z] =
                  IF ResetOk(ms, failed)
                  THEN [wp |-> 0, cap |-> ZoneSize, acked |-> {},
                        gen |-> @.gen + 1, finished |-> FALSE]
                  ELSE [@ EXCEPT !.acked = {}]]
             /\ suspect' = (IF failed = {} THEN suspect \ {z}
                            ELSE suspect \cup {z}) \cup Touched(z)
        /\ UNCHANGED <<mode, offline, map, inv, losses>>

(* A device zone that holds blocks of a zone goes offline (setZoneOffline, *)
(* persisted by the file system, or the device).                           *)
GoOffline(z, dz) ==
    /\ dz \in Range(Members(z)) \ offline
    /\ Cardinality(offline) < MaxLosses
    /\ offline' = offline \cup {dz}
    /\ losses' = [losses EXCEPT ![z] = @ + 1]
    /\ UNCHANGED <<mode, disk, map, inv, zone, suspect>>

(* The zone that ScanAndHandleOffline reads the data from: the device of   *)
(* the good mirror, but the zone number of the new one.                    *)
CloneSource(fine, fresh) == <<fine[1], fresh[2]>>

\* Mutant of Remapped: the new device zone takes the place of the old one.
RemappedInPlace(mirrors, i, fresh) == [mirrors EXCEPT ![i] = fresh]

(* The old device zone is erased from the mirrors and the new one added at *)
(* the end, so that reads go to the mirror that is left.                   *)
Remapped(mirrors, i, fresh) == Append(RemoveAt(mirrors, i), fresh)

(* The blocks that a read of n blocks from the start of a device zone      *)
(* finds.                                                                  *)
FirstBlocks(dz, n) ==
    [i \in 1 .. n |-> IF i <= Len(disk[dz]) THEN disk[dz][i] ELSE Zeros]

(* A read of RAID-auto's RAID1 fails and calls ScanAndHandleOffline, which *)
(* takes one offline device zone of the map, replaces it by a free one of  *)
(* the same device, behind the mirror that is left, and copies the data.   *)
(* Then the read is tried again.  With no free zone left an assertion      *)
(* fails; MaxLosses is to leave one.                                       *)
ScanAndHandleOffline(z, k) ==
    /\ ZoneMode(z) = "RAID1" /\ RaidAuto
    /\ k \in zone[z].acked
    /\ Read(z, k) = IOError
    /\ \E s \in DOMAIN map : \E i \in DOMAIN map[s] :
         LET old == map[s][i]
             spare == getFreeDeviceZone(old[1], inv)
             fresh == <<old[1], Min(spare)>>
             mp == Remapped(map[s], i, fresh)
             fine == mp[1]
             src == CloneSource(fine, fresh)
         IN  /\ old \in offline
             /\ ZoneMode(s \div N) = "RAID1"
             /\ spare # {}
             /\ map' = [map EXCEPT ![s] = mp]
             /\ inv' = inv \cup {fresh}
             /\ disk' = IF src \in offline THEN disk
                        ELSE [disk EXCEPT ![fresh] =
                                FirstBlocks(src, Len(disk[fine]))]
    /\ UNCHANGED <<mode, offline, zone, suspect, losses>>

(* The system stops and is started again: the constructor and Open of the  *)
(* back end, flush_zone_info, and new Zone objects.  The log has no record *)
(* of the map that ScanAndHandleOffline made.                              *)
Restart ==
    /\ UNCHANGED <<mode, disk, offline, suspect, losses>>
    /\ map' = DefaultMapping(mode).map
    /\ inv' = DefaultMapping(mode).inv
    /\ zone' = [z \in Zones |->
                  [zone[z] EXCEPT !.wp = ZoneWp(z)',
                                  !.cap = IF Usable(z)' THEN ZoneSize - ZoneWp(z)'
                                          ELSE 0]]

Next ==
    \/ \E z \in Zones : \E n \in 1 .. MaxAppend : AppendTo(z, n)
    \/ \E z \in Zones : Finish(z)
    \/ \E z \in Zones : Reset(z)
    \/ \E z \in Zones : \E dz \in DeviceZones : GoOffline(z, dz)
    \/ \E z \in Zones : \E k \in 0 .. ZoneSize - 1 : ScanAndHandleOffline(z, k)
    \/ Restart

Spec == Init /\ [][Next]_vars

-----------------------------------------------------------------------------
(* Properties                                                              *)

(* The state has its types; no Zone is written beyond its size and no      *)
(* device zone beyond its own.                                             *)
TypeOK ==
    /\ mode \in Modes
    /\ \A dz \in DeviceZones : Len(disk[dz]) <= ZB
    /\ offline \subseteq DeviceZones
    /\ inv \subseteq DeviceZones
    /\ \A z \in Zones :
         /\ zone[z].wp \in 0 .. ZoneSize
         /\ zone[z].cap \in 0 .. ZoneSize - zone[z].wp
         /\ zone[z].acked \subseteq 0 .. ZoneSize - 1
    /\ suspect \subseteq Zones

(* A read of an acknowledged block that succeeds returns that block: after *)
(* writes that failed half way, restarts, and the loss of a device zone    *)
(* with the repair of its mirror.  It is about the address maps of all     *)
(* back ends and about ScanAndHandleOffline, for zones that have lost one  *)
(* device zone at most; a second loss finds the copy that was made from    *)
(* the wrong zone (see CloneSource).                                       *)
ReadNeverWrong ==
    \A z \in Zones \ suspect :
      losses[z] <= 1 =>
        \A k \in zone[z].acked : Read(z, k) \in {Block(z, k), IOError}

(* RAID1 of RAID-auto: a block whose Write was acknowledged is on a device *)
(* zone that is online as long as the zone has lost no more than one, also *)
(* across restarts, which bring back the default map.                      *)
OneLossSurvived ==
    \A z \in Zones \ suspect :
      RaidAuto /\ ZoneMode(z) = "RAID1" /\ losses[z] <= 1 =>
        \A k \in zone[z].acked :
          \E i \in DOMAIN Places(z, k) :
            LET p == Places(z, k)[i]
            IN  /\ p.dz \notin offline
                /\ p.off < Len(disk[p.dz])
                /\ disk[p.dz][p.off + 1] = Block(z, k)

(* The device zones of a striped RAID-auto zone are equally full. *)
Level(z) ==
    \A i, j \in DOMAIN Members(z) :
      Len(disk[Members(z)[i]]) = Len(disk[Members(z)[j]])

(* The write pointer that a restart would compute from the device zones    *)
(* covers every acknowledged block, and all blocks below it were written,  *)
(* each in its place: file recovery relies on it.  For striped zones of    *)
(* RAID-auto only when their device zones are level: flush_zone_info looks *)
(* at the first of them N times when N divides the zone size.              *)
ReportedWpRight ==
    \A z \in Zones \ suspect :
      losses[z] = 0 /\ (RaidAuto /\ ZoneMode(z) = "RAID0" => Level(z)) =>
        /\ \A k \in zone[z].acked : k < ZoneWp(z)
        /\ \A k \in 0 .. ZoneWp(z) - 1 :
             \/ Read(z, k) = Block(z, k)
             \/ zone[z].finished /\ Read(z, k) = Pad

(* No device zone serves two sub zones of RAID-auto, or one twice, and     *)
(* each is in the inverse map, whatever was lost and replaced.             *)
MapInjective ==
    RaidAuto =>
      /\ \A s, t \in DOMAIN map :
           \A i \in DOMAIN map[s] : \A j \in DOMAIN map[t] :
             map[s][i] = map[t][j] => s = t /\ i = j
      /\ \A s \in DOMAIN map : Range(map[s]) \subseteq inv
=============================================================================
