------------------------------- MODULE ResolveNS -------------------------------
(***************************************************************************)
(* The choice of the appliance: ParseVolumeID (pkg/driver/utils.go) and    *)
(* resolveNS with its helpers (pkg/driver/controllerServer.go), as         *)
(* operators.                                                              *)
(*                                                                         *)
(* The code iterates over Go maps, whose order is not defined, and asks    *)
(* appliances that may not answer.  Each operator therefore is the set of  *)
(* the outcomes that are possible, given                                   *)
(*   cfg   the configuration, a function from the names of its entries     *)
(*   fs    the paths of the filesystems on the appliance of each entry     *)
(*   down  the entries whose appliance does not answer                     *)
(***************************************************************************)
EXTENDS Sequences

CONSTANT Empty   \* the empty string: no name, no zone, no path

Entry(zone, dataset, v13) ==
  [zone |-> zone, defaultDataset |-> dataset, v13Compatibility |-> v13]

-----------------------------------------------------------------------------
(* Volume IDs, as the list of their parts between colons: name and path,   *)
(* or, since version 1.3 and earlier, the path alone.                      *)

VolumeID(name, path) == <<name, path>>

ParseVolumeID(id) ==
  IF Len(id) = 2
    THEN [configName |-> id[1], path |-> id[2], v13 |-> FALSE]
    ELSE [configName |-> Empty, path |-> id[1], v13 |-> TRUE]

-----------------------------------------------------------------------------
(* ns.Resolver.Resolve, of the library: it looks for the filesystem. *)
Lookup(fs, down, name, path) ==
  CASE name \in down     -> "Internal"
    [] path \in fs[name] -> "OK"
    [] OTHER             -> "NotFound"

Params(path, zone, name, v13) ==
  [datasetPath |-> path, zone |-> zone, configName |-> name, IsV13Compatible |-> v13]

ParamsOfID(id) ==
  LET i == ParseVolumeID(id) IN Params(i.path, Empty, i.configName, i.v13)

Refused(code) == [code |-> code, configName |-> Empty, datasetPath |-> Empty]

PathAt(cfg, p, name) ==
  IF p.datasetPath = Empty THEN cfg[name].defaultDataset ELSE p.datasetPath

(* The outcome when the appliance of this entry is asked. *)
Ask(cfg, fs, down, p, name) ==
  LET path == PathAt(cfg, p, name)
      code == Lookup(fs, down, name, path)
  IN IF code = "OK"
       THEN [code |-> "OK", configName |-> name, datasetPath |-> path]
       ELSE Refused(code)

(* The first of these entries whose appliance has the path, in any order.  *)
(* When none was asked, the error that is examined is nil.                 *)
FirstThatHas(cfg, fs, down, p, names) ==
  LET all   == {Ask(cfg, fs, down, p, n) : n \in names}
      found == {o \in all : o.code = "OK"}
  IN IF names = {} THEN {Refused("panic")}
     ELSE IF found = {} THEN {Refused("Internal")}
     ELSE found

(* An entry with the flag is taken, whether its appliance has the path or  *)
(* not.  Like that of FirstThatHas, the code NotFound of the missing entry *)
(* is lost in resolveNS, which knows the errors of the appliance only.     *)
resolveCompatibilityConfig(cfg, fs, down, p) ==
  LET flagged == {n \in DOMAIN cfg : cfg[n].v13Compatibility}
  IN IF flagged = {} THEN {Refused("Internal")}
     ELSE {Ask(cfg, fs, down, p, n) : n \in flagged}

(* Mistake: the name that was asked for is not looked at. *)
resolveNSNoZoneUnnamed(cfg, fs, down, p) ==
  IF p.IsV13Compatible THEN resolveCompatibilityConfig(cfg, fs, down, p)
  ELSE FirstThatHas(cfg, fs, down, p, DOMAIN cfg)

resolveNSNoZone(cfg, fs, down, p) ==
  IF p.IsV13Compatible THEN resolveCompatibilityConfig(cfg, fs, down, p)
  ELSE IF p.configName # Empty THEN {Ask(cfg, fs, down, p, p.configName)}
  ELSE FirstThatHas(cfg, fs, down, p, DOMAIN cfg)

(* Mistake: the zone of a named entry is not compared. *)
resolveNSWithZoneUnchecked(cfg, fs, down, p) ==
  IF p.configName # Empty THEN {Ask(cfg, fs, down, p, p.configName)}
  ELSE FirstThatHas(cfg, fs, down, p, {n \in DOMAIN cfg : cfg[n].zone = p.zone})

(* IDs of version 1.3 are not looked for here. *)
resolveNSWithZone(cfg, fs, down, p) ==
  IF p.configName # Empty
    THEN IF cfg[p.configName].zone # p.zone THEN {Refused("Internal")}
         ELSE {Ask(cfg, fs, down, p, p.configName)}
    ELSE FirstThatHas(cfg, fs, down, p, {n \in DOMAIN cfg : cfg[n].zone = p.zone})

resolveNS(cfg, fs, down, p) ==
  IF p.zone = Empty THEN resolveNSNoZone(cfg, fs, down, p)
                    ELSE resolveNSWithZone(cfg, fs, down, p)

-----------------------------------------------------------------------------
(* pickAvailabilityZone: the first preferred topology that has a zone, or  *)
(* else the first requisite one.  A topology without a zone is Empty.      *)
pickAvailabilityZone(requirement) ==
  LET HasZone(z) == z # Empty
      zones == SelectSeq(requirement.preferred \o requirement.requisite, HasZone)
  IN IF zones = <<>> THEN Empty ELSE Head(zones)
=============================================================================
