------------------------------ MODULE Regions ------------------------------
(***************************************************************************)
(* internal/region: the API host of a region code, a team's login domain   *)
(* or a host name, after trimming and lower-casing, which are external.    *)
(***************************************************************************)
EXTENDS Sequences, TLC

CONSTANTS
  Normal(_),     \* strings.ToLower(strings.TrimSpace(s))
  ApiHostNames   \* strings with the prefix "api." that isHostname accepts

\* The codes are in ascending order, so that this is SortedRegionChoices, too.
RegionTable ==
  << <<"ap1", "api.coralogix.in">>,      <<"ap2", "api.coralogixsg.com">>,
     <<"ap3", "api.ap3.coralogix.com">>, <<"eu1", "api.coralogix.com">>,
     <<"eu2", "api.eu2.coralogix.com">>, <<"us1", "api.coralogix.us">>,
     <<"us2", "api.cx498.coralogix.com">>, <<"us3", "api.us3.coralogix.com">> >>

RowsOf(column, key) == {i \in DOMAIN RegionTable : RegionTable[i][column] = key}

LoginDomains ==
  [eu1 |-> "eu1.coralogix.com", us1 |-> "us1.coralogix.com", us2 |-> "us2.coralogix.com",
   us3 |-> "us3.coralogix.com", eu2 |-> "eu2.coralogix.com", ap1 |-> "ap1.coralogix.com",
   ap2 |-> "ap2.coralogix.com", ap3 |-> "ap3.coralogix.com"]
HostOfDomain(d) == {RegionTable[i][2] : i \in {j \in DOMAIN RegionTable :
                                                 LoginDomains[RegionTable[j][1]] = d}}

\* The host in a set of its own, or none for an unknown region.
ResolveAPIHost(regionOrDomain) ==
  LET key   == Normal(regionOrDomain)
      known == {RegionTable[i][2] : i \in RowsOf(1, key) \cup RowsOf(2, key)}
                 \cup HostOfDomain(key)
  IN  IF known # {} THEN known ELSE {key} \cap ApiHostNames
=============================================================================
