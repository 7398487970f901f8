------------------------------ MODULE Slivers ------------------------------
(***************************************************************************)
(* The SliverTool entity of db/model.py and the two computations the       *)
(* update handlers make on it: applying a monitoring report to a tool's    *)
(* slivers (StatusUpdateHandler) and applying a row of hostnames.json to   *)
(* one sliver (IPUpdateHandler).                                           *)
(*                                                                         *)
(* A sliver is a tool running on a host.  The entity keeps the fields that *)
(* a handler decides on; the fields copied once when the entity is created *)
(* (ports, city, country, coordinates), tool_extra and the timestamps are  *)
(* left out.                                                               *)
(***************************************************************************)

CONSTANTS
    Hosts,         \* slice FQDNs: those of hostnames.json and of the reports
    Addresses,     \* IP addresses hostnames.json may give
    NoAddress,     \* message.NO_IP_ADDRESS, the string "off"
    Absent,        \* no entity, no row, no site
    RoundRobin,    \* the values siteinfo gives to a site's roundrobin flag
    Tools,         \* the Tool entities; no handler changes them
    Sites,         \* site ids
    SiteOf         \* the site of a host, parsed from its FQDN

ASSUME NoAddressAssumption == NoAddress \notin Addresses
ASSUME RoundRobinAssumption == RoundRobin \subseteq BOOLEAN
ASSUME ToolsAssumption == Absent \notin Tools
ASSUME SiteOfAssumption == SiteOf \in [Hosts -> Sites]

(* '' and '_ipv6' in the status handler, in the order of its loop.         *)
Families == {"ipv4", "ipv6"}
Statuses == {"online", "offline"}

(* A row of hostnames.json: an address, or an empty string, per family.    *)
Row == [Families -> Addresses \cup {NoAddress}]

Entity == [ip : Row, status : [Families -> Statuses], roundrobin : BOOLEAN]

ASSUME AbsentAssumption ==
    Absent \notin Entity /\ Absent \notin Row /\ Absent \notin BOOLEAN

(* The SliverTool entities of one tool.  A memcache miss and an empty list *)
(* are the same thing to every reader, and are the table without entities. *)
Table == [Hosts -> Entity \cup {Absent}]
NoEntities == [h \in Hosts |-> Absent]
Present(table) == {h \in Hosts : table[h] # Absent}

(* What a monitoring report says of a host: nothing, online or offline.    *)
Report == [Hosts -> Statuses \cup {"unknown"}]
EmptyReport == [h \in Hosts |-> "unknown"]

-----------------------------------------------------------------------------
(* Wrong on purpose, each the body of a definition below after a plausible *)
(* bug: the checks must notice.                                            *)

(* The report's word is stored as it is, for a sliver it does not know too *)
ApplyReportUnchecked(entity, family, reported) ==
    IF entity.ip[family] = NoAddress
    THEN [entity EXCEPT !.status[family] = "offline"]
    ELSE [entity EXCEPT !.status[family] = reported]

(* One status for both families.                                           *)
ApplyReportToBoth(entity, family, reported) ==
    IF reported = "unknown" THEN entity
    ELSE [entity EXCEPT !.status = [f \in Families |-> reported]]

(* A sliver the report does not know is left out of the list.              *)
UpdatedKnownSliverTools(table, family, report) ==
    [h \in Hosts |-> IF table[h] = Absent \/ report[h] = "unknown"
                     THEN Absent
                     ELSE [table[h] EXCEPT !.status[family] = report[h]]]

(* The two addresses of a row exchanged.                                   *)
SetSliverToolSwapped(entity, row, roundrobin) ==
    [entity EXCEPT !.ip = [ipv4 |-> row["ipv6"], ipv6 |-> row["ipv4"]],
                   !.roundrobin = roundrobin]

(* The batch takes the place of the tool's whole list.                     *)
OverwriteAll(table, batch, hosts) ==
    [h \in Hosts |-> IF h \in hosts THEN batch[h] ELSE Absent]

-----------------------------------------------------------------------------
(* The loop body of update_sliver_tools_status for an existing entity.  A  *)
(* sliver the IPv4 report does not know is kept as it is, one the IPv6     *)
(* report does not know counts as offline.  A sliver without an address is *)
(* offline whatever the report says, once the handler gets that far.       *)
ApplyReport(entity, family, reported) ==
    IF reported = "unknown" /\ family = "ipv4"
    THEN entity
    ELSE [entity EXCEPT !.status[family] =
             IF reported = "online" /\ entity.ip[family] # NoAddress
             THEN "online" ELSE "offline"]

UpdatedSliverTools(table, family, report) ==
    [h \in Hosts |-> IF table[h] = Absent
                     THEN Absent
                     ELSE ApplyReport(table[h], family, report[h])]

(* The datastore after db.put wrote the entities of batch on hosts.        *)
Overwrite(table, batch, hosts) ==
    [h \in Hosts |-> IF h \in hosts /\ batch[h] # Absent
                     THEN batch[h] ELSE table[h]]

-----------------------------------------------------------------------------
(* initialize_sliver_tool: no address, offline in both families.           *)
InitialSliverTool(roundrobin) ==
    [ip |-> [f \in Families |-> NoAddress],
     status |-> [f \in Families |-> "offline"],
     roundrobin |-> roundrobin]

(* The entity IPUpdateHandler.update edits: the one its snapshot holds, or *)
(* a new one.                                                              *)
SliverToolToEdit(entity, roundrobin) ==
    IF entity = Absent THEN InitialSliverTool(roundrobin) ELSE entity

(* set_sliver_tool.                                                        *)
SetSliverTool(entity, row, roundrobin) ==
    [entity EXCEPT !.ip = row, !.roundrobin = roundrobin]

-----------------------------------------------------------------------------
(* What a table may say, given what monitoring reported and hostnames.json *)
(* published so far.                                                       *)
OnlineReported(t, table, rep) ==
    \A h \in Present(table), f \in Families :
        table[h].status[f] = "online" => <<t, h, f>> \in rep

AddressPublished(table, pub) ==
    \A h \in Present(table), f \in Families :
        table[h].ip[f] # NoAddress => <<h, f, table[h].ip[f]>> \in pub

(* A table of tool t, wherever it is, says nothing that monitoring and     *)
(* hostnames.json did not, and holds no sliver that table reg does not.    *)
Vouched(t, table, rep, pub, reg) ==
    /\ OnlineReported(t, table, rep)
    /\ AddressPublished(table, pub)
    /\ Present(table) \subseteq Present(reg)
=============================================================================
