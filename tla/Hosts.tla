-------------------------------- MODULE Hosts --------------------------------
(***************************************************************************)
(* buildHosts (internal/db/aerospikedb.go): the hosts to connect to, of the*)
(* configuration.                                                          *)
(***************************************************************************)
EXTENDS Naturals, Sequences, FiniteSets, SequencesExt

\* An entry of Hosts: blank, a name, a name with a port, or with a port that is
\* no number. A part of the host before the last colon may have colons.
EntryForms == {"blank", "name", "name:port", "name:text"}

Failed == {}

Parse(entry) ==
  CASE entry.form = "blank"     -> <<>>
    [] entry.form = "name"      -> <<[host |-> entry.host, port |-> "default"]>>
    [] entry.form = "name:port" -> <<[host |-> entry.host, port |-> entry.port]>>

\* Mutant of BuildHosts: the port of an entry is kept for those after it.
BuildHostsKeepingPort(entries, fallback) ==
  IF entries = <<>> THEN {<<fallback>>}
  ELSE IF \E i \in DOMAIN entries : entries[i].form = "name:text" THEN Failed
  ELSE {FoldLeft(LAMBDA hosts, e :
          IF e.form = "name" /\ hosts # <<>>
            THEN Append(hosts, [host |-> e.host, port |-> Last(hosts).port])
            ELSE hosts \o Parse(e), <<>>, entries)} \ {<<>>}

\* The hosts, or none if there is an error: a port that is no number, or Hosts
\* that are all blank. Without Hosts the single Host is taken.
BuildHosts(entries, fallback) ==
  IF entries = <<>> THEN {<<fallback>>}
  ELSE IF \E i \in DOMAIN entries : entries[i].form = "name:text" THEN Failed
  ELSE {FoldLeft(LAMBDA hosts, e : hosts \o Parse(e), <<>>, entries)} \ {<<>>}

-----------------------------------------------------------------------------
(* Properties *)

Named(entries) == {i \in DOMAIN entries : entries[i].form # "blank"}

\* Every entry that is not blank is a host, in the order of the configuration,
\* with its own port or the default one, and with no other's.
HostsAreConfigured(entries, fallback) ==
  \A hosts \in BuildHosts(entries, fallback) :
    entries # <<>> =>
      /\ Len(hosts) = Cardinality(Named(entries)) /\ hosts # <<>>
      /\ \A i \in Named(entries) :
           LET host == hosts[Cardinality({j \in Named(entries) : j <= i})] IN
           /\ host.host = entries[i].host
           /\ host.port = IF entries[i].form = "name" THEN "default" ELSE entries[i].port
=============================================================================
