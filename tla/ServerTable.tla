----------------------------- MODULE ServerTable -----------------------------
(***************************************************************************)
(* The server table of the dashboard: while Jenkins renders main.jelly the *)
(* EC2Connector asks every application of every environment for its health *)
(* and its metrics, one HTTP request after the other and without a         *)
(* timeout.  Applications are deployed, fail and recover under it, two     *)
(* droplets answer one host in the middle of a re-deployment, and the      *)
(* administrator may submit another configuration of the view, which the   *)
(* rendering reads again and again.                                        *)
(***************************************************************************)
EXTENDS Naturals, SequencesExt

CONSTANTS Pages, Apps, Envs,
          Blank,         \* an empty name in a list, as in "dev11,,uat"
          Configs,       \* the environment lists an administrator submits
          MaxSubmits,    \* bound on the submits
          MaxChanges     \* bound on the changes of applications

\* hasCom: the url contains "com".
Names == Apps \cup {Blank}
Rows  == [names : Seq(Names), types : Seq(Envs \cup {Blank}), hasCom : BOOLEAN]
Hosts == Apps \X Envs

ASSUME ServerTableAssumption ==
  /\ Blank \notin Apps \cup Envs
  /\ \A c \in Configs : c \in Seq(Rows)
  /\ MaxSubmits \in Nat /\ MaxChanges \in Nat

VARIABLES environments,  \* the configured rows
          submits,       \* how many submits there were
          hosts,         \* hosts[h]: the droplets that answer at h, and how
          changes,       \* how many changes of hosts there were
          pc,            \* pc[p]: what the rendering of page p does next
          header,        \* header[p]: the columns of the table
          rows,          \* rows[p]: the rows still to be probed, the first is in work
          cols,          \* cols[p]: getEnvList, read again for every row
          apps,          \* apps[p]: its applications still to be probed
          cells,         \* cells[p]: the cells of the application in work
          detail,        \* detail[p]: the EnvironmentDetails in work
          table,         \* table[p]: the finished table rows
          inForce,       \* inForce[p]: the configurations since p began (for properties)
          ran            \* ran[p][h]: the droplets at h since p began (for properties)

world    == <<environments, submits, hosts, changes>>
progress == <<rows, cols, apps, cells, detail, table>>
seen     == <<inForce, ran>>
vars     == <<world, pc, header, progress, seen>>

EnvList(config) == FlattenSeq([i \in DOMAIN config |-> config[i].types])

\* up: healthy; sick: health is not 200; down: an error, or an answer without the
\* build information or the uptime; hangs: no answer at all.
Answers == {"up", "sick", "down", "hangs"}
Bits    == 0..MaxChanges
Droplet == [answer : Answers, bits : Bits]
None    == MaxChanges + 1
Detail  == [state : {"running", "stopped"}, version : Bits \cup {None}, upTime : Bits \cup {None}]
NoDetail == [state |-> "stopped", version |-> None, upTime |-> None]

TypeOK ==
  /\ environments \in Configs /\ submits \in 0..MaxSubmits /\ changes \in 0..MaxChanges
  /\ hosts \in [Hosts -> SUBSET Droplet] /\ ran \in [Pages -> [Hosts -> SUBSET Bits]]
  /\ pc \in [Pages -> {"new", "header", "row", "health", "metrics", "shown"}]
  /\ \A p \in Pages : /\ header[p] \in Seq(Envs \cup {Blank}) /\ cols[p] \in Seq(Envs \cup {Blank})
                      /\ rows[p] \in Seq(Rows) /\ apps[p] \in Seq(Names)
                      /\ inForce[p] \subseteq Configs /\ cells[p] \in Seq(Detail) /\ detail[p] \in Detail
                      /\ pc[p] = "health" => apps[p] # <<>> /\ Len(cells[p]) < Len(cols[p])
                      /\ \A i \in DOMAIN table[p] : table[p][i].cells \in Seq(Detail)

Init ==
  /\ environments \in Configs /\ submits = 0 /\ changes = 0
  /\ hosts = [h \in Hosts |-> {[answer |-> "up", bits |-> 0]}]
  /\ pc = [p \in Pages |-> "new"] /\ header = [p \in Pages |-> <<>>]
  /\ rows = [p \in Pages |-> <<>>] /\ cols = [p \in Pages |-> <<>>]
  /\ apps = [p \in Pages |-> <<>>] /\ cells = [p \in Pages |-> <<>>]
  /\ detail = [p \in Pages |-> NoDetail] /\ table = [p \in Pages |-> <<>>]
  /\ inForce = [p \in Pages |-> {environments}] /\ ran = [p \in Pages |-> [h \in Hosts |-> {0}]]

-----------------------------------------------------------------------------
(* Rendering *)

\* The header of the table.
Load(p) ==
  /\ pc[p] = "new" /\ pc' = [pc EXCEPT ![p] = "header"]
  /\ header' = [header EXCEPT ![p] = EnvList(environments)]
  /\ inForce' = [inForce EXCEPT ![p] = {environments}]
  /\ ran' = [ran EXCEPT ![p] = [h \in Hosts |-> {d.bits : d \in hosts[h]}]]
  /\ UNCHANGED <<world, progress>>

\* getMatchingEC2Environments iterates over the list it finds; a submit puts
\* another list in its place and leaves this one alone.
StartTable(p) ==
  /\ pc[p] = "header" /\ pc' = [pc EXCEPT ![p] = "row"]
  /\ rows' = [rows EXCEPT ![p] = environments]
  /\ UNCHANGED <<world, header, cols, apps, cells, detail, table, seen>>

\* Mutant: neither a row without names nor a view without environments is told apart.
NextRowUnchecked(p) ==
  /\ pc[p] = "row" /\ rows[p] # <<>> /\ pc' = [pc EXCEPT ![p] = "health"]
  /\ cols' = [cols EXCEPT ![p] = EnvList(environments)]
  /\ apps' = [apps EXCEPT ![p] = Head(rows[p]).names]
  /\ UNCHANGED <<world, header, rows, cells, detail, table, seen>>

\* The next row, with the environments of all rows as they are now; a row without
\* names, and every row without environments, has nothing to show.
NextRow(p) ==
  /\ pc[p] = "row" /\ rows[p] # <<>>
  /\ cols' = [cols EXCEPT ![p] = EnvList(environments)]
  /\ IF cols'[p] = <<>> \/ Head(rows[p]).names = <<>>
       THEN rows' = [rows EXCEPT ![p] = Tail(@)] /\ UNCHANGED <<pc, apps>>
       ELSE /\ pc' = [pc EXCEPT ![p] = "health"]
            /\ apps' = [apps EXCEPT ![p] = Head(rows[p]).names] /\ UNCHANGED rows
  /\ UNCHANGED <<world, header, cells, detail, table, seen>>

EndTable(p) ==
  /\ pc[p] = "row" /\ rows[p] = <<>> /\ pc' = [pc EXCEPT ![p] = "shown"]
  /\ UNCHANGED <<world, header, progress, seen>>

\* The cell d is done; after the last one of an application its row of the
\* table is, and after the last application the configured row.
AddCell(p, d) ==
  LET done == Append(cells[p], d)
      full == Len(done) = Len(cols[p])
      last == full /\ Len(apps[p]) = 1
  IN  /\ cells' = [cells EXCEPT ![p] = IF full THEN <<>> ELSE done]
      /\ table' = IF full THEN [table EXCEPT ![p] = Append(@, [app |-> Head(apps[p]), cells |-> done])]
                          ELSE table
      /\ apps' = IF full THEN [apps EXCEPT ![p] = Tail(@)] ELSE apps
      /\ rows' = IF last THEN [rows EXCEPT ![p] = Tail(@)] ELSE rows
      /\ pc' = [pc EXCEPT ![p] = IF last THEN "row" ELSE "health"]
      /\ detail' = [detail EXCEPT ![p] = NoDetail]
      /\ UNCHANGED <<header, cols, seen>>

\* Mutant: one environment's url for all cells of an application.
FirstColumn(p) == <<Head(apps[p]), cols[p][1]>>

Column(p) == cols[p][Len(cells[p]) + 1]
Host(p)   == <<Head(apps[p]), Column(p)>>

\* An empty environment throws, an empty name leaves a placeholder in the url, and
\* without "com" in the url there is none for the metrics.
Throws(p) == Column(p) = Blank \/ Head(apps[p]) = Blank \/ ~ Head(rows[p]).hasCom

\* No droplet is there, or the one that gets the request has no answer of use.
Fails(p) == hosts[Host(p)] = {} \/ \E d \in hosts[Host(p)] : d.answer = "down"
Answering(p) == {d \in hosts[Host(p)] : d.answer \in {"up", "sick"}}

\* Health is requested, of any of the droplets.
AskHealth(p) ==
  \/ Fails(p) /\ AddCell(p, NoDetail)
  \/ \E d \in Answering(p) :
       /\ pc' = [pc EXCEPT ![p] = "metrics"]
       /\ detail' = [detail EXCEPT ![p] =
            [state |-> IF d.answer = "up" THEN "running" ELSE "stopped", version |-> d.bits, upTime |-> None]]
       /\ UNCHANGED <<header, rows, cols, apps, cells, table, seen>>

\* Mutant: a row that cannot be asked is left out, the others are shown.
HealthPerRow(p) ==
  /\ pc[p] = "health" /\ UNCHANGED world
  /\ \/ /\ Throws(p) /\ pc' = [pc EXCEPT ![p] = "row"]
        /\ rows' = [rows EXCEPT ![p] = Tail(@)] /\ cells' = [cells EXCEPT ![p] = <<>>]
        /\ UNCHANGED <<header, cols, apps, detail, table, seen>>
     \/ ~ Throws(p) /\ AskHealth(p)

\* The urls are built and health is requested.  An exception leaves
\* getMatchingEC2Environments; the page shows the header and no row at all.
Health(p) ==
  /\ pc[p] = "health" /\ UNCHANGED world
  /\ \/ /\ Throws(p) /\ pc' = [pc EXCEPT ![p] = "shown"] /\ table' = [table EXCEPT ![p] = <<>>]
        /\ UNCHANGED <<header, rows, cols, apps, cells, detail, seen>>
     \/ ~ Throws(p) /\ AskHealth(p)

UpTime(p, d) == [detail[p] EXCEPT !.upTime = d.bits]

\* Mutant: the catch block leaves the state alone.
MetricsQuietly(p) ==
  /\ pc[p] = "metrics" /\ UNCHANGED world
  /\ \/ Fails(p) /\ AddCell(p, detail[p])
     \/ \E d \in Answering(p) : AddCell(p, UpTime(p, d))

\* Mutant: the metrics are asked for until the application has some.
MetricsAwaited(p) ==
  /\ pc[p] = "metrics" /\ UNCHANGED world
  /\ \E d \in Answering(p) : AddCell(p, UpTime(p, d))

\* The metrics are requested, of any of the droplets that are there now; a failure
\* stops the cell, and leaves it its version.
Metrics(p) ==
  /\ pc[p] = "metrics" /\ UNCHANGED world
  /\ \/ Fails(p) /\ AddCell(p, [detail[p] EXCEPT !.state = "stopped"])
     \/ \E d \in Answering(p) : AddCell(p, UpTime(p, d))

-----------------------------------------------------------------------------
(* The administrator, and the applications *)

Submit ==
  /\ submits < MaxSubmits /\ submits' = submits + 1
  /\ environments' \in Configs \ {environments}
  /\ inForce' = [p \in Pages |-> inForce[p] \cup {environments'}]
  /\ UNCHANGED <<hosts, changes, pc, header, progress, ran>>

\* A droplet answers in another way, is unmapped, or is mapped beside the others.
ChangeHost(h) ==
  /\ changes < MaxChanges /\ changes' = changes + 1
  /\ \/ \E d \in hosts[h] : \E s \in Answers \ {d.answer} :
          hosts' = [hosts EXCEPT ![h] = (@ \ {d}) \cup {[d EXCEPT !.answer = s]}] /\ ran' = ran
     \/ \E d \in hosts[h] : hosts' = [hosts EXCEPT ![h] = @ \ {d}] /\ ran' = ran
     \/ /\ hosts' = [hosts EXCEPT ![h] = @ \cup {[answer |-> "up", bits |-> changes']}]
        /\ ran' = [p \in Pages |-> [ran[p] EXCEPT ![h] = @ \cup {changes'}]]
  /\ UNCHANGED <<environments, submits, pc, header, progress, inForce>>

-----------------------------------------------------------------------------
Render(p) ==
  Load(p) \/ StartTable(p) \/ NextRow(p) \/ EndTable(p) \/ Health(p) \/ Metrics(p)

Next == Submit \/ (\E h \in Hosts : ChangeHost(h)) \/ \E p \in Pages : Render(p)

\* The request in work may have gone to a droplet that hangs.
Hung(p) == /\ pc[p] \in {"health", "metrics"} /\ Host(p) \in Hosts
           /\ \E d \in hosts[Host(p)] : d.answer = "hangs"

\* A rendering that has begun goes on while its request does not hang; nobody has
\* to load a page or to repair an application.
Fairness == \A p \in Pages : WF_vars(pc[p] # "new" /\ ~ Hung(p) /\ Render(p))

Spec == Init /\ [][Next]_vars /\ Fairness
-----------------------------------------------------------------------------
(* Properties *)

AppsOf(list)  == [i \in DOMAIN list |-> list[i].app]
Asked(config) == FlattenSeq([i \in DOMAIN config |-> config[i].names])

\* The configuration has an empty name, or a url without "com".
Odd(config) ==
  \/ Blank \in Range(EnvList(config))
  \/ \E i \in DOMAIN config : ~ config[i].hasCom \/ Blank \in Range(config[i].names)

\* Whatever is submitted while a page is rendered, its header is that of one
\* configuration in force since it began.  Its rows are the applications of such a
\* configuration, in its order, all of them; or there is no row at all, and one of
\* the configurations has an empty name or a url without "com".  A configuration
\* without environments may take rows away (main.jelly:96-130,
\* DashboardView.java:278-293, EC2Connector.java:153-179).
TableAligned ==
  \A p \in Pages : pc[p] = "shown" =>
    /\ \E c \in inForce[p] : header[p] = EnvList(c)
    /\ (\A c \in inForce[p] : EnvList(c) # <<>>) =>
         \/ \E c \in inForce[p] : AppsOf(table[p]) = Asked(c)
         \/ table[p] = <<>> /\ \E c \in inForce[p] : Odd(c)

\* A cell shown as running has a version and an uptime, whichever of the two
\* requests failed and in whatever state the application was between them
\* (EC2Connector.java:184-215).
RunningIsComplete ==
  \A p \in Pages : \A i \in DOMAIN table[p] : \A k \in DOMAIN table[p][i].cells :
    LET d == table[p][i].cells[k]
    IN  d.state = "running" => d.version # None /\ d.upTime # None

\* The cells of a row are those of the columns of one configuration in force since
\* the page began, also when another one is submitted in the middle of the row; the
\* version of a cell, and its uptime, are of droplets that answered for the row's
\* application in the cell's environment since the page began, not necessarily of
\* the same one (EC2Connector.java:152-222, Redeploy.groovy:106-116).
CellsAreRecent ==
  \A p \in Pages : \A i \in DOMAIN table[p] : \E c \in inForce[p] :
    /\ Len(table[p][i].cells) = Len(EnvList(c))
    /\ \A k \in DOMAIN table[p][i].cells :
         LET d == table[p][i].cells[k]
             h == <<table[p][i].app, EnvList(c)[k]>>
         IN  h \in Hosts /\ {d.version, d.upTime} \ {None} \subseteq ran[p][h]

\* A rendering that has begun ends, unless it waits for ever for an application
\* that hangs: the requests have no timeout (EC2Connector.java:175, 185 and 203).
RenderEnds == \A p \in Pages : pc[p] = "header" ~> (pc[p] = "shown" \/ []Hung(p))
=============================================================================
