----------------------------- MODULE GatewayVars -----------------------------
(***************************************************************************)
(* What the flags of the cluster configuration become in the configuration *)
(* file of a Sync Gateway.  The code that decides it exists in ten         *)
(* copies, one per operation; each copy is an operator here.  A copy is    *)
(* written as the common rules plus what that copy does differently.       *)
(*                                                                         *)
(* A version is a number: 210 stands for 2.1.0.  Flags are a set of names; *)
(* cbs is the version of Couchbase Server.  A file is a record of what the *)
(* template variables put into it ("none": the variable is empty).         *)
(***************************************************************************)
EXTENDS Naturals, FiniteSets

AllFlags == {"ssl", "x509", "xattrs", "noConflicts", "delta", "views", "hide",
             "skipVerify", "tlsOff", "adminOff", "cbsSsl", "persistentOff",
             "revsLimit", "redact"}

Https(f) == IF "ssl" \notin f THEN "none"
            ELSE IF "persistentOff" \in f THEN "SSLCert" ELSE "https"

\* The scheme an object chooses when it is created (or keeps, for keywords).
SchemeFor(f) == IF f \cap {"cbsSsl", "x509"} # {} THEN "couchbases" ELSE "couchbase"

X509(f, v) == v >= 210 /\ "x509" \in f

\* The rules shared by the copies for a gateway that reads all of its
\* configuration from the file; s is the scheme the caller starts from.
CommonVars(f, v, s) ==
  [scheme   |-> IF "cbsSsl" \in f \/ X509(f, v) THEN "couchbases" ELSE s,
   port     |-> IF "cbsSsl" \in f THEN 11207 ELSE 0,
   auth     |-> IF X509(f, v) THEN {"cert"} ELSE {"user"},
   import   |-> IF "xattrs" \notin f THEN "none"
                ELSE IF v >= 210 THEN "true" ELSE "continuous",
   xattrs   |-> IF "xattrs" \in f THEN "true" ELSE "none",
   allow    |-> "noConflicts" \notin f,
   revs     |-> "revsLimit" \in f,
   index    |-> IF v < 210 THEN "none" ELSE IF "views" \in f THEN "views" ELSE "gsi",
   logging  |-> IF v < 210 THEN "all" ELSE IF "redact" \in f THEN "redacted" ELSE "plain",
   ssl      |-> IF "ssl" \in f THEN "SSLCert" ELSE "none",
   delta    |-> "delta" \in f /\ v >= 250,
   metrics  |-> IF v >= 280 THEN "metricsInterface" ELSE "none",
   hide     |-> "hide" \in f /\ v >= 281,
   persistentOff |-> "persistentOff" \in f /\ v >= 300,
   skipVerify    |-> "skipVerify" \in f /\ v >= 300,
   tlsOff        |-> "tlsOff" \in f /\ v >= 300,
   adminOff      |-> "adminOff" \in f /\ v >= 300,
   group    |-> FALSE]

\* SyncGateway.start and SyncGateway.restart of the testkit.
StartVars(f, v, s) == CommonVars(f, v, s)

\* [mutant] delta sync without looking at the version.
RestartVarsDelta(f, v, s) == [CommonVars(f, v, s) EXCEPT !.delta = "delta" \in f]

RestartVars(f, v, s) == CommonVars(f, v, s)

\* The keywords' start: other SSL text, a group, another log setting, and the
\* persistent configuration switched off whatever the version.
StartKeywordVars(f, v, s) ==
  [CommonVars(f, v, s) EXCEPT
     !.ssl = Https(f), !.group = TRUE,
     !.logging = IF v < 210 THEN "nothing" ELSE @,
     !.persistentOff = "persistentOff" \in f]

\* The upgrade: no port for the encrypted server connection, a user even with
\* certificates, views and xattrs only as far as the server has them.
UpgradeVars(f, v, s, cbs) ==
  LET common == CommonVars(f, v, s) IN
  [common EXCEPT
     !.scheme = IF X509(f, v) THEN "couchbases" ELSE s,
     !.port = 0,
     !.auth = @ \cup {"user"},
     !.index = IF v >= 210 /\ cbs < 550 THEN "views" ELSE @,
     !.import = IF cbs < 500 THEN "none" ELSE @,
     !.xattrs = IF cbs < 500 THEN "none" ELSE @,
     !.ssl = IF Https(f) = "https" THEN "tls13" ELSE Https(f)]

\* A Cluster object keeps these flags from its creation; the others are read
\* when they are needed.
KeptFlags == {"cbsSsl", "xattrs", "ssl"}
Kept(f, made) == (f \ KeptFlags) \cup (made \cap KeptFlags)

\* The reset of the cluster: http and the administration port where the others
\* have couchbase and none, and an SSL text that depends on what the
\* configuration said of persistence when the object was made.
ResetVars(f, v, made) ==
  [CommonVars(f, v, "http") EXCEPT
     !.port = IF "cbsSsl" \in f THEN 11207 ELSE IF X509(f, v) THEN 0 ELSE 8091,
     !.ssl = IF "ssl" \in f THEN Https({"ssl"} \cup made) ELSE "none"]

\* The redeployment: its text for the client certificate is no JSON.
RedeployVars(f, v, enable_import) ==
  LET common == CommonVars(f, v, IF "cbsSsl" \in f THEN "couchbases" ELSE "couchbase") IN
  [common EXCEPT
     !.port = 0,
     !.auth = IF X509(f, v) THEN {"user", "brokenCert"} ELSE {"user"},
     !.import = IF enable_import THEN @ ELSE "none",
     !.ssl = Https(f), !.group = TRUE]

InstallVars(f, v) ==
  LET common == CommonVars(f, v, IF "cbsSsl" \in f THEN "couchbases" ELSE "couchbase") IN
  [common EXCEPT !.ssl = Https(f)]

\* The two copies for persistent configurations (version 3.0 and later): the
\* bootstrap file and the databases' part, which goes over the admin port.
PersistentVars(f, v) ==
  LET common == CommonVars(f, v, SchemeFor(f)) IN
  [common EXCEPT
     !.auth = IF "x509" \in f THEN {"cert"} ELSE {"user"},
     !.scheme = SchemeFor(f),
     !.import = IF "xattrs" \in f THEN "true" ELSE "false",
     !.xattrs = IF "xattrs" \in f THEN "true" ELSE "false",
     !.index = IF "views" \in f THEN "views" ELSE "gsi",
     !.logging = IF "redact" \in f THEN "redacted" ELSE "plain",
     !.ssl = Https(f), !.hide = "hide" \in f, !.group = TRUE,
     !.metrics = IF v >= 280 THEN "metrics_interface" ELSE "none"]

SetupVars(f, v) == PersistentVars(f, v)

SetupServerVars(f, v) ==
  [PersistentVars(f, v) EXCEPT
     !.import = IF "xattrs" \in f /\ v < 210 THEN "continuous" ELSE @]

\* The configuration a test loads to change it: no port, an index setting even
\* with views, the user in any case, and logging set only with certificates;
\* hide_product_version never, since the templates know it by another name.
\* Below 2.1 there is no user to render and the function raises (not modelled
\* as a file).
LoadVars(f, v) ==
  [CommonVars(f, v, SchemeFor(f)) EXCEPT
     !.scheme = SchemeFor(f), !.port = 0, !.auth = @ \cup {"user"},
     !.index = IF "views" \in f THEN "both" ELSE "gsi",
     !.logging = IF X509(f, v) THEN @ ELSE "all",
     !.metrics = "none", !.hide = FALSE,
     !.ssl = Https(f), !.group = TRUE]

\* The accelerators' copy: the administration port of the server, no
\* credentials at all, and import for every version.
AccelVars(f, v) ==
  [CommonVars(f, v, "http") EXCEPT
     !.scheme = IF "cbsSsl" \in f THEN "couchbases" ELSE "http",
     !.port = IF "cbsSsl" \in f THEN 11207 ELSE 8091,
     !.auth = {},
     !.import = IF "xattrs" \in f THEN "true" ELSE "none",
     !.metrics = IF v >= 280 THEN "metrics_interface" ELSE "none",
     !.persistentOff = FALSE, !.skipVerify = FALSE, !.tlsOff = FALSE, !.adminOff = FALSE]

\* construct_dbconfig_json: the part of one database alone, pushed by tests.
DbConfigVars(f, v) ==
  LET p == PersistentVars(f, v) IN
  [scheme |-> IF f \cap {"cbsSsl", "x509"} # {} THEN "couchbases" ELSE "",
   port |-> p.port, auth |-> p.auth \cup {"user"},
   import |-> IF "xattrs" \in f THEN "true" ELSE "none",
   xattrs |-> IF "xattrs" \in f THEN "true" ELSE "none",
   allow |-> p.allow, revs |-> p.revs, index |-> p.index, delta |-> p.delta]

\* What all of the copies for gateways decide alike.
Core(file) ==
  [allow |-> file.allow, revs |-> file.revs, delta |-> file.delta, hide |-> file.hide,
   skipVerify |-> file.skipVerify, tlsOff |-> file.tlsOff, adminOff |-> file.adminOff,
   shared |-> file.xattrs = "true", encrypted |-> file.ssl # "none"]

\* A file the gateway can read: a broken certificate entry ends its parser.
Readable(file) == "brokenCert" \notin file.auth

=============================================================================
