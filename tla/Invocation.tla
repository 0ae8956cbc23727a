----------------------------- MODULE Invocation -----------------------------
(***************************************************************************)
(* What an invocation of drillip does, and to which server or file: run    *)
(* and serverURL (internal/bootstrap/app.go), loadConfig (config.go),      *)
(* Parse (internal/adapter/in/cli/parse.go), httpclient.New and the        *)
(* next-page command that list prints (commands.go).                       *)
(*                                                                         *)
(* The environment changes between invocations: a hint is followed in      *)
(* another shell, a client runs beside the server or far from it.          *)
(***************************************************************************)
EXTENDS Sequences

CONSTANTS
  Urls, BadUrls,  \* server URLs, and values that are none
  Addresses,      \* host and port
  Wildcard,       \* the address that stands for every interface
  Files,          \* database paths
  None

VARIABLES
  env,     \* DRILLIP_SERVER, DRILLIP_ADDR and DRILLIP_DB
  did,     \* what the last invocation did
  hint     \* the next-page command it printed, or None

vars == <<env, did, hint>>

\* Flags that may be missing, or be given the empty value.
Flag(values) == values \cup {None, "empty"}

\* server, addr, db: options before the command; listen, path, input: options
\* of the command; sound: its other arguments pass their checks.
Invocations ==
  [server: Flag(Urls \cup BadUrls), addr: Flag(Addresses), db: Flag(Files), offline: BOOLEAN,
   command: {"serve", "restore", "maintenance", "list", "show"},
   sound: BOOLEAN, listen: Flag(Addresses), path: Flag(Files), input: Flag(Files)]

Environments ==
  [server: Urls \cup {None}, addr: Addresses \cup {None}, db: Files \cup {None}]

\* The first of two values that is there.
Either(a, b) == IF a = None THEN b ELSE a
-----------------------------------------------------------------------------
\* Targets.

Loopback == "127.0.0.1:8300"
DefaultFile == "errors.db"

\* serverURL: one cannot connect to a wildcard.
Url(address) == "http://" \o (IF address = Wildcard THEN Loopback ELSE address)

Target(a, e) ==
  IF a.addr # None THEN Url(a.addr)
  ELSE IF Either(a.server, e.server) # None THEN Either(a.server, e.server)
  ELSE Url(Either(e.addr, Loopback))
\* A value that is missing or empty is no other; an address is a host and a port,
\* so that what Url makes of it is a URL.
InvocationAssumption ==
  /\ None # "empty" /\ "empty" \notin Urls
  /\ \A x \in Addresses \cup {Loopback} : Url(x) \notin BadUrls \cup {None, "empty"}
-----------------------------------------------------------------------------
\* Checks.

\* Options that do not go with each other or with the command.
Misplaced(a) ==
  \/ a.server # None /\ a.addr # None
  \/ a.command = "restore" /\ (a.server # None \/ a.addr # None \/ a.db # None)
  \/ a.command = "serve" /\ a.server # None
  \/ a.command \in {"list", "show"} /\ a.db # None

EmptyPlace(a) == "empty" \in {a.listen, a.path}

Refused(a, e) ==
  \/ "empty" \in {a.server, a.addr, a.db}
  \/ a.offline \/ a.command = "maintenance" \/ ~a.sound
  \/ Misplaced(a)
  \/ a.command = "restore" /\ (a.input \in {None, "empty"} \/ Either(a.path, e.db) \in {None, "empty"})
  \/ a.command = "serve" /\ EmptyPlace(a)
  \/ a.command \in {"list", "show"} /\ Target(a, e) \in BadUrls

Effect(a, e) ==
  IF Refused(a, e) THEN [does |-> "refused", at |-> None, file |-> None]
  ELSE CASE a.command = "serve" ->
              [does |-> "serve",
               at |-> Either(a.listen, Either(a.addr, Either(e.addr, Loopback))),
               file |-> Either(a.path, Either(a.db, Either(e.db, DefaultFile)))]
         [] a.command = "restore" ->
              [does |-> "restore", at |-> None, file |-> Either(a.path, e.db)]
         [] OTHER -> [does |-> "ask", at |-> Target(a, e), file |-> None]

Plain(command) ==
  [server |-> None, addr |-> None, db |-> None, offline |-> FALSE, command |-> command,
   sound |-> TRUE, listen |-> None, path |-> None, input |-> None]

\* Mutant: the next page repeats the options that were given.
NextPageAsGiven(a, e) == [Plain("list") EXCEPT !.server = a.server]

\* listPageCommand: the server that was asked, however it was chosen.
NextPage(a, e) == [Plain("list") EXCEPT !.server = Target(a, e)]

Invoke(a) ==
  /\ did' = Effect(a, env)
  /\ \/ hint' = None
     \/ /\ a.command = "list" /\ ~Refused(a, env)
        /\ hint' = NextPage(a, env)
  /\ UNCHANGED env

\* Another shell, host or time.
Reconfigure ==
  /\ env' \in Environments
  /\ UNCHANGED <<did, hint>>

Init ==
  /\ env \in Environments
  /\ did = [does |-> "refused", at |-> None, file |-> None] /\ hint = None

Next == (\E a \in Invocations : Invoke(a)) \/ Reconfigure
Spec == Init /\ [][Next]_vars
-----------------------------------------------------------------------------
TypeOK ==
  /\ env \in Environments
  /\ did.does \in {"refused", "serve", "restore", "ask"}
  /\ did.at \in {None, Loopback} \cup Addresses \cup Urls \cup {Url(x) : x \in Addresses \cup {Loopback}}
  /\ did.file \in Files \cup {None, DefaultFile}

\* Wherever the next-page command is run, it asks the server that the first
\* page came from.
NextPageStays ==
  hint # None => Effect(hint, env) = did

\* A client asks the server that the same environment starts, wildcards
\* included, unless told otherwise.
ClientFindsServer ==
  env.server = None =>
    LET served == Effect(Plain("serve"), env).at
        asked == Effect(Plain("show"), env).at
    IN \/ served # Wildcard /\ asked = "http://" \o served
       \/ served = Wildcard /\ asked = "http://" \o Loopback

\* What is named on the command line is used or the invocation is refused: no
\* environment variable overrides it and no check lets it pass unused.
NamedIsUsed ==
  \A a \in Invocations :
    LET effect == Effect(a, env) IN
    effect.does # "refused" =>
      /\ a.server # None => effect.at = a.server
      /\ a.addr # None => effect.at \in {a.addr, a.listen, Url(a.addr)}
      /\ a.db # None => effect.file \in {a.db, a.path}
=============================================================================
