------------------------------ MODULE TestApp -------------------------------
(***************************************************************************)
(* The life of the application under test: keywords/TestServer*.py and     *)
(* keywords/LiteServ*.py.  Every class has the operations download,        *)
(* install, start, stop and remove for its platform, some of them again    *)
(* for a device instead of an emulator.  An operation is a script of       *)
(* steps: commands to the device, playbooks, requests to the application's *)
(* port and checks of their results.  While a script runs, the application *)
(* comes up, dies, and keeps what earlier jobs left on disk and device.    *)
(***************************************************************************)
EXTENDS Integers, Sequences, FiniteSets

CONSTANTS
    Kinds,      \* platforms to look at
    Versions,   \* versions of the application
    MaxJobs     \* bound on the objects made, one after the other

VARIABLES
    kind,       \* platform of this behaviour
    jobs,       \* objects made so far
    obj,        \* the object of the class
    disk,       \* packages in the binaries directory, by name
    device,     \* what is installed, and whether an earlier run left data
    app,        \* the process of the application
    port,       \* version that answers on the port
    call,       \* operation in progress
    last        \* operation that ended last

appVars == <<kind, jobs, obj, disk, device, app, port, call, last>>
world   == <<kind, jobs, disk, device, app, port>>

None  == "none"
Found == Versions \union {None}

-----------------------------------------------------------------------------
(* Classes by platform                                                     *)

TestServerClass(k) ==
    CASE k \in {"android", "xamarin-android", "maui-android", "c-android"} -> "Android"
      [] k \in {"ios", "xamarin-ios", "c-ios"} -> "iOS"
      [] k = "net-mono" -> "NetMono"
      [] k \in {"net-msft", "net-uwp", "c-msft", "c-uwp", "maui-winui"} -> "NetMsft"
      [] k \in {"java-macosx", "java-msft", "java-ubuntu", "java-centos", "java-debian"} -> "Java"
      [] k \in {"javaws-macosx", "javaws-msft", "javaws-ubuntu", "javaws-centos"} -> "JavaWS"
      [] k \in {"c-macosx", "c-rpi", "c-debian", "c-ubuntu"} -> "Cpp"
      [] OTHER -> None

LiteServClass(k) ==
    CASE k = "lite-android"  -> "LiteAndroid"
      [] k = "lite-ios"      -> "LiteiOS"
      [] k = "lite-macosx"   -> "LiteMacOSX"
      [] k = "lite-net-mono" -> "LiteNetMono"
      [] k = "lite-net-msft" -> "LiteNetMsft"
      [] OTHER -> None

\* The factories raise for any other platform.
ASSUME AppAssumption ==
    /\ \A k \in Kinds : TestServerClass(k) # None \/ LiteServClass(k) # None
    /\ {"any", None} \cap Versions = {} /\ MaxJobs \in Nat \ {0}

IsLiteServ == LiteServClass(kind) # None
Class      == IF IsLiteServ THEN LiteServClass(kind) ELSE TestServerClass(kind)

\* The names of packages and directories are made by the constructor; some
\* have the version in them and some have not.
AndroidNames == {"android"}
iOSNames     == {"ios"}
JavaNames    == {"java-macosx", "java-msft", "java-ubuntu", "java-centos", "java-debian"}
JavaWSNames  == {"javaws-macosx", "javaws-msft", "javaws-ubuntu", "javaws-centos"}
MsftNames    == {"net-msft", "net-uwp", "c-msft", "c-uwp", "maui-winui"}
MonoNames    == {"net-mono", "lite-net-mono"}
CppNames     == {}
LiteNames    == {"lite-android", "lite-macosx", "lite-net-msft"}
Versioned    == AndroidNames \union iOSNames \union JavaNames \union JavaWSNames
                \union MsftNames \union MonoNames \union CppNames \union LiteNames

\* All names of the LiteServ classes are made of version_build when they are
\* needed; those of the others stay as the constructor made them.
Slot == IF kind \in LiteNames \union MonoNames THEN obj.want
        ELSE IF kind \in Versioned THEN obj.named
        ELSE "any"
Slots == Versions \union {"any"}

-----------------------------------------------------------------------------
(* Scripts: TestServerAndroid                                              *)

AndroidDownload      == <<"supported", "have", "fetch">>
AndroidInstall       == <<"emulator", "try_uninstall_s", "install_loop", "listed">>
\* Mutant: as on an emulator, only an error leaves the loop.
AndroidInstallDeviceLoop == <<"real_device", "pool_id", "try_uninstall_s", "install_loop", "listed">>
AndroidInstallDevice == <<"real_device", "pool_id", "try_uninstall_s", "install_s", "listed">>
AndroidRemove        == <<"uninstall_s">>
AndroidStart         == <<"adb", "open_log", "launch", "reachable", "adb">>
AndroidStartDevice   == <<"adb_s", "force_stop_s", "open_log", "launch", "reachable", "adb_s">>
\* Mutant: the data of the package is not cleared.
AndroidStopKeeps == <<"force_stop_s", "close_log">>
AndroidStop          == <<"force_stop_s", "clear_s", "close_log">>
AndroidCloseApp      == <<"home">>
AndroidOpenApp       == <<"launch", "reachable", "adb">>

(* TestServeriOS.  The name looked for is never there if it has no         *)
(* version.  close_app runs osascript without its script.  With devicectl, *)
(* start_device launches what is installed, not the bundle on disk, and    *)
(* the list that remove_device asks for is a command that does not exist.  *)

iOSDownload      == IF kind \in iOSNames THEN <<"have", "get_zip", "unpack">>
                                         ELSE <<"get_zip", "unpack">>
iOSCloseApp      == <<"try_osascript">>
iOSStop          == iOSCloseApp \o <<"try_copy_log">>
iOSInstallDevice == <<"install_and_launch", "listed">> \o iOSStop
iOSInstall       == <<"sim_install", "springboard", "sim_id">>
iOSRemoveDevice  == IF obj.ctl THEN <<"ios_uninstall", "no_such_file">>
                    ELSE <<"ios_uninstall", "unlisted">>
iOSRemove        == iOSStop \o <<"kill_simulator", "erase">>
iOSStart         == <<"note_log", "launch_bundle", "reachable", "running">>
iOSStartDevice   == IF obj.ctl THEN <<"note_log", "launch", "reachable", "running">>
                    ELSE <<"note_log", "launch_bundle", "reachable", "running">>
iOSOpenApp       == IF obj.here THEN <<"launch">> ELSE <<"install_and_launch">>

(* TestServerJava and TestServerJavaWS: playbooks.  A kill that fails is   *)
(* ignored (ignore_errors), where the service of Windows is not killed.    *)

JavaDownload == <<"wipe", "fetch">>
JavaInstall  == IF kind = "java-msft" THEN <<"try_kill", "service_install">> ELSE <<>>
\* Mutant: a service that runs is not killed first.
JavaStartOver == IF kind = "java-msft" THEN <<"service_start">> ELSE <<"clean", "run", "reachable">>
JavaStart    == IF kind = "java-msft" THEN <<"service_start">>
                ELSE <<"clean", "try_kill", "run", "reachable">>
JavaStop     == IF kind = "java-msft" THEN <<"kill">> ELSE <<"try_kill">>

JavaWSDownload == <<"wipe", "fetch">>
JavaWSInstall  == IF kind = "javaws-msft" THEN <<"kill", "clean", "service_install">>
                  ELSE <<"try_kill", "clean", "service_install">>
JavaWSStart    == IF kind = "javaws-msft" THEN <<"service_start">>
                  ELSE <<"try_kill", "service_start">>
JavaWSStop     == IF kind = "javaws-msft" THEN <<"kill">> ELSE <<"try_kill">>

(* TestServerCpp: start kills on host, stop on TESTSERVER_HOST             *)

CppDownload == <<"wipe", "fetch">>
CppInstall  == <<>>
CppRemove   == <<"list_processes">>
CppStart    == <<"kill_on_host", "run">>
CppStop     == <<"kill">>

(* TestServerNetMsft and TestServerNetMono                                 *)

NetMsftDownload == IF kind = "net-msft" THEN <<"have", "wipe", "fetch">>
                   ELSE IF kind = "c-msft" THEN <<"try_kill", "wipe", "fetch">>
                   ELSE <<"wipe", "fetch">>
NetMsftInstall  == <<>>
NetMsftRemove   == <<>>
NetMsftStart    == <<"run">>
NetMsftStop     == IF kind = "net-msft" THEN <<"try_kill">> ELSE <<"kill">>

\* storage_engine is an attribute of LiteServ classes only.
NetMonoDownload == <<"have", "get_zip", "unpack">>
NetMonoInstall  == <<>>
NetMonoRemove   == <<>>
NetMonoStart    == <<"not_running", "attribute_error">>
NetMonoStop     == <<"flush_log", "kill_process", "not_running">>

(* LiteServMacOSX and LiteServNetMono: a local process                     *)

LiteMacOSXDownload == <<"have", "get_zip", "unpack">>
LiteMacOSXInstall  == <<>>
LiteMacOSXRemove   == <<>>
LiteMacOSXVerify   == <<"reachable", "version">>
LiteMacOSXStart    == <<"not_running", "spawn">> \o LiteMacOSXVerify
LiteMacOSXStop     == <<"flush_log", "kill_process", "not_running">>

LiteNetMonoDownload == <<"have", "get_zip", "unpack">>
LiteNetMonoInstall  == <<>>
LiteNetMonoRemove   == <<>>
LiteNetMonoVerify   == <<"reachable", "version">>
LiteNetMonoStart    == <<"not_running", "spawn">> \o LiteNetMonoVerify
LiteNetMonoStop     == <<"flush_log", "kill_process", "not_running">>

(* LiteServAndroid and LiteServiOS.  What adb, ios-deploy and simctl print *)
(* is bytes; its comparison with text raises, or is never equal.           *)

LiteAndroidDownload == <<"have", "fetch">>
LiteAndroidInstall  == <<"install", "type_error">>
LiteAndroidRemove   == <<"uninstall", "type_error">>
LiteAndroidVerify   == <<"reachable", "version">>
LiteAndroidStart    == <<"not_running", "adb", "open_log", "launch">> \o LiteAndroidVerify
LiteAndroidStop     == <<"force_stop", "clear", "not_running", "flush_log">>
LiteAndroidCloseApp == <<"home">>

LiteiOSDownload      == <<"get_zip", "unpack">>
LiteiOSVerify        == <<"reachable", "version">>
LiteiOSStart         == <<"note_log", "launch_bundle", "not_running", "admin", "put_start">>
                        \o LiteiOSVerify
LiteiOSStartDevice   == <<"note_log", "launch_bundle", "not_running", "admin", "put_start">>
                        \o LiteiOSVerify
LiteiOSStop          == <<"if_running", "put_stop", "copy_log", "not_running">>
LiteiOSInstallDevice == <<"install_and_launch", "type_error">>
LiteiOSInstall       == <<"sim_install", "type_error">>
LiteiOSRemoveDevice  == <<"ios_uninstall", "type_error">>
LiteiOSRemove        == LiteiOSStop \o <<"kill_simulator", "erase">>
LiteiOSCloseApp      == <<"osascript">>
LiteiOSOpenApp       == IF obj.here THEN <<"launch">> ELSE <<"install_and_launch">>

(* LiteServNetMsft: playbooks                                              *)

LiteNetMsftDownload == <<"have", "wipe", "fetch">>
LiteNetMsftInstall  == <<"service_install">>
LiteNetMsftRemove   == <<"service_remove">>
LiteNetMsftVerify   == <<"reachable", "version">>
LiteNetMsftStart    == <<"not_running", "run">> \o LiteNetMsftVerify
LiteNetMsftStop     == <<"kill", "copy_log">>

-----------------------------------------------------------------------------
\* The operations of the class
Scripts ==
    CASE Class = "Android" ->
           [download |-> AndroidDownload, install |-> AndroidInstall,
            install_device |-> AndroidInstallDevice, remove |-> AndroidRemove,
            start |-> AndroidStart, start_device |-> AndroidStartDevice,
            stop |-> AndroidStop, close_app |-> AndroidCloseApp, open_app |-> AndroidOpenApp]
      [] Class = "iOS" ->
           [download |-> iOSDownload, install |-> iOSInstall,
            install_device |-> iOSInstallDevice, remove |-> iOSRemove,
            remove_device |-> iOSRemoveDevice, start |-> iOSStart,
            start_device |-> iOSStartDevice, stop |-> iOSStop,
            close_app |-> iOSCloseApp, open_app |-> iOSOpenApp]
      [] Class = "Java" ->
           [download |-> JavaDownload, install |-> JavaInstall, start |-> JavaStart,
            stop |-> JavaStop]
      [] Class = "JavaWS" ->
           [download |-> JavaWSDownload, install |-> JavaWSInstall, start |-> JavaWSStart,
            stop |-> JavaWSStop]
      [] Class = "Cpp" ->
           [download |-> CppDownload, install |-> CppInstall, remove |-> CppRemove,
            start |-> CppStart, stop |-> CppStop]
      [] Class = "NetMsft" ->
           [download |-> NetMsftDownload, install |-> NetMsftInstall,
            remove |-> NetMsftRemove, start |-> NetMsftStart, stop |-> NetMsftStop]
      [] Class = "NetMono" ->
           [download |-> NetMonoDownload, install |-> NetMonoInstall,
            remove |-> NetMonoRemove, start |-> NetMonoStart, stop |-> NetMonoStop]
      [] Class = "LiteMacOSX" ->
           [download |-> LiteMacOSXDownload, install |-> LiteMacOSXInstall,
            remove |-> LiteMacOSXRemove, start |-> LiteMacOSXStart, stop |-> LiteMacOSXStop]
      [] Class = "LiteNetMono" ->
           [download |-> LiteNetMonoDownload, install |-> LiteNetMonoInstall,
            remove |-> LiteNetMonoRemove, start |-> LiteNetMonoStart, stop |-> LiteNetMonoStop]
      [] Class = "LiteAndroid" ->
           [download |-> LiteAndroidDownload, install |-> LiteAndroidInstall,
            remove |-> LiteAndroidRemove, start |-> LiteAndroidStart,
            stop |-> LiteAndroidStop, close_app |-> LiteAndroidCloseApp]
      [] Class = "LiteiOS" ->
           [download |-> LiteiOSDownload, install |-> LiteiOSInstall,
            install_device |-> LiteiOSInstallDevice, remove |-> LiteiOSRemove,
            remove_device |-> LiteiOSRemoveDevice, start |-> LiteiOSStart,
            start_device |-> LiteiOSStartDevice, stop |-> LiteiOSStop,
            close_app |-> LiteiOSCloseApp, open_app |-> LiteiOSOpenApp]
      [] Class = "LiteNetMsft" ->
           [download |-> LiteNetMsftDownload, install |-> LiteNetMsftInstall,
            remove |-> LiteNetMsftRemove, start |-> LiteNetMsftStart, stop |-> LiteNetMsftStop]

\* want: version_build; named: the version the constructor saw; id: the
\* device is known; here: host and the machine commanded are the same; ctl:
\* using_devicectl, which also names the device; log and proc: logfile and
\* process; did: download, install and start returned in this order, with
\* nothing else between and no process that outlived an ignored kill.
NewObject(v, id, here) ==
    [want |-> v, named |-> v, id |-> id, here |-> here, ctl |-> id /\ Class = "iOS",
     log |-> FALSE, proc |-> None, did |-> 0]
NoApp  == [v |-> None, mine |-> FALSE]
NoOperation == [op |-> None, todo |-> <<>>, tries |-> 0, resp |-> None]

\* The device may be given by an option, or be that of devicectl; host may be
\* another machine.
KnownIds == IF Class \in {"Android", "iOS"} THEN BOOLEAN ELSE {FALSE}
Places   == IF Class \in {"Cpp", "iOS", "LiteiOS"} THEN BOOLEAN ELSE {TRUE}

AppInit ==
    /\ kind \in Kinds /\ jobs = 1
    /\ \E v \in Versions, id \in KnownIds, here \in Places : obj = NewObject(v, id, here)
    /\ disk = [s \in Slots |-> None]
    /\ device = [v |-> None, dirty |-> FALSE]
    /\ app = NoApp /\ port = None
    /\ call = NoOperation /\ last = [op |-> None, ok |-> FALSE]

Idle == call.op = None

\* A new job makes its object; the machines are as the job before left them.
NewJob ==
    /\ Idle /\ jobs < MaxJobs
    /\ jobs' = jobs + 1
    /\ \E v \in Versions, id \in KnownIds :
         /\ Class = "iOS" => id = obj.ctl
         /\ obj' = NewObject(v, id, obj.here)
    /\ app' = [app EXCEPT !.mine = FALSE]
    /\ last' = [op |-> None, ok |-> FALSE]
    /\ UNCHANGED <<kind, disk, device, port, call>>

\* download may be given another version than the constructor.
Begin(op) ==
    /\ Idle /\ op \in DOMAIN Scripts
    /\ call' = [NoOperation EXCEPT !.op = op, !.todo = Scripts[op]]
    /\ last' = [op |-> None, ok |-> FALSE]
    /\ \/ obj' = obj
       \/ /\ op = "download" /\ Class \notin {"Java", "JavaWS", "Cpp"}
          /\ \E v \in Versions : obj' = [obj EXCEPT !.want = v]
    /\ UNCHANGED world

Step == IF call.todo # <<>> THEN Head(call.todo) ELSE None
Goes == call' = [call EXCEPT !.todo = Tail(@), !.tries = 0]

\* With devicectl, the installation that counts is that on the device.
Progress(op) ==
    CASE op = "download" -> IF obj.want = obj.named THEN 1 ELSE 0
      [] op \in {"install", "install_device"} ->
           IF obj.did = 1 /\ (obj.ctl => op = "install_device") THEN 2 ELSE 0
      [] op \in {"start", "start_device"}     -> IF obj.did = 2 THEN 3 ELSE 0
      [] OTHER -> 0

Returns ==
    /\ call' = NoOperation /\ last' = [op |-> call.op, ok |-> TRUE]
    /\ obj' = [obj EXCEPT !.did = Progress(call.op)]
    /\ UNCHANGED world
Raises ==
    /\ call' = NoOperation /\ last' = [op |-> call.op, ok |-> FALSE]
    /\ obj' = [obj EXCEPT !.did = 0]
    /\ UNCHANGED world

Finish == ~Idle /\ call.todo = <<>> /\ Returns

-----------------------------------------------------------------------------
(* Steps                                                                   *)

SetApp(v)  == app' = (IF v = None THEN NoApp ELSE [v |-> v, mine |-> TRUE])
AppGone    == app' = NoApp /\ port' = None
AppAsIs    == UNCHANGED <<app, port>>
Rest       == UNCHANGED <<kind, jobs, last>>

\* Checks that need no device: a failed one raises.
Passes(s) ==
    CASE s = "listed"      -> device.v # None
      [] s = "unlisted"    -> device.v = None
      [] s = "running"     -> port # None
      [] s = "not_running" -> port = None
      [] s = "version"     -> call.resp = obj.want
      [] s = "flush_log"   -> obj.log
      [] s = "kill_process" -> obj.proc # None
      [] s \in {"type_error", "attribute_error", "no_such_file"} -> FALSE
      [] OTHER -> TRUE
Checks == {"listed", "unlisted", "running", "not_running", "version",
           "type_error", "attribute_error", "no_such_file"}

Check ==
    /\ Step \in Checks
    /\ IF Passes(Step) THEN Goes /\ Rest /\ UNCHANGED <<obj, disk, device, app, port>>
                       ELSE Raises

\* A package that is there is not downloaded again.
Have ==
    /\ Step = "have"
    /\ IF disk[Slot] # None THEN Returns
       ELSE Goes /\ Rest /\ UNCHANGED <<obj, disk, device, app, port>>

Fetched  == IF Class \in {"NetMsft", "Java", "JavaWS", "Cpp"} THEN obj.named ELSE obj.want
CanFetch == kind \in AndroidNames \union iOSNames => obj.want = obj.named

\* What a step needs to be possible; adb -s needs android_id.
NeedsId  == {"adb_s", "install_s", "uninstall_s", "try_uninstall_s", "force_stop_s",
             "clear_s", "erase"}
FromDisk == {"install", "install_s", "install_loop", "sim_install", "service_install", "run",
             "launch_bundle", "install_and_launch", "spawn"}
Ready(s) ==
    /\ s \in NeedsId => obj.id
    /\ s \in FromDisk => disk[Slot] # None
    /\ s \in {"wipe", "get_zip", "fetch", "unpack"} => CanFetch
    /\ s = "service_start" => device.v # None
    /\ s = "reachable" => port # None
    /\ s \in {"admin", "put_start"} => app.v # None
    /\ s = "put_stop" => app.v # None \/ call.tries = 0

Does(steps) == Step \in steps /\ Ready(Step)

Fetch ==
    /\ Does({"wipe", "get_zip", "fetch", "unpack"})
    /\ disk' = CASE Step = "wipe" -> [s \in Slots |-> None]
                 [] Step = "get_zip" -> disk
                 [] OTHER -> [disk EXCEPT ![Slot] = Fetched]
    /\ Goes /\ Rest /\ AppAsIs /\ UNCHANGED <<obj, device>>

\* Commands that the model sees no effect of
Silent ==
    /\ Does({"supported", "emulator", "real_device", "adb", "adb_s", "home", "osascript",
             "try_osascript", "copy_log", "try_copy_log", "note_log", "list_processes",
             "springboard"})
    /\ Goes /\ Rest /\ AppAsIs /\ UNCHANGED <<obj, disk, device>>

\* Where the device is known from: the pool's record, the running simulator
LearnId ==
    /\ Step \in {"pool_id", "sim_id"}
    /\ \E b \in {TRUE} \union (IF Step = "pool_id" THEN {obj.id} ELSE {}) :
         obj' = [obj EXCEPT !.id = b]
    /\ Goes /\ Rest /\ AppAsIs /\ UNCHANGED <<disk, device>>

\* Installation keeps the data; the loop of install leaves on an error only.
Install ==
    /\ Does({"install", "install_s", "install_loop", "sim_install", "service_install"})
    /\ device' = [device EXCEPT !.v = disk[Slot]]
    /\ IF Step = "service_install" THEN AppAsIs ELSE AppGone
    /\ IF Step = "install_loop" THEN UNCHANGED call ELSE Goes
    /\ Rest /\ UNCHANGED <<obj, disk>>

\* The list of names that remove goes through lacks the C application's, and
\* an exit status of 1 is taken for a success.
Uninstall ==
    /\ Does({"uninstall", "uninstall_s", "try_uninstall_s", "ios_uninstall",
             "service_remove", "erase"})
    /\ \/ /\ kind = "c-android" \/ Step \in {"uninstall_s", "try_uninstall_s"}
          /\ AppAsIs /\ UNCHANGED device
       \/ /\ kind # "c-android" /\ AppGone
          /\ device' = [v |-> None, dirty |-> Step = "service_remove" /\ device.dirty]
    /\ Goes /\ Rest /\ UNCHANGED <<obj, disk>>

Kill ==
    /\ Does({"kill", "try_kill", "kill_on_host", "force_stop", "force_stop_s",
             "kill_simulator"})
    /\ IF Step = "kill_on_host" /\ ~obj.here THEN AppAsIs ELSE AppGone
    /\ Goes /\ Rest /\ UNCHANGED <<obj, disk, device>>

Clean ==
    /\ Does({"clean", "clear", "clear_s"})
    /\ device' = [device EXCEPT !.dirty = FALSE]
    /\ Goes /\ Rest /\ AppAsIs /\ UNCHANGED <<obj, disk>>

\* The installed application, or the one on disk; one that runs stays.
Launch ==
    /\ Does({"launch", "service_start", "run"})
    /\ IF app.v # None THEN UNCHANGED app
       ELSE SetApp(IF Step = "run" THEN disk[Slot] ELSE device.v)
    /\ Goes /\ Rest /\ UNCHANGED <<obj, disk, device, port>>

\* ios-sim and ios-deploy take the bundle from the disk and start it anew.
LaunchBundle ==
    /\ Does({"launch_bundle", "install_and_launch"})
    /\ device' = [device EXCEPT !.v = disk[Slot]]
    /\ \/ SetApp(disk[Slot])
       \/ Step = "install_and_launch" /\ app' = NoApp
    /\ port' = None
    /\ Goes /\ Rest /\ UNCHANGED <<obj, disk>>

\* A local process: its port may be taken by one that still starts.
Spawn ==
    /\ Does({"spawn"})
    /\ IF app.v = None
       THEN SetApp(disk[Slot]) /\ obj' = [obj EXCEPT !.log = TRUE, !.proc = "app"]
       ELSE UNCHANGED app /\ obj' = [obj EXCEPT !.log = TRUE, !.proc = "other"]
    /\ Goes /\ Rest /\ UNCHANGED <<disk, device, port>>

Handles ==
    /\ Step \in {"open_log", "close_log", "flush_log", "kill_process"}
    /\ IF Passes(Step)
       THEN /\ obj' = CASE Step = "open_log" -> [obj EXCEPT !.log = TRUE, !.proc = "logcat"]
                        [] Step = "kill_process" -> [obj EXCEPT !.proc = IF @ = "app" THEN "dead" ELSE @]
                        [] OTHER -> [obj EXCEPT !.log = FALSE,
                                                !.proc = IF @ = "logcat" THEN None ELSE @]
            /\ IF Step = "kill_process" /\ obj.proc = "app" THEN AppGone ELSE AppAsIs
            /\ Goes /\ Rest /\ UNCHANGED <<disk, device>>
       ELSE Raises

\* _wait_until_reachable, at the port or at the admin port of the iOS LiteServ
Reachable ==
    /\ Does({"reachable", "admin"})
    /\ call' = [call EXCEPT !.todo = Tail(@), !.resp = port]
    /\ Rest /\ AppAsIs /\ UNCHANGED <<obj, disk, device>>

PutStart ==
    /\ Does({"put_start"})
    /\ port' = app.v
    /\ Goes /\ Rest /\ UNCHANGED <<obj, disk, device, app>>

IfRunning ==
    /\ Step = "if_running"
    /\ call' = [call EXCEPT !.todo = IF port = None THEN Tail(Tail(@)) ELSE Tail(@)]
    /\ Rest /\ AppAsIs /\ UNCHANGED <<obj, disk, device>>

\* An application that is gone is opened again, once, to be told.
PutStop ==
    /\ Does({"put_stop"})
    /\ IF app.v # None THEN port' = None /\ Goes /\ UNCHANGED app
       ELSE /\ call' = [call EXCEPT !.tries = 1]
            /\ SetApp(device.v) /\ UNCHANGED port
    /\ Rest /\ UNCHANGED <<obj, disk, device>>

\* A command, a playbook or a request fails, or the retries of a wait are
\* used up.  What is in a try block goes on.
Soft == {"try_uninstall_s", "try_kill", "try_osascript", "try_copy_log", "close_log",
         "pool_id", "install_loop", "clean"}
Survives == Step = "try_kill" /\ app.v # None /\ call.op \in {"start", "start_device"}
Caught == IF Step \in Soft
          THEN /\ obj' = IF Survives THEN [obj EXCEPT !.did = 0] ELSE obj
               /\ Goes /\ Rest /\ AppAsIs /\ UNCHANGED <<disk, device>>
          ELSE Raises
Fails ==
    /\ Step # None /\ Ready(Step)
    /\ Step \notin Checks \union {"have", "if_running", "emulator", "real_device", "note_log",
                               "reachable", "admin"}
    /\ Caught
Impossible == Step # None /\ ~Ready(Step) /\ Caught

ScriptStep == \/ Finish \/ Check \/ Have \/ Fetch \/ Silent \/ LearnId \/ Install
              \/ Uninstall \/ Kill \/ Clean \/ Launch \/ LaunchBundle \/ Spawn \/ Handles
              \/ Reachable \/ PutStart \/ IfRunning \/ PutStop \/ Impossible

-----------------------------------------------------------------------------
(* The application                                                         *)

Listens ==
    /\ app.v # None /\ port # app.v /\ Class # "LiteiOS"
    /\ port' = app.v
    /\ UNCHANGED <<kind, jobs, obj, disk, device, app, call, last>>
Dies ==
    /\ app.v # None /\ AppGone
    /\ UNCHANGED <<kind, jobs, obj, disk, device, call, last>>
\* A test leaves data in the application.
Used ==
    /\ Idle /\ port # None /\ ~device.dirty
    /\ device' = [device EXCEPT !.dirty = TRUE]
    /\ UNCHANGED <<kind, jobs, obj, disk, app, port, call, last>>

Operations == {"download", "install", "install_device", "remove", "remove_device",
               "start", "start_device", "stop", "close_app", "open_app"}

AppNext == NewJob \/ (\E op \in Operations : Begin(op)) \/ ScriptStep \/ Fails
           \/ Listens \/ Dies \/ Used

AppSpec == AppInit /\ [][AppNext]_appVars

-----------------------------------------------------------------------------
(* Properties                                                              *)

AppTypeOK ==
    /\ kind \in Kinds /\ jobs \in 1..MaxJobs
    /\ obj \in [want : Versions, named : Versions, id : BOOLEAN, here : BOOLEAN, ctl : BOOLEAN,
                log : BOOLEAN, proc : {None, "app", "other", "logcat", "dead"}, did : 0..3]
    /\ disk \in [Slots -> Found]
    /\ device \in [v : Found, dirty : BOOLEAN]
    /\ app \in [v : Found, mine : BOOLEAN] /\ port \in Found
    /\ call.op \in Operations \union {None} /\ call.tries \in 0..1
    /\ last \in [op : Operations \union {None}, ok : BOOLEAN]

Returned(op) == Idle /\ last = [op |-> op, ok |-> TRUE]

\* A LiteServ whose start returned runs in the version asked for, whatever
\* was on the device, on disk or on the port before.
LiteServVersion ==
    (IsLiteServ /\ (Returned("start") \/ Returned("start_device")) /\ port # None)
        => port = obj.want

\* On the platforms that replace the package, the installed application and
\* the process, a download, an installation and a start that returned, one
\* after the other, have the version asked for running.  The one way to
\* another version is a process that outlived a kill of start (an error that
\* the playbooks ignore): such a chain is not counted in did.
Replacing == {"ios", "xamarin-ios", "c-ios", "java-macosx", "java-ubuntu", "java-centos",
              "java-debian", "javaws-macosx", "javaws-ubuntu", "javaws-centos"}
FreshChain ==
    (kind \in Replacing /\ Idle /\ obj.did = 3 /\ port # None) => port = obj.want

\* After a stop that returned, no process that this object started is left,
\* and no listener of the iOS LiteServ.  Not meant is a local process whose
\* handle was lost: a start that gave up on it was repeated before it listened.
Stopping == {"android", "c-android", "maui-android", "xamarin-android", "c-msft",
             "lite-android", "lite-macosx", "lite-net-mono", "lite-net-msft"}
StopStops ==
    Returned("stop") => /\ (kind \in Stopping /\ obj.proc # "other") => ~app.mine
                        /\ kind = "lite-ios" => port = None

\* A stop that returned on Android leaves no data of this run for the next.
StopClears ==
    (Class = "Android" /\ Returned("stop")) => ~device.dirty

\* An installation on a device that returned has put the package of the disk
\* there and ended the application that was: what answers is not an older
\* one.  So have those of the simulator and, for what is installed, those of
\* the services.  The loop for the Android emulator promises neither.
InstallReplaces ==
    /\ (Class \in {"Android", "iOS"} /\ Returned("install_device"))
          => device.v = disk[Slot] /\ port \in {None, disk[Slot]}
    /\ (Class = "iOS" /\ Returned("install"))
          => device.v = disk[Slot] /\ port \in {None, disk[Slot]}
    /\ ((kind = "java-msft" \/ Class = "JavaWS") /\ Returned("install")) => device.v = disk[Slot]

\* A stop that returned leaves neither a process nor data of this run to the next.
StopLeavesNothing == AppTypeOK /\ StopStops /\ StopClears

\* What answers on the port after a start is the version asked for, whatever earlier jobs
\* left on disk, on the device and on the port.
RunsAsked == LiteServVersion /\ FreshChain

=============================================================================
