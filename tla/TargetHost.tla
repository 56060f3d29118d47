----------------------------- MODULE TargetHost -----------------------------
(***************************************************************************)
(* What a target host must offer a capture (backend/ssh_manager.py): the   *)
(* read-only probe, the checklist made of its answers, the commands the    *)
(* checklist prints for the operator, and what a capture then runs there.  *)
(*                                                                         *)
(* A host is described by what decides whether tcpdump runs; operators,    *)
(* commands and packages are not looked into.  Paths, versions and wording *)
(* are left out, and SELinux, which is only ever a warning.                *)
(***************************************************************************)

(* Where tcpdump is: on the session's PATH, in a directory the whole probe *)
(* searches, in one only its first loop does, where this account may not   *)
(* run it, or nowhere.  The group it is then limited to.  File             *)
(* capabilities: none, cap_net_raw, or more than the kernel lets a process *)
(* have.  sudo without a password: for tcpdump alone, or for all commands. *)
(* Who may write to /tmp: root alone where its mode says so, nobody where  *)
(* it is mounted read-only.                                                *)
Hosts ==
    {h \in [tcpdump : {"path", "sbin", "local", "noexec", "absent"},
            group : {"own", "privileged", "unknown"}, world : BOOLEAN,
            caps : {"none", "raw", "refused"}, getcap : BOOLEAN,
            root : BOOLEAN, sudo : {"absent", "password", "scoped", "all"},
            tmp : {"anyone", "root", "nobody"}, libpcap : {"new", "old", "unknown"}] :
        h.root => h.tcpdump # "noexec"}

Found(h) == h.tcpdump \in {"path", "sbin", "local"}

-----------------------------------------------------------------------------
(* The probe and its facts *)

(* tcpdump is asked about itself only where the script's second search     *)
(* finds it.                                                               *)
Asked(h) == h.tcpdump \in {"path", "sbin"}

Facts(h) ==
    [path |-> Found(h), onPath |-> h.tcpdump = "path",
     noexec |-> h.tcpdump = "noexec", group |-> h.group,
     version |-> IF Asked(h) THEN IF h.caps = "refused" THEN "refused" ELSE "known" ELSE "",
     libpcap |-> IF Asked(h) /\ h.caps # "refused" THEN h.libpcap ELSE "unknown",
     caps |-> Asked(h) /\ h.getcap /\ h.caps # "none",
     capsUnavailable |-> Asked(h) /\ ~h.getcap,
     world |-> Asked(h) /\ h.world,
     root |-> h.root,
     sudo |-> h.sudo # "absent",
     sudoTrue |-> h.sudo = "all" \/ (h.root /\ h.sudo # "absent"),
     tmp |-> h.tmp = "anyone" \/ (h.root /\ h.tmp = "root")]

-----------------------------------------------------------------------------
(* The checklist *)

Check(name, status, fix) == [name |-> name, status |-> status, fix |-> fix]

UnrunnableTcpdump(f) ==
    Check("installed", "fail", IF f.group = "own" THEN "join_group" ELSE "limit_to_group")

MultiInterfaceCheck(f) ==
    Check("several", IF f.libpcap = "new" THEN "ok" ELSE "info", "upgrade")

SudoChecks(f) ==
    IF f.sudoTrue
      THEN {Check("privilege", "ok", ""),
            Check("without_sudo", "info", IF f.caps THEN "untick" ELSE "setcap")}
    ELSE {Check("privilege", "fail",
                IF f.caps THEN "untick" ELSE IF f.sudo THEN "sudoers_or_setcap" ELSE "setcap")}

PrivilegeChecks(f, useSudo) ==
    IF f.caps /\ f.version = "refused" THEN {Check("privilege", "fail", "narrow")}
    ELSE (IF f.root THEN {Check("privilege", "ok", "")}
          ELSE IF useSudo THEN SudoChecks(f)
          ELSE IF f.caps THEN {Check("privilege", "ok", "")}
          ELSE {Check("privilege", "fail", "sudoers_or_setcap")})
         \union {c \in {Check("who", "info", "limit_to_group")} : f.caps /\ ~f.root /\ f.world}

(* evaluate_prereqs: one that ends early says only that.                   *)
Checks(complete, f, useSudo) ==
    IF ~complete THEN {Check("probe", "fail", "")}
    ELSE IF ~f.path
      THEN {IF f.noexec THEN UnrunnableTcpdump(f) ELSE Check("installed", "fail", "install")}
    ELSE {Check("installed", "ok", ""), MultiInterfaceCheck(f),
          Check("PATH", IF f.onPath THEN "ok" ELSE "warn", ""),
          Check("tmp", IF f.tmp THEN "ok" ELSE "fail", "open_tmp")}
         \union PrivilegeChecks(f, useSudo)
         \union {c \in {Check("capabilities", "warn", "install_getcap")} :
                    f.capsUnavailable /\ ~f.caps /\ ~f.root}

Report(h, useSudo) == Checks(TRUE, Facts(h), useSudo)
Passed(checks) == \A c \in checks : c.status # "fail"

-----------------------------------------------------------------------------
(* What a capture runs there: run_tcpdump with the path the check found.   *)

SudoRuns(h, what) ==
    h.sudo = "all" \/ (h.root /\ h.sudo # "absent") \/ (h.sudo = "scoped" /\ what = "tcpdump")

(* sudo looks for tcpdump itself, as a user who may run it.                *)
Starts(h, useSudo) ==
    /\ Found(h) \/ (useSudo /\ h.tcpdump = "noexec")
    /\ h.caps # "refused"

Privileged(h, useSudo) ==
    IF useSudo THEN SudoRuns(h, "tcpdump") ELSE h.root \/ h.caps = "raw"

(* tcpdump opens the capture file in /tmp itself, as root under sudo.      *)
Writes(h, useSudo) == h.tmp = "anyone" \/ (h.tmp = "root" /\ (h.root \/ useSudo))

CanCapture(h, useSudo) ==
    Starts(h, useSudo) /\ Privileged(h, useSudo) /\ Writes(h, useSudo)

(* _remove_capture_file, and signal_on_target: what the login user may not *)
(* do to a file and a process of sudo's is tried again with sudo.          *)
CleansUp(h, useSudo) == useSudo /\ ~h.root => SudoRuns(h, "rm")

-----------------------------------------------------------------------------
(* What the printed commands do to the host, and to the server's setting,  *)
(* for each of the ways printed.  Where there is no sudo, root runs them   *)
(* without the word; no line installs it.                                  *)

Limited(h) ==
    [h EXCEPT !.caps = "raw", !.world = FALSE, !.getcap = TRUE, !.group = "own",
              !.tcpdump = IF h.tcpdump = "noexec" THEN "sbin" ELSE h.tcpdump]

Follow(h, useSudo, fix) ==
    CASE fix = "install" -> {[host |-> [h EXCEPT !.tcpdump = "sbin", !.caps = "none", !.world = TRUE],
                              useSudo |-> useSudo]}
      [] fix = "join_group" -> {[host |-> [h EXCEPT !.tcpdump = "sbin"], useSudo |-> useSudo]}
      [] fix = "limit_to_group" -> {[host |-> Limited(h), useSudo |-> useSudo]}
      [] fix = "narrow" -> {[host |-> [h EXCEPT !.caps = "raw"], useSudo |-> useSudo]}
      [] fix = "setcap" -> {[host |-> Limited(h), useSudo |-> FALSE]}
      [] fix = "untick" -> {[host |-> h, useSudo |-> FALSE]}
      [] fix = "open_tmp" ->   \* or a writable directory elsewhere
            {[host |-> [h EXCEPT !.tmp = "anyone"], useSudo |-> useSudo],
             [host |-> h, useSudo |-> useSudo]}
      [] fix = "sudoers_or_setcap" ->
            {[host |-> Limited(h), useSudo |-> FALSE],
             [host |-> [h EXCEPT !.sudo = IF @ = "password" THEN "scoped" ELSE @],
              useSudo |-> TRUE]}

Cured(fix, h, useSudo) ==
    CASE fix \in {"install", "join_group", "limit_to_group"} -> Found(h)
      [] fix = "narrow" -> Starts(h, useSudo)
      [] fix \in {"setcap", "untick", "sudoers_or_setcap"} -> Privileged(h, useSudo)
      [] fix = "open_tmp" -> Writes(h, useSudo)

-----------------------------------------------------------------------------
(* Properties *)

(* The probe does not see capabilities: no getcap, or tcpdump where only   *)
(* its first loop looks.                                                   *)
CapsUnread(h) == h.caps # "none" /\ ~(Asked(h) /\ h.getcap)

(* A host that passes lets a capture run, unless the login is root, sudo   *)
(* is ticked and there is none (run_tcpdump asks for sudo even so), or     *)
(* the binary carries capabilities the probe does not see and the kernel   *)
(* refuses.                                                                *)
PassMeansCapture(h, useSudo) ==
    Passed(Report(h, useSudo)) =>
        \/ CanCapture(h, useSudo)
        \/ h.root /\ useSudo /\ h.sudo = "absent"
        \/ h.caps = "refused" /\ CapsUnread(h)

(* A host that fails does not, unless sudo is granted for tcpdump alone,   *)
(* which is what the checklist asks for and `sudo -n true` does not see;   *)
(* or the capabilities are not seen; or only sudo may run the binary, or   *)
(* write to /tmp.                                                          *)
FailMeansNoCapture(h, useSudo) ==
    ~Passed(Report(h, useSudo)) =>
        \/ ~CanCapture(h, useSudo)
        \/ useSudo /\ h.sudo = "scoped"
        \/ h.caps = "raw" /\ CapsUnread(h)
        \/ useSudo /\ (h.tcpdump = "noexec" \/ h.tmp = "root")

(* Every failure of a finished probe comes with a way out that works       *)
(* ("Remediation is always text for the operator", evaluate_prereqs).  So  *)
(* does every other way it prints, but for two: a sudoers rule where there *)
(* is no sudo, and a writable directory that no capture uses.              *)
FixesWork(h, useSudo) ==
    \A c \in Report(h, useSudo) : c.status = "fail" =>
        /\ \E s \in Follow(h, useSudo, c.fix) : Cured(c.fix, s.host, s.useSudo)
        /\ \A s \in Follow(h, useSudo, c.fix) :
              \/ Cured(c.fix, s.host, s.useSudo)
              \/ c.fix = "sudoers_or_setcap" /\ s.useSudo /\ h.sudo = "absent"
              \/ c.fix = "open_tmp" /\ s.host = h

(* A capture started as the checklist recommends leaves nothing on the     *)
(* target, unless the grant is for tcpdump alone: rm and pkill are not in  *)
(* it.                                                                     *)
CapturesCleanUp(h, useSudo) ==
    CanCapture(h, useSudo) => CleansUp(h, useSudo) \/ h.sudo = "scoped"
=============================================================================
