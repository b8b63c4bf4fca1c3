------------------------ MODULE MCEnvironmentProvider ------------------------
(***************************************************************************)
(* Instances of EnvironmentProvider: a host before and after an upgrade of  *)
(* the driver, with two installations, with a broken inventory and with a   *)
(* slow nvcc, and two calls of every kind.                                  *)
(***************************************************************************)
EXTENDS EnvironmentProvider

Row(uuid, index, name, cc, driver) ==
    [uuid |-> uuid, index |-> index, name |-> name, cc |-> cc, driver |-> driver]

Ampere(i, driver) == Row("A", i, "3090", <<8, 6>>, driver)
Pascal(i, driver) == Row("P", i, "1080", <<6, 1>>, driver)

Shown(driver) ==
    [s \in {"windows-host", "ubuntu"} |->
        IF s = "windows-host" THEN <<Ampere(0, driver), Pascal(1, driver)>> ELSE <<Pascal(0, driver)>>]

\* The host's roots and the distribution's; "cuda" by itself is a relative path.
MCHostAbsolute == {"D:opt", "D:env", "C:12.9", "W:12.9", "C:other"}
MCSlashAbsolute == {"/cuda"}

MCInstallRoot ==
    [dir \in {"C:", "W:"} |->
        [v \in Versions |-> CASE v # "12.9" -> "C:other" [] dir = "C:" -> "C:12.9" [] OTHER -> "W:12.9"]]

NoEnv == [v \in {"root", "path", "13.0", "12.9", "12.4", "ProgramFiles", "ProgramW6432"} |-> ""]
Dirs == [NoEnv EXCEPT !["ProgramFiles"] = "C:", !["ProgramW6432"] = "W:"]

Base ==
    [rows |-> Shown("575"),
     ceiling |-> [s \in {"windows-host", "ubuntu"} |-> <<12, 9>>],
     nvcc |-> [d \in {"", "ubuntu"} |->
                  IF d = "" THEN [r \in MCHostAbsolute |->
                                     CASE r = "C:12.9" -> "12.9" [] r = "D:env" -> "12.4" [] r = "D:opt" -> "13.0"
                                       [] OTHER -> "absent"]
                  ELSE [r \in MCSlashAbsolute |-> "12.9"]],
     env |-> [Dirs EXCEPT !["path"] = "D:env"],
     wslRoot |-> [v \in Versions |-> "/cuda"],
     kernel |-> [d \in {"ubuntu", "debian"} |-> "k1"],
     cdi |-> {"all", "A"}, podman |-> TRUE, ctk |-> TRUE]

Upgraded == [Base EXCEPT !.rows = Shown("580"), !.ceiling = [s \in DOMAIN @ |-> <<13, 0>>],
                         !.kernel["ubuntu"] = "k2", !.env = [Dirs EXCEPT !["13.0"] = "D:opt", !["path"] = "C:12.9"]]

MCHosts ==
    [base |-> Base, upgraded |-> Upgraded,
     two |-> [Base EXCEPT !.nvcc[""]["W:12.9"] = "12.9", !.kernel["ubuntu"] = None, !.cdi = {"P"}],
     slow |-> [Base EXCEPT !.nvcc[""]["C:12.9"] = "slow", !.podman = FALSE,
                           !.env = [Dirs EXCEPT !["12.4"] = "D:env"]],
     clash |-> [Base EXCEPT !.rows["ubuntu"] = <<Row("P", 0, "1080", <<8, 6>>, "581")>>, !.ctk = FALSE],
     twice |-> [Base EXCEPT !.rows["windows-host"] = <<Ampere(0, "575"), Ampere(1, "575")>>,
                            !.env = NoEnv]]

Ask(op, profile, distribution) ==
    [op |-> op, version |-> "v1", profile |-> profile, distribution |-> distribution,
     own |-> "", root |-> "", env |-> NoEnv, scopes |-> <<"windows-host", "ubuntu">>,
     reuse |-> FALSE, compiled |-> FALSE]

Rooted(r, root) == [r EXCEPT !.root = root]
Env(r, var, value) == [r EXCEPT !.env = [NoEnv EXCEPT ![var] = value]]

Refused == [Ask("plan", "pascal", "") EXCEPT !.version = "v0"]

\* What is asked of the store: by a provider for the host, for a distribution, for
\* another with the same kernel, and for the other profile.
Host(op) == Ask(op, "pascal", "")
WSL(op, distribution) == Rooted(Ask(op, "pascal", distribution), "C:12.9")

MCReaders ==
    {Refused, Ask("plan", "volta", ""), Ask("plan", "ampere", ""), Rooted(Host("plan"), "D:opt"),
     Env(Host("plan"), "root", "D:env"), Env(Host("plan"), "ProgramFiles", "clash"),
     [Rooted(Host("plan"), "C:12.9") EXCEPT !.own = "D:env"],
     [Host("plan") EXCEPT !.scopes = <<>>], [Host("plan") EXCEPT !.scopes = <<"ubuntu">>],
     Host("inspect"), [Host("inspect") EXCEPT !.compiled = TRUE],
     [Ask("inspect", "pascal", "ubuntu") EXCEPT !.reuse = TRUE],
     [Ask("inspect", "pascal", "ubuntu") EXCEPT !.reuse = TRUE, !.scopes = <<"windows-host">>],
     Env(Ask("inspect", "pascal", "ubuntu"), "root", "C:12.9"),
     [Ask("inspect", "pascal", "ubuntu") EXCEPT !.own = "cuda"],
     Env(Ask("inspect", "ampere", "ubuntu"), "path", "clash")}

\* Calls meet only in the store: the ones that only read run beside a call that is
\* refused at once.
MCWorkloads ==
    {[c1 |-> w[1], c2 |-> w[2]] :
        w \in {<<Host("apply"), Host("apply")>>, <<WSL("apply", "ubuntu"), Host("apply")>>,
               <<Ask("apply", "ampere", ""), Host("apply")>>, <<Host("verify"), Host("apply")>>,
               <<WSL("verify", "ubuntu"), WSL("apply", "ubuntu")>>,
               <<WSL("verify", "debian"), WSL("apply", "ubuntu")>>}
              \cup {<<r, Refused>> : r \in MCReaders}}
=============================================================================
