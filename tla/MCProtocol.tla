----------------------------- MODULE MCProtocol -----------------------------
(***************************************************************************)
(* Scenes: one call over much evidence, the calls and scans that meet over *)
(* little, and an old release's file.                                      *)
(***************************************************************************)
EXTENDS Protocol, TLC

CONSTANTS c1, c2, c3

Calm  == [Blank EXCEPT !.ssid = TRUE, !.unknown = TRUE]
Write(f) == [Calm EXCEPT !.base = f]

W(id) == Finding("WARN", id)
A(id) == Finding("ALERT", id)
I(id) == Finding("INFO", id)

Much ==
  { Calm, [Calm EXCEPT !.usb = TRUE], [Blank EXCEPT !.usb = TRUE], [Blank EXCEPT !.second = TRUE],
    Write(<<A("PROC-MEMFD")>>), Write(<<W("PROC-DELETED")>>),
    [Write(<<W("PROC-DELETED")>>) EXCEPT !.owned = FALSE],
    Write(<<A("FIM-AIDE"), W("FIM-AIDE-STALE"), I("FIM-AIDE")>>), Write(<<I("NET-NMAP")>>),
    Write(<<W("FIM-AIDE-STALE")>>),
    [Write(<<A("FIM-AIDE"), I("FIM-AIDE")>>) EXCEPT !.falco = TRUE],
    [Write(<<W("FIM-AIDE"), I("FIM-AIDE")>>) EXCEPT !.falco = TRUE],
    [Write(<<W("NET-UFW-HIT")>>) EXCEPT !.falco = TRUE],
    [Write(<<W("PERS-SUID")>>) EXCEPT !.falco = TRUE],
    [Write(<<W("FIM-AIDE")>>) EXCEPT !.suricata = "signal"], [Calm EXCEPT !.suricata = "signal"],
    [Write(<<W("FIM-AIDE")>>) EXCEPT !.suricata = "flow"], [Calm EXCEPT !.suricata = "decoder"],
    [Calm EXCEPT !.suricata = "flow", !.falco = TRUE],
    Write(<<W("FIM-AIDE")>>), Write(<<W("HELPER-STALE")>>), Write(<<W("HOST-RUNTIME")>>),
    [Blank EXCEPT !.base = <<W("HOST-RUNTIME")>>], [Blank EXCEPT !.base = <<Finding("ERROR", "SCAN")>>] }
Little == {Calm, Write(<<A("PROC-MEMFD")>>), Write(<<W("HELPER-STALE")>>)}

Says(c, d, p) == [class |-> c, dual |-> d, playbook |-> p, src |-> "jev"]
Models == {Says("noise", FALSE, "isolate-dst"), Says("alert_family", FALSE, "aide-init"),
           Says("alert_family", TRUE, "none"), Says("candidate", FALSE, "ask_operator"),
           Says("none", FALSE, "none"), Says("env_shift", TRUE, "isolate-dst")}
One == {Says("noise", FALSE, "isolate-dst")}

Meet(x, y, z) == c1 :> x @@ c2 :> y @@ c3 :> z
Scene(k, e, l, m, n, old, iso) ==
  [kind |-> k, evidence |-> e, live |-> l, mercury |-> m, scans |-> n, old |-> old, isolates |-> iso]
Old(m) == [mercury |-> m]
MCScenes ==
  { Scene(c1 :> "get", Much, Models, {"isolate-dst", "none"}, 1, NoDoc, FALSE),
    Scene(Meet("get", "reap", "env"), Little, One, {}, 1, NoDoc, FALSE),
    Scene(Meet("get", "reap", "env"), {Calm}, {}, {}, 2, NoDoc, FALSE),
    Scene(c1 :> "get" @@ c2 :> "reap", Little, {}, {}, 2, NoDoc, FALSE),
    Scene(c1 :> "port" @@ c2 :> "env", {Calm}, {}, {}, 2, NoDoc, TRUE),
    Scene(Meet("get", "env", "get"), Little, {}, {}, 1, Old("absent"), FALSE),
    Scene(Meet("get", "reap", "get"), Little, {}, {}, 1, Old("none"), FALSE) }

=============================================================================
