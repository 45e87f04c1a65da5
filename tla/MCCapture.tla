------------------------------ MODULE MCCapture ------------------------------
(* Capture on a small instance.                                            *)
EXTENDS Capture, TLC

CONSTANTS u1, u2, p1, p2

(* Whole alerts that use different names, a URL next to a name without a   *)
(* value, and a URL without a panel.                                       *)
SomeAlerts ==
  {("__dashboardUid__" :> u1 @@ "panel_id" :> p1),
   ("dashboard_uid" :> u2 @@ "__panelId__" :> p2),
   ("__dashboardUid__" :> None @@ "grafana_panel_url" :> [uid |-> u2, pid |-> p1]),
   ("dashboardURL" :> [uid |-> u1, pid |-> None])}

(* One alert, with its panel.                                              *)
OneAlert == {("__dashboardUid__" :> u1 @@ "__panelId__" :> p1)}

Success(matrix) == [outcome |-> "success", matrix |-> matrix]

(* No answer, and matrices at the limits of summarize: halves to round,    *)
(* more points than the trend keeps, samples that are no numbers,          *)
(* infinities, and more series than are looked at.                         *)
SomeAnswers ==
  {[outcome |-> "error", matrix |-> <<>>],
   Success(<<<<9000, NaN, 1000, Junk, 5005, 4995, 2000>>, <<NaN>>, <<5, -5, 14>>, <<NegInf>>>>),
   Success(<<<<Junk, NaN>>>>),
   Success(<<<<-3, -3, -4>>, <<1, PosInf>>>>)}

OneAnswer == {Success(<<<<1000>>>>)}
=============================================================================
