------------------------------- MODULE MCGdpr -------------------------------
(* Two employees, one with an account, their rows of every kind, some of them old, *)
(* two anonymization jobs of one of them, and requests that overlap.              *)
EXTENDS Gdpr, TLC

MCRoleOf == [hr |-> "HR", eva |-> "Employee"]
MCEmployeeOf == [hr |-> None, eva |-> "eve"]

A(kind, e, by, parent, old) ==
  [kind |-> kind, of |-> e, by |-> by, parent |-> parent, old |-> old, text |-> "personal"]

MCInitial ==
     11 :> A("profile", "eve", None, None, FALSE)  @@ 12 :> A("user", "eve", None, None, FALSE)
  @@ 13 :> A("nickname", "eve", None, None, FALSE) @@ 14 :> A("goal", "eve", None, None, TRUE)
  @@ 15 :> A("comment", "eve", "eva", 14, FALSE)    @@ 16 :> A("feedback", "joe", "eva", 14, FALSE)
  @@ 17 :> A("leave", "eve", None, None, TRUE)     @@ 18 :> A("approval", None, "hr", 17, FALSE)
  @@ 19 :> A("contact", "eve", None, None, TRUE)
  @@ 20 :> [A("job", "eve", None, None, FALSE) EXCEPT !.text = "requested"]
  @@ 34 :> [A("job", "eve", None, None, FALSE) EXCEPT !.text = "requested"]
  @@ 21 :> A("period", None, None, None, TRUE)     @@ 22 :> A("payslip", "eve", None, 21, FALSE)
  @@ 35 :> A("period", None, None, None, TRUE)
  @@ 23 :> A("cycle", None, None, None, TRUE)      @@ 24 :> A("task", "eve", None, 23, FALSE)
  @@ 25 :> A("response", "eve", "eva", 24, FALSE)   @@ 26 :> A("feedback", "eve", "hr", None, FALSE)
  @@ 27 :> [A("export", "joe", "hr", None, TRUE) EXCEPT !.text = "failed"]
  @@ 28 :> [A("export", "joe", "hr", None, TRUE) EXCEPT !.text = "completed"]
  @@ 29 :> A("nickname", "joe", None, None, TRUE)  @@ 30 :> A("consent", "eve", None, None, FALSE)
  @@ 31 :> A("profile", "joe", None, None, FALSE)
  @@ 32 :> A("checkin", "eve", None, None, TRUE)   @@ 33 :> A("pip", "eve", None, None, TRUE)

MCWritable ==
  {[by |-> "eva", kind |-> "goal", of |-> "eve", parent |-> None],
   [by |-> "eva", kind |-> "feedback", of |-> "joe", parent |-> 14]}
=============================================================================
