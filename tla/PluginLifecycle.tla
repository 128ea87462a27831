---------------------------- MODULE PluginLifecycle ----------------------------
(***************************************************************************)
(* What a plugin process promises its host: it offers itself, is bound by  *)
(* Register, serves, and ends - and never goes back.  Before it serves it  *)
(* may fail; until it ends in order it may be killed.  PluginServer        *)
(* implements it.                                                          *)
(***************************************************************************)
VARIABLE promise

Promises == {"starting", "offered", "bound", "serving", "ending", "ended", "failed", "killed"}

Init == promise = "starting"

Become(from, to) == promise \in from /\ promise' = to

Offer == Become({"starting"}, "offered")
Bind  == Become({"offered"}, "bound")
Serve == Become({"bound"}, "serving")
Stop  == Become({"serving"}, "ending")
End   == Become({"ending"}, "ended")
Fail  == Become({"starting", "offered", "bound"}, "failed")
Kill  == Become({"starting", "offered", "bound", "serving"}, "killed")

Next == Offer \/ Bind \/ Serve \/ Stop \/ End \/ Fail \/ Kill

Spec == Init /\ [][Next]_promise

=============================================================================
