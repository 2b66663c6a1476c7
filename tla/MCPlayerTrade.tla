---------------------------- MODULE MCPlayerTrade ----------------------------
(* Two stacks of three.  MCPrompt: exact, full and single quantities of     *)
(* them; MCHook: invitations among every other kind of request.             *)
EXTENDS PlayerTrade

MCPrompt == {<<"value", "a", 2>>, <<"value", "b", 3>>, <<"max", "b", 0>>,
             <<"default", "a", 0>>}
MCHook == {<<"initiate", NoWare, 0>>, <<"value", "a", 2>>,
           <<"submit", NoWare, 0>>, <<"accept", NoWare, 0>>,
           <<"offer", "a", 1>>, <<"cancel", NoWare, 0>>,
           <<"change", NoWare, 0>>, <<"remove", "a", 0>>}
MCAll == MCPrompt \cup MCHook
=============================================================================
