---------------------------- MODULE MCTraderQuote ----------------------------
(* One pack of scales sold, then two packs of iron bought in two attempts,  *)
(* against one purchase of the bridge, of dust, which costs as much as      *)
(* iron: its quote passes for the bot's, so that two transactions of the    *)
(* bot can be under way at once.  The quote number restarts at 2.           *)
EXTENDS TraderQuote

Iron == 1
Dust == 2
Scales == 3
MCGoods == {Iron, Dust}
MCScarce == {}
MCPrice == <<1, 1, 2>>

=============================================================================
