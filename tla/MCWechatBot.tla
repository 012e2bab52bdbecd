---------------------------- MODULE MCWechatBot ----------------------------
(***************************************************************************)
(* WechatBot on a small instance.                                          *)
(***************************************************************************)
EXTENDS WechatBot

CONSTANT c1
MCMessages == {[items |-> <<"text">>, form |-> "partial"],
               [items |-> <<"image", "text">>, form |-> "final"]}
MCConfigTokens == {None, 1}
MCAnswers == {[chunks |-> 1, file |-> FALSE], [chunks |-> 2, file |-> TRUE]}
=============================================================================
