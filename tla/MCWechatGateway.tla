-------------------------- MODULE MCWechatGateway --------------------------
(* Values of the constants of WechatGateway for TLC. *)
EXTENDS WechatGateway, TLC

CONSTANTS alice, room

=============================================================================
