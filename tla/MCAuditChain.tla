---------------------------- MODULE MCAuditChain ----------------------------
(***************************************************************************)
(* AuditChain with two contents, either of which may be altered to the     *)
(* other, to one whose fields join to the same string although the colon   *)
(* stands in another field, or to one that differs by its actor alone.     *)
(***************************************************************************)
EXTENDS AuditChain

Content(type, id, event, actor) ==
  [aggregate_type |-> type, aggregate_id |-> id, event_type |-> event,
   actor_id |-> actor, payload_hash |-> "digest"]

MCContents ==
  {Content(<<"a">>, <<"b", "a">>, <<"b">>, "x"),
   Content(<<"a">>, <<"b", "a">>, <<"a">>, "x")}

MCAlterations ==
  MCContents \cup {Content(<<"a", "b">>, <<"a">>, <<"b">>, "x"),
                  Content(<<"a">>, <<"b", "a">>, <<"b">>, "y")}
=============================================================================
