------------------------------ MODULE Handlers ------------------------------
(***************************************************************************)
(* The handlers of the server and the commands of dit, each as the plan of *)
(* steps it goes through (Calls).  What a handler answers is left out, but *)
(* not where it gets it: a plan ends with the look it takes at what was    *)
(* written.  Commands that only ask and print share the plan of one look.  *)
(*                                                                         *)
(* Code: dit-server/src/routes.rs, dit-cli/src/main.rs.                    *)
(***************************************************************************)
EXTENDS Sequences

Route(write, before, steps) ==
    [by |-> "server", write |-> write, steps |-> before \o <<"workspace">> \o steps]
Read(steps)          == Route(FALSE, <<>>, steps)
Write(before, steps) == Route(TRUE, before, steps)

(* One transaction, in which one change is staged.                         *)
Tx(stage) == <<"begin", stage, "commit">>

-----------------------------------------------------------------------------
(* Reads.                                                                  *)
get_status         == Read(<<>>)
get_schema         == Read(<<>>)
list_issues        == Read(<<"query">>)
get_issue          == Read(<<"resolve">>)
list_docs          == Read(<<>>)
get_attachment     == Read(<<"guard">>)
get_doc            == Read(<<"guard">>)
list_doc_templates == Read(<<>>)
list_comments      == Read(<<"resolve">>)
list_flows         == Read(<<>>)
get_flow           == Read(<<>>)
list_recent_comments == Read(<<>>)
get_history        == Read(<<"resolve">>)
get_activity       == Read(<<>>)
get_activity_summary == Route(FALSE, <<"validate">>, <<>>)
get_board          == Read(<<>>)
list_releases      == Read(<<>>)
get_settings       == Read(<<>>)
get_code_roots     == Read(<<"outside">>)
get_code_overview  == Read(<<"guard">>)
get_code_graph     == Read(<<"guard">>)
get_code_node      == Read(<<"guard">>)

get_morse            == Read(<<>>)
get_spec_candidates  == Read(<<>>)
get_morse_envs       == Read(<<"guard">>)
get_morse_runs       == Read(<<>>)
get_morse_scenario   == Read(<<"guard">>)
preview_morse_import == Route(FALSE, <<"validate">>, <<"guard">>)

(* Issues.                                                                 *)
create_issue == Write(<<"validate">>, Tx("create") \o <<"find">>)
patch_issue  == Write(<<"validate">>, <<"resolve">> \o Tx("edit") \o <<"find">>)
delete_issue == Write(<<>>, <<"resolve">> \o Tx("remove"))
put_body     == Write(<<>>, <<"resolve">> \o Tx("edit") \o <<"find">>)
post_claim   == Write(<<"validate">>, <<"resolve", "claimable">> \o Tx("edit"))
post_comment == Write(<<>>, <<"resolve", "thread">> \o Tx("say") \o <<"last">>)

(* Pages, pictures, releases.                                              *)
post_attachment   == Write(<<>>, <<"resolve">> \o Tx("put"))
put_doc           == Write(<<>>, Tx("put") \o <<"read">>)
delete_doc        == Write(<<>>, Tx("remove"))
move_doc          == Write(<<>>, Tx("put"))
doc_from_template == Write(<<>>, <<"begin", "guard", "create", "commit", "read">>)
patch_release     == Write(<<"validate">>, Tx("edit") \o <<"release">>)

(* Morse.  An environment is a file of this machine.                       *)
register_morse_spec   == Write(<<>>, <<"guard">> \o Tx("config") \o <<"index">>)
unregister_morse_spec == Write(<<>>, <<"guard">> \o Tx("config") \o <<"index">>)
run_morse             == Write(<<>>, <<"guard", "outside">>)
send_morse            == Write(<<"validate">>, <<"guard", "outside">>)
morse_import          == Write(<<"validate">>, <<"guard">> \o Tx("put"))
morse_import_env      == Write(<<>>, <<"outside">>)
set_morse_env         == Write(<<>>, <<"outside">>)
edit_morse_env        == Write(<<>>, <<"outside">>)
delete_morse_env      == Write(<<>>, <<"outside">>)
save_morse_step       == Write(<<"validate">>, <<"guard">> \o Tx("put") \o <<"scenario">>)
edit_morse_scenario   == Write(<<>>, <<"guard">> \o Tx("put") \o <<"scenario">>)
delete_morse_scenario == Write(<<>>, <<"guard">> \o Tx("put"))
create_morse_scenario == Write(<<"validate">>, <<"guard">> \o Tx("append") \o <<"scenario">>)

(* The settings: the alias, the numbering, the layout, those it is given.  *)
put_settings(parts) ==
    Write(<<"validate">>,
          (IF "me" \in parts THEN <<"me">> ELSE <<>>)
          \o (IF "numbering" \in parts THEN Tx("config") ELSE <<>>)
          \o (IF "layout" \in parts THEN Tx("config") \o <<"index">> ELSE <<>>))

Routes ==
    {get_status, get_schema, list_issues, get_issue, list_docs, get_attachment, get_doc,
     list_doc_templates, list_comments, list_flows, get_flow, list_recent_comments,
     get_history, get_activity, get_activity_summary, get_board, list_releases,
     get_settings, get_code_roots, get_code_overview, get_code_graph, get_code_node,
     get_morse, get_spec_candidates, get_morse_envs, get_morse_runs, get_morse_scenario,
     preview_morse_import,
     create_issue, patch_issue, delete_issue, put_body, post_claim, post_comment,
     post_attachment, put_doc, delete_doc, move_doc, doc_from_template, patch_release,
     register_morse_spec, unregister_morse_spec, run_morse, send_morse, morse_import,
     morse_import_env, set_morse_env, edit_morse_env, delete_morse_env, save_morse_step,
     edit_morse_scenario, delete_morse_scenario, create_morse_scenario}
    \union {put_settings(parts) : parts \in SUBSET {"me", "numbering", "layout"}}

-----------------------------------------------------------------------------
Plan(before, steps) ==
    [by |-> "command", write |-> FALSE, steps |-> <<"named">> \o before \o <<"open">> \o steps]
(* Asking.                                                                 *)
list       == Plan(<<>>, <<"query">>)
board      == Plan(<<>>, <<>>)
ready      == Plan(<<>>, <<>>)
inbox      == Plan(<<>>, <<>>)
flow_list  == Plan(<<>>, <<>>)
flow_show  == Plan(<<>>, <<>>)
lanes      == Plan(<<>>, <<>>)
ai_spec    == Plan(<<>>, <<"form">>)

(* Of the whole workspace; a verdict that is not clean fails the command.  *)
reindex        == Plan(<<>>, <<"outside">>)
doctor         == Plan(<<>>, <<"verdict">>)
sync           == Plan(<<>>, <<"outside", "verdict">>)
install_driver == Plan(<<>>, <<"outside">>)

(* Issues.                                                                 *)
issue_new(templated) ==
    Plan(<<"validate">>,
         (IF templated THEN <<"begin", "template", "create", "commit">> ELSE Tx("create"))
            \o <<"index">>)
issue_show    == Plan(<<>>, <<"resolve">>)
issue_set     == Plan(<<"validate">>, <<"resolve">> \o Tx("edit"))
issue_comment(templated) ==
    Plan((IF templated THEN <<"open", "template", "outside">> ELSE <<>>) \o <<"validate">>,
         <<"resolve", "thread">> \o Tx("say"))
claim         == Plan(<<>>, <<"resolve", "claimable">> \o Tx("edit"))
renumber      == Plan(<<>>, <<"form">> \o Tx("edit"))

(* Pages and generated files.                                              *)
docs_new       == Plan(<<>>, <<"begin", "guard", "create", "commit">>)
docs_build     == Plan(<<"validate">>, Tx("generate"))
templates      == Plan(<<>>, <<"template", "outside">>)
workflow_init  == Plan(<<>>, Tx("config"))
ai_add         == Plan(<<"form">>, Tx("config"))
migrate_layout == Plan(<<>>, <<"form">> \o Tx("config") \o <<"index">>)

(* A workspace is made and opened, then its guide for agents: two commits. *)
init(ai) == Plan(<<>>, Tx("config") \o <<"index">> \o (IF ai THEN Tx("config") ELSE <<>>))

(* Morse.                                                                  *)
morse_specs  == Plan(<<>>, <<"guard">>)
morse_allow  == Plan(<<>>, <<"outside">>)
morse_env    == Plan(<<>>, <<"form", "outside">>)
morse_run    == Plan(<<>>, <<"guard", "outside">>)
morse_send   == Plan(<<"form">>, <<"guard", "outside">>)
morse_sync   == Plan(<<>>, <<"guard", "outside">> \o Tx("put"))
morse_import_cmd == Plan(<<>>, <<"outside", "guard", "guard">> \o Tx("put"))

morse_check  == Plan(<<>>, <<"verdict">>)

(* The code map.                                                           *)
code          == Plan(<<>>, <<"outside", "guard">>)
code_check    == Plan(<<>>, <<"outside", "verdict">>)
code_confirm  == Plan(<<>>, <<"outside", "guard">> \o Tx("put"))

AllCommands ==
    {list, board, ready, inbox, flow_list, flow_show, lanes, ai_spec,
     reindex, doctor, sync, install_driver,
     issue_show, issue_set, claim, renumber,
     docs_new, docs_build, templates, workflow_init, ai_add, migrate_layout,
     morse_specs, morse_allow, morse_env, morse_run, morse_send, morse_sync, morse_import_cmd,
     morse_check, code, code_check, code_confirm}
    \union UNION {{issue_new(given), issue_comment(given), init(given)} : given \in BOOLEAN}
=============================================================================
