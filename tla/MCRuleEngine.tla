---------------------------- MODULE MCRuleEngine ----------------------------
(* Instances of RuleEngine for TLC.                                          *)
EXTENDS RuleEngine

Row(source, priority, matcher, sound, lines) ==
  [source |-> source, priority |-> priority, matcher |-> matcher, sound |-> sound,
   lines |-> lines, enabled |-> TRUE]

\* Ranks and priorities that disagree, equal ones, rules that match one line or both,
\* and rules that cannot match or do not compile.
Rows ==
  {Row("admin_override", 2, "text", TRUE, {"panic"}),
   Row("admin_created", 2, "text", TRUE, {"panic", "login"}),
   Row("system_default", 1, "text", TRUE, {"login"}),
   Row("llm_modified", 1, "text", TRUE, {"panic"}),
   Row("llm_generated", 0, "text", TRUE, {"panic", "login"}),
   Row("other", 0, "text", TRUE, {"login"}),
   Row("admin_created", 0, "field", TRUE, {"login"}),
   Row("llm_generated", 1, "text", FALSE, {"panic"}),
   Row("system_default", 1, "other", TRUE, {"login"})}
=============================================================================
