----------------------------- MODULE MCMigration -----------------------------
(* One source as it was exported first and later: two cards with an edge,  *)
(* a comment, a role and a memory; an export with two forms of a comment;  *)
(* and two exports the mapping refuses.                                    *)
EXTENDS MigrationSink

Issue(id, text, status) ==
  [kind |-> "issue", id |-> id, type |-> "task", key |-> None, text |-> text, status |-> status,
   worktree |-> NoWorktree, labels |-> {}, deps |-> {}, comments |-> {}]

Role(id, key, text) == [Issue(id, text, "open") EXCEPT !.type = "role", !.key = key]

Blocks(id) == [on |-> id, kind |-> "blocks"]

Memory(key, text) ==
  [kind |-> "memory", key |-> key, text |-> text, actor |-> "migration", created |-> None]

Comment(body) == {[key |-> "comment", body |-> body]}

Definition(name, category) == [kind |-> "status", name |-> name, category |-> category]

\* A card twice. With records that are skipped: a second role for a key, an unsupported type,
\* a status without category, a memory without key, and edges to those.
First ==
  << Definition("review", None),
     [Issue("a", "one", "open") EXCEPT
        !.comments = Comment("one"), !.deps = {Blocks("g"), [on |-> "b", kind |-> "related"]}],
     [Issue("b", "one", "review") EXCEPT !.deps = {Blocks("a"), Blocks("r")}],
     [Issue("b", "one", "review") EXCEPT !.deps = {Blocks("a")}],
     [Issue("g", "one", "open") EXCEPT !.type = "gate"],
     Issue("o", "one", "odd"),
     Role("r", "k1", "one"),
     Role("s", "k1", "two"),
     [Memory("m", "one") EXCEPT !.created = "then"],
     Memory(None, "one") >>

\* Edited, retitled, closed, turned round; one id for two roles; no time.
Second ==
  << [Issue("a", "one", "closed") EXCEPT !.comments = Comment("two"), !.deps = {Blocks("b")}],
     [Issue("b", "one", "open") EXCEPT !.worktree = "tree", !.labels = {"human"}],
     Role("s", "k1", "one"),
     Role("s", "k2", "one"),
     Role("r", "k2", "one"),
     Memory("m", "two") >>

\* The key of both is known once First or Second was imported.
Repeated ==
  << [Issue("a", "one", "closed") EXCEPT !.comments = Comment("one")],
     [Issue("a", "one", "closed") EXCEPT !.comments = Comment("two")] >>

\* The mapping refuses a cycle, and a definition against the configuration.
Looped ==
  << [Issue("a", "one", "open") EXCEPT !.deps = {Blocks("b")}],
     [Issue("b", "one", "open") EXCEPT !.deps = {Blocks("a")}] >>
Redefined == << Definition("review", "wip") >>

MCExports == {First, Second, Repeated, Looped, Redefined}

MCConfigured == [n \in Status |-> IF n = "review" THEN "active" ELSE None]
\* The id of the users' card begins with that of an imported one.
MCBegins == {<<"n", "a">>}
MCLegacy == [n \in Status |-> None]

\* How the last run ended has no influence on what follows.
WithoutOutcome ==
  <<dest, temp, IF run.pc = "idle" THEN run.pc ELSE run, imports, natives, settled>>
=============================================================================
