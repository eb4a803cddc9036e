---------------------------- MODULE MCRelations ----------------------------
(* Model checking of Relations: users with a boss, one profile each, posts  *)
(* with an author, and tags without a key on either side.                   *)
EXTENDS Relations, TLC

MCScalars == [User |-> {"id", "boss"}, Post |-> {"id", "author"}, Profile |-> {"id", "user"}]

Key(name, target, fk) == [name |-> name, target |-> target, list |-> FALSE, fk |-> fk,
                          ref |-> "id", pair |-> fk]
Back(name, target, list, pair) == [name |-> name, target |-> target, list |-> list,
                                   fk |-> None, ref |-> None, pair |-> pair]

MCFields == [
    User |-> <<Key("manager", "User", "boss"), Back("reports", "User", TRUE, "boss"),
               Back("posts", "Post", TRUE, "author"), Back("profile", "Profile", FALSE, "user")>>,
    Post |-> <<Key("writer", "User", "author"), Back("attached", "Profile", TRUE, "tags")>>,
    Profile |-> <<Key("owner", "User", "user"), Back("tagged", "Post", TRUE, "tags")>>]

MCUnique == [User |-> {"id"}, Post |-> {"id"}, Profile |-> {"id", "user"}]

TablesOf(users, posts, profiles) == [
    User |-> {[id |-> x[1], boss |-> x[2]] : x \in users},
    Post |-> {[id |-> x[1], author |-> x[2]] : x \in posts},
    Profile |-> {[id |-> x[1], user |-> x[2]] : x \in profiles}]

MCData == {
    TablesOf({<<1, None>>, <<2, 1>>}, {<<1, 1>>, <<2, None>>}, {<<1, 2>>}),
    TablesOf({<<1, 2>>, <<2, 2>>}, {<<1, 2>>, <<2, 2>>}, {<<1, None>>, <<2, 1>>})}

All == [select |-> None, where |-> None, take |-> None]
Only(x) == [All EXCEPT !.select = {x}]
Call(action, m, paths) == [action |-> action, model |-> m, args |-> paths,
                           data |-> <<>>, update |-> <<>>]
Where(field, value) == [All EXCEPT !.where = [field |-> field, value |-> value]]
\* Includes of f and g below the call, and of h below f.
Asked(root, f, a, g, b, h, c) ==
    [p \in {<<>>, <<f>>, <<g>>, <<f, h>>} |->
        IF p = <<>> THEN root ELSE IF p = <<f>> THEN a ELSE IF p = <<g>> THEN b ELSE c]
One(root, f) == [p \in {<<>>, <<f>>} |-> IF p = <<>> THEN root ELSE All]

MCRequests == {
    Call("findMany", "User", Asked(All, "posts", [All EXCEPT !.take = 1], "profile", Only("id"),
                                   "writer", Only("boss"))),
    Call("findMany", "User", Asked([All EXCEPT !.take = 1], "reports", Only("id"),
                                   "manager", Only("boss"), "posts", Where("id", 1))),
    Call("findMany", "Post", Asked(All, "writer", Only("boss"), "attached", All, "posts", All)),
    Call("findUnique", "User", Asked([Where("id", 2) EXCEPT !.select = {"id"}], "profile",
                                     Only("id"), "manager", All, "owner", All)),
    [Call("create", "Post", One(All, "writer")) EXCEPT !.data = ("author" :> 2)],
    [Call("update", "User", One(Where("id", 2), "reports")) EXCEPT !.data = ("boss" :> 1)],
    Call("delete", "Profile", One(Where("id", 1), "owner")),
    [Call("upsert", "Profile", One(Where("user", 2), "owner")) EXCEPT
        !.data = ("user" :> 2), !.update = ("user" :> None)]}

=============================================================================
