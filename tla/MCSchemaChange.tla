--------------------------- MODULE MCSchemaChange ---------------------------
(* Model checking of SchemaChange: schemas of a user, under two names of    *)
(* one table, and a post.  They differ in the user's name field, in whether *)
(* the post exists and refers to the user's key or name, and in the order   *)
(* of the models.                                                           *)
EXTENDS SchemaChange

MCTableOf == [n \in {"User", "user", "Post"} |-> IF n = "Post" THEN "post" ELSE "user"]

Field(col, type) == [col |-> col, type |-> type, isEnum |-> FALSE, optional |-> FALSE,
                     default |-> None, unique |-> FALSE, ref |-> None, list |-> FALSE]
Name == Field("name", "String")

Variants == {
    ("name" :> Name),
    ("name" :> [Name EXCEPT !.optional = TRUE])
        @@ ("at" :> [Field("at", "Date") EXCEPT !.default = "updatedAt"]),
    ("name" :> [Name EXCEPT !.col = "label", !.default = "literal"]),
    ("name" :> [Name EXCEPT !.list = TRUE]),
    ("name" :> [Field("name", "Int") EXCEPT !.default = "autoincrement", !.optional = TRUE])}

Role == [Field("name", "Role") EXCEPT !.isEnum = TRUE]
User(fields) == [name |-> "User", fields |-> fields]
Small(fields) == [name |-> "user", fields |-> fields]
Refers(type, n, c) == [Field("author", type) EXCEPT !.ref = [model |-> n, column |-> c]]
Post(fields) == [name |-> "Post", fields |-> fields]
ByKey(n) == Post("author" :> Refers("Int", n, "id"))
ByName(type) == Post("author" :> Refers(type, "User", "name"))
Unique(f) == "name" :> [f EXCEPT !.unique = TRUE]
Author == Post("author" :> Field("author", "Int"))
Plain(models) == [models |-> models, enums |-> <<>>]

MCSchemas ==
    {Plain(<<User(v)>>) : v \in Variants}
        \cup {[models |-> <<User("title" :> Role)>>, enums |-> <<"Role">>],
              Plain(<<Small("name" :> Name)>>),
              Plain(<<ByKey("User"), User("name" :> Name)>>),
              Plain(<<Author, User(<<>>)>>),
              Plain(<<Small(("by" :> [Field("by", "Int") EXCEPT !.ref = [model |-> "Post", column |-> "id"]])), ByKey("user")>>),
              Plain(<<>>),
              Plain(<<User(Unique(Name)), ByName("String")>>),
              Plain(<<User(Unique(Field("name", "Int"))), ByName("Int")>>),
              Plain(<<User(<<>>), Post(<<>>)>>)}

=============================================================================
