------------------------------ MODULE AdServer ------------------------------
(***************************************************************************)
(* What the AD server knows of people, and what the methods of UsersInfo   *)
(* (src/ldap/mod.rs) make of it.                                           *)
(***************************************************************************)
CONSTANT People   \* distinguished names

\* An entry of the AD, as far as UsersInfo looks at it: it may be missing, or
\* lack the attribute mail, or be in no group.
Entry == {"missing", "no mail", "no groups", "whole"}

Question ==
    [op : {"get_user_info", "find_user_info"}, person : People, password : {"wrong"}]
      \cup [op : {"check_authentication"}, person : People,
            password : {"right", "wrong", "empty"}]

Answer == {"some", "none", "ok", "error"}

\* AdUserInfo::try_from: an entry without mail or groups cannot be parsed.
Parsed(entry) == IF entry = "whole" THEN "some" ELSE "error"

\* get_user_info searches below the person's name with the filter (mail=*): it
\* does not find an entry without mail, and a name that is not there is an error
\* of the search.
Info(entry) ==
    CASE entry = "missing" -> "error"
      [] entry = "no mail" -> "none"
      [] OTHER             -> Parsed(entry)

\* find_user_info also finds an entry by sAMAccountName.
Find(entry) == IF entry = "missing" THEN "none" ELSE Parsed(entry)

\* The password of a person who is there.
Authentic(entry, password) == entry # "missing" /\ password = "right"

Truth(question, entry) ==
    CASE question.op = "get_user_info" -> Info(entry)
      [] question.op = "find_user_info" -> Find(entry)
      [] question.op = "check_authentication" ->
            IF Authentic(entry, question.password) THEN "ok" ELSE "error"

=============================================================================
