------------------------------ MODULE CAnswers ------------------------------
(***************************************************************************)
(* What the calls on the handles of libobj answer: for each, the checks    *)
(* of its arguments in the order the code makes them, then what the engine *)
(* returned.  An argument list is the set of its defects.  An answer is    *)
(* the code, whether set_error has recorded a message for it, and what is  *)
(* in the out-parameter: "fresh" for a handle, buffer, id or count of the  *)
(* call, "clear" for NULL or 0, "kept" for what the caller had there.      *)
(***************************************************************************)
EXTENDS Naturals, Sequences

Io == {"Io", "BackupDestinationExists", "AttachmentAlreadyExists", "AttachmentNotReadable"}
Corruption ==
    {"Corruption", "WalCorruption", "InvalidFormat", "BTreeDepthExceeded",
     "BTreeInvariantViolated", "CollectionIdMismatch", "Codec", "EncryptionKeyInvalid"}
Invalid ==
    {"InvalidArgument", "BTreeKeyTooLarge", "BTreeValueTooLarge", "BTreeKeyExists",
     "BTreeScanLimitExceeded", "DocumentTooLarge", "SortBufferExceeded", "SortKeyEncode",
     "DistinctCountExceeded", "IndexFieldMissing", "IndexFieldTypeMismatch",
     "IndexKindMismatch", "IndexKeyPathsMismatch", "UniqueConstraintViolation",
     "EachIndexTooLarge", "SchemaTypeMismatch", "SchemaDepthExceeded", "DynamicPathNotMap",
     "EncryptionKeyRequired", "EncryptionKeyMismatch"}
NotFound ==
    {"CollectionNotFound", "DocumentNotFound", "IndexNotFound", "IndexNotUnique",
     "CollectionNamespaceUnknown"}
Unsupported ==
    {"CollectionAlreadyExists", "IdSpaceExhausted", "ReadOnly", "SchemaMigrationNotImplemented",
     "SchemaVersionFromFuture", "SchemaNotRegistered", "BackupNotSupportedForMemoryPager",
     "BackupNotSupportedForEncryptedPager", "FormatFeatureUnsupported",
     "AttachedDatabaseIsReadOnly"}
Errors == Io \cup Corruption \cup Invalid \cup NotFound \cup Unsupported \cup {"Busy"}

\* error_to_code, whose last arm takes the variants yet to come.
ErrorCode(e) ==
    CASE e \in Io -> "IO"
      [] e \in Invalid -> "INVALID_ARG"
      [] e = "Busy" -> "BUSY"
      [] e \in NotFound -> "NOT_FOUND"
      [] e \in Unsupported -> "UNSUPPORTED"
      [] OTHER -> "CORRUPTION"

Answer(code, told, o) == [code |-> code, told |-> told, out |-> o]

\* A call whose checks fail on arguments a is refused at the first of them.
Checked(a, checks, refused, done) ==
    LET failing == {i \in DOMAIN checks : checks[i] \in a}
        first   == checks[CHOOSE i \in failing : \A j \in failing : i <= j]
    IN  IF failing = {} THEN done
        ELSE Answer(IF first = "utf8" THEN "UTF8" ELSE "INVALID_ARG", FALSE,
                    IF first = "out" THEN "kept" ELSE refused)

\* The engine comes back with an answer, no such thing, a panic or an error;
\* catch_ffi answers a panic and leaves the out-parameter.
Engine(r, failed) ==
    CASE r = "ok" -> Answer("OK", FALSE, "fresh")
      [] r = "panic" -> Answer("CORRUPTION", FALSE, "kept")
      [] r = "absent" -> Answer("NOT_FOUND", FALSE, failed)
      [] OTHER -> Answer(ErrorCode(r), TRUE, failed)

obj_txn_begin_write(a, r) == Checked(a, <<"out", "null">>, "clear", Engine(r, "clear"))
obj_txn_begin_read(a, r) == Checked(a, <<"out", "null">>, "clear", Engine(r, "clear"))
obj_txn_commit(a, r) == Checked(a, <<"null">>, "kept", Engine(r, "kept"))

obj_doc_insert_raw(a, r) ==
    Checked(a, <<"out", "null", "payload", "utf8">>, "kept", Engine(r, "kept"))
obj_doc_update_raw(a, r) ==
    Checked(a, <<"null", "payload", "id", "utf8">>, "kept", Engine(r, "kept"))
obj_doc_delete_raw(a, r) == Checked(a, <<"null", "id", "utf8">>, "kept", Engine(r, "kept"))
obj_doc_upsert_raw(a, r) ==
    Checked(a, <<"null", "payload", "id", "utf8">>, "kept", Engine(r, "kept"))
obj_doc_get(a, r) == Checked(a, <<"out", "null", "id", "utf8">>, "clear", Engine(r, "clear"))

\* read_indexed_inputs checks the payload before the name; entries_from_c is
\* last.
obj_doc_insert_indexed(a, r) ==
    Checked(a, <<"out", "null", "payload", "utf8", "entries">>, "kept", Engine(r, "kept"))
obj_doc_update_indexed(a, r) ==
    Checked(a, <<"null", "id", "payload", "utf8", "entries">>, "kept", Engine(r, "kept"))
obj_doc_delete_indexed(a, r) ==
    Checked(a, <<"null", "id", "utf8", "entries">>, "kept", Engine(r, "kept"))

obj_iter_all(a, r) == Checked(a, <<"out", "null", "utf8">>, "clear", Engine(r, "clear"))
obj_iter_index_range(a, r) ==
    Checked(a, <<"out", "null", "utf8", "bounds">>, "clear", Engine(r, "clear"))
obj_find_unique(a, r) ==
    Checked(a, <<"out", "null", "payload", "utf8">>, "clear", Engine(r, "clear"))
obj_count_all(a, r) == Checked(a, <<"out", "null", "utf8">>, "kept", Engine(r, "kept"))
obj_count_index_range(a, r) ==
    Checked(a, <<"out", "null", "utf8", "bounds">>, "kept", Engine(r, "kept"))

\* A check that has found failures still hands over its report.
obj_integrity_check(a, r, failures) ==
    Checked(a, <<"out", "null">>, "clear",
            IF r = "ok" /\ failures THEN Answer("INTEGRITY", FALSE, "fresh")
                                    ELSE Engine(r, "clear"))
obj_backup_to(a, r) == Checked(a, <<"null", "utf8">>, "kept", Engine(r, "kept"))
obj_stat(a, r) == Checked(a, <<"out", "null">>, "kept", Engine(r, "kept"))

-----------------------------------------------------------------------------
(* What calls of one kind answer to valid arguments, if the engine returns *)
(* r.                                                                      *)

\* They create the collection if it is not there.
InsertCalls(r) ==
    {obj_doc_insert_raw({}, r), obj_doc_insert_indexed({}, r), obj_doc_upsert_raw({}, r)}

UpdateCalls(r) ==
    {obj_doc_update_raw({}, r), obj_doc_update_indexed({}, r),
     obj_doc_delete_raw({}, r), obj_doc_delete_indexed({}, r)}

ReadCalls(r) ==
    {obj_doc_get({}, r), obj_find_unique({}, r), obj_count_all({}, r),
     obj_count_index_range({}, r)}

IterCalls(r) == {obj_iter_all({}, r), obj_iter_index_range({}, r)}

DbCalls(r) == {obj_stat({}, r), obj_integrity_check({}, r, FALSE), obj_backup_to({}, r)}
=============================================================================
