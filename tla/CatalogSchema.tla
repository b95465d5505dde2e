--------------------------- MODULE CatalogSchema ----------------------------
(***************************************************************************)
(* The tables of the MyLite catalog and the 37 steps that bring an old     *)
(* catalog to the current one (mylite_catalog_migrations.c), beside the    *)
(* catalog a new file gets (initialize_catalog_schema) and the one that    *)
(* validation asks for.                                                    *)
(*                                                                         *)
(* A shape maps each catalog table, index or trigger set that exists to    *)
(* its columns and to the largest kind its CHECK admits (0: no CHECK).     *)
(* A column is mapped to the schema version that gave it its value, so a   *)
(* table rebuilt without copying a column is told from one rebuilt with    *)
(* it.  Types, defaults and the other CHECKs are left out.                 *)
(***************************************************************************)
EXTENDS Integers, Sequences, FiniteSets, SequencesExt

(* MYLITE_CATALOG_SCHEMA_VERSION.                                          *)
Latest == 38

(* The result of SQL that SQLite refuses.                                  *)
Broken == <<>>

Stamps == {"descriptor_version", "created_catalog_generation", "updated_catalog_generation"}

Object(cols, limit, v) == [cols |-> [c \in cols |-> v], limit |-> limit]
Changed(s, t, object) == [x \in DOMAIN s \cup {t} |-> IF x = t THEN object ELSE s[x]]
ColumnsOf(s, t) == DOMAIN s[t].cols

(* ALTER TABLE ADD COLUMN, CREATE TABLE [IF NOT EXISTS], and the rebuild:  *)
(* rename, create, INSERT ... SELECT with literals for the new columns,    *)
(* drop.                                                                   *)
Add(t, cols) == [op |-> "add", table |-> t, cols |-> cols]
Create(t, cols, limit) ==
    [op |-> "create", table |-> t, cols |-> cols, limit |-> limit]
CreateIfMissing(t, cols, limit) ==
    [op |-> "createIfMissing", table |-> t, cols |-> cols, limit |-> limit]
Rebuild(t, copied, literals, limit) ==
    [op |-> "rebuild", table |-> t, cols |-> copied, literals |-> literals, limit |-> limit]

(* What SQLite makes of one change that writes version v; a rebuild whose  *)
(* new CHECK is narrower may refuse the rows it copies.                    *)
Applied(s, ch, v) ==
    LET t == ch.table
        exists == t \in DOMAIN s
    IN  CASE ch.op = "add" /\ exists /\ ch.cols \cap ColumnsOf(s, t) = {} ->
               Changed(s, t, [s[t] EXCEPT !.cols =
                   [c \in DOMAIN @ \cup ch.cols |-> IF c \in ch.cols THEN v ELSE @[c]]])
          [] ch.op = "create" /\ ~exists -> Changed(s, t, Object(ch.cols, ch.limit, v))
          [] ch.op = "createIfMissing" ->
               IF exists THEN s ELSE Changed(s, t, Object(ch.cols, ch.limit, v))
          [] ch.op = "rebuild" /\ exists /\ ch.cols \subseteq ColumnsOf(s, t)
             /\ (s[t].limit = 0 \/ s[t].limit <= ch.limit) ->
               Changed(s, t,
                   [cols |-> [c \in ch.cols \cup ch.literals |->
                                IF c \in ch.literals THEN v ELSE s[t].cols[c]],
                    limit |-> ch.limit])
          [] OTHER -> Broken

----------------------------------------------------------------------------
(* The steps, as the changes they make besides storing their version.      *)
ColumnsV1 == {"column_id", "table_id", "ordinal_position", "name", "logical_type",
              "physical_type", "is_nullable"} \cup Stamps
ColumnsV2 == ColumnsV1 \cup {"default_kind", "default_integer"}
ColumnsV6 == ColumnsV2 \cup {"is_visible", "is_auto_increment"}
ColumnsV7 == ColumnsV6 \cup {"default_text"}
ColumnsV12 == ColumnsV7 \cup {"on_update_current_timestamp"}
ColumnsV26 == ColumnsV12 \cup {"character_set_name", "collation_name", "comment"}
ColumnsV30 == ColumnsV26 \cup {"is_generated", "generated_kind", "generation_expression",
                               "sqlite_generation_expression"}
IndexesV5 == {"index_id", "table_id", "name", "kind", "is_unique", "physical_name"} \cup Stamps

MigrateV1ToV2 == <<Add("columns", {"default_kind", "default_integer"})>>
MigrateV2ToV3 == <<Rebuild("columns", ColumnsV2, {}, 2)>>
MigrateV3ToV4 == <<Rebuild("columns", ColumnsV2, {"is_visible"}, 2)>>
MigrateV4ToV5 ==
    <<Create("indexes", IndexesV5, 1),
      Create("index_columns", {"index_column_id", "index_id", "table_id", "column_id",
                               "ordinal_position"} \cup Stamps, 0)>>
MigrateV5ToV6 ==
    <<Add("tables", {"auto_increment_next"}), Add("columns", {"is_auto_increment"})>>
MigrateV6ToV7 == <<Rebuild("columns", ColumnsV6, {"default_text"}, 3)>>
MigrateV7ToV8 == <<Rebuild("columns", ColumnsV7, {}, 4)>>
MigrateV8ToV9 == <<Rebuild("indexes", IndexesV5, {}, 2)>>
MigrateV9ToV10 == <<Add("index_columns", {"prefix_length"})>>
MigrateV10ToV11 == <<Rebuild("columns", ColumnsV7, {}, 6)>>
MigrateV11ToV12 == <<Rebuild("columns", ColumnsV7, {"on_update_current_timestamp"}, 7)>>
MigrateV12ToV13 == <<Add("tables", {"default_charset", "default_collation"})>>
MigrateV13ToV14 ==
    <<CreateIfMissing("foreign_keys",
          {"foreign_key_id", "child_table_id", "parent_table_id", "name", "parent_index_id",
           "child_index_id", "update_rule", "delete_rule", "match_option"} \cup Stamps, 0),
      CreateIfMissing("foreign_key_columns",
          {"foreign_key_column_id", "foreign_key_id", "child_table_id", "parent_table_id",
           "child_column_id", "parent_column_id", "ordinal_position",
           "position_in_unique_constraint"} \cup Stamps, 0)>>
MigrateV14ToV15 == <<Rebuild("columns", ColumnsV12, {}, 9)>>
MigrateV15ToV16 == <<Add("columns", {"character_set_name", "collation_name"})>>
MigrateV16ToV17 == <<Add("index_columns", {"sort_direction"})>>
MigrateV17ToV18 ==
    <<CreateIfMissing("check_constraints",
          {"check_constraint_id", "table_id", "name", "physical_name", "check_clause",
           "sqlite_expression", "is_enforced", "name_is_generated", "generated_ordinal",
           "ordinal_position"} \cup Stamps, 0)>>
MigrateV18ToV19 == <<Rebuild("indexes", IndexesV5, {}, 4)>>
MigrateV19ToV20 == <<Add("tables", {"fulltext_doc_id_initialized"})>>
MigrateV20ToV21 == <<Add("tables", {"created_time_utc_epoch", "updated_time_utc_epoch"})>>
MigrateV21ToV22 == <<Add("schemas", {"default_charset", "default_collation"})>>
MigrateV22ToV23 == <<Add("indexes", {"is_visible"})>>
MigrateV23ToV24 == <<Add("tables", {"comment"})>>
MigrateV24ToV25 == <<Add("indexes", {"comment", "show_create_explicit_btree"})>>
MigrateV25ToV26 == <<Add("columns", {"comment"})>>
MigrateV26ToV27 ==
    <<Rebuild("indexes", IndexesV5 \cup {"is_visible", "comment",
                                         "show_create_explicit_btree"}, {}, 4)>>
MigrateV27ToV28 == <<Rebuild("columns", ColumnsV26, {}, 10)>>
MigrateV28ToV29 == <<Rebuild("columns", ColumnsV26, {}, 11)>>
MigrateV29ToV30 ==
    <<Add("columns", {"is_generated", "generated_kind", "generation_expression",
                      "sqlite_generation_expression"})>>
MigrateV30ToV31 ==
    <<Add("tables", {"row_format_option", "key_block_size", "pack_keys", "checksum",
                     "stats_persistent", "stats_auto_recalc", "stats_sample_pages"})>>
(* views is dropped first if it is there, which no file of version 31 has. *)
MigrateV31ToV32 ==
    <<Rebuild("tables",
          {"table_id", "schema_id", "name", "kind", "physical_name", "auto_increment_next",
           "default_charset", "default_collation", "comment", "row_format_option",
           "key_block_size", "pack_keys", "checksum", "stats_persistent",
           "stats_auto_recalc", "stats_sample_pages", "fulltext_doc_id_initialized",
           "created_time_utc_epoch", "updated_time_utc_epoch"} \cup Stamps, {}, 3),
      Create("views",
          {"table_id", "view_definition", "show_create_sql", "check_option", "is_updatable",
           "definer", "security_type", "character_set_client", "collation_connection",
           "source_schema_id", "source_table_id", "source_schema_name",
           "source_table_name"} \cup Stamps, 0)>>
MigrateV32ToV33 == <<Add("tables", {"auto_increment_status"})>>

(* Mutant of MigrateV33ToV34: the rebuilt table gets the generated columns *)
(* from literals, as an earlier rebuild got its new column.                *)
MigrateV33ToV34Forgets ==
    <<Rebuild("columns", ColumnsV26, ColumnsV30 \ ColumnsV26, 12)>>

MigrateV33ToV34 == <<Rebuild("columns", ColumnsV30, {}, 12)>>
MigrateV34ToV35 ==
    <<Add("tables", {"min_rows", "max_rows", "avg_row_length", "delay_key_write"})>>
MigrateV35ToV36 == <<CreateIfMissing("foreign_keys_parent_table_id", {}, 0)>>
MigrateV36ToV37 == <<>>
MigrateV37ToV38 ==
    <<Add("state", {"integrity_catalog_generation", "integrity_sqlite_schema_version"}),
      Create("integrity_seal_triggers", {}, 0)>>

(* mylite_catalog_migrate_schema_one_step: the step that leaves version v. *)
MigrationStep ==
    <<MigrateV1ToV2, MigrateV2ToV3, MigrateV3ToV4, MigrateV4ToV5, MigrateV5ToV6,
      MigrateV6ToV7, MigrateV7ToV8, MigrateV8ToV9, MigrateV9ToV10, MigrateV10ToV11,
      MigrateV11ToV12, MigrateV12ToV13, MigrateV13ToV14, MigrateV14ToV15, MigrateV15ToV16,
      MigrateV16ToV17, MigrateV17ToV18, MigrateV18ToV19, MigrateV19ToV20, MigrateV20ToV21,
      MigrateV21ToV22, MigrateV22ToV23, MigrateV23ToV24, MigrateV24ToV25, MigrateV25ToV26,
      MigrateV26ToV27, MigrateV27ToV28, MigrateV28ToV29, MigrateV29ToV30, MigrateV30ToV31,
      MigrateV31ToV32, MigrateV32ToV33, MigrateV33ToV34, MigrateV34ToV35, MigrateV35ToV36,
      MigrateV36ToV37, MigrateV37ToV38>>

(* The shape after the step that leaves version v.  Nothing is applied to  *)
(* a shape that SQL already failed on.                                     *)
Migrated(s, v) ==
    FoldLeft(LAMBDA acc, ch : IF acc = Broken THEN acc ELSE Applied(acc, ch, v + 1),
             s, MigrationStep[v])

----------------------------------------------------------------------------
(* The oldest catalog, as the steps need to find it.                       *)
ShapeV1 ==
    LET made(cols, limit) == Object(cols, limit, 1)
    IN  [state |-> made({"singleton_id", "schema_version", "minimum_reader_schema_version",
                         "catalog_generation", "created_with_file_format_version"}, 0),
         schemas |-> made({"schema_id", "name"} \cup Stamps, 0),
         tables |-> made({"table_id", "schema_id", "name", "kind", "physical_name"}
                         \cup Stamps, 1),
         columns |-> made(ColumnsV1, 0)]

----------------------------------------------------------------------------
(* initialize_catalog_schema: the catalog of a new file, listed column by  *)
(* column, as the code does.                                               *)
FreshShape ==
    LET made(cols, limit) == [cols |-> cols \cup Stamps, limit |-> limit]
    IN  [state |-> [cols |-> {"singleton_id", "schema_version",
                              "minimum_reader_schema_version", "catalog_generation",
                              "created_with_file_format_version",
                              "integrity_catalog_generation",
                              "integrity_sqlite_schema_version"}, limit |-> 0],
         schemas |-> made({"schema_id", "name", "default_charset", "default_collation"}, 0),
         tables |-> made(
             {"table_id", "schema_id", "name", "kind", "physical_name",
              "auto_increment_next", "auto_increment_status", "default_charset",
              "default_collation", "comment", "row_format_option", "key_block_size",
              "pack_keys", "checksum", "stats_persistent", "stats_auto_recalc",
              "stats_sample_pages", "min_rows", "max_rows", "avg_row_length",
              "delay_key_write", "fulltext_doc_id_initialized", "created_time_utc_epoch",
              "updated_time_utc_epoch"}, 3),
         columns |-> made(
             {"column_id", "table_id", "ordinal_position", "name", "logical_type",
              "physical_type", "is_nullable", "is_visible", "is_auto_increment",
              "default_kind", "default_integer", "default_text",
              "on_update_current_timestamp", "character_set_name", "collation_name",
              "comment", "is_generated", "generated_kind", "generation_expression",
              "sqlite_generation_expression"}, 12),
         views |-> made(
             {"table_id", "view_definition", "show_create_sql", "check_option",
              "is_updatable", "definer", "security_type", "character_set_client",
              "collation_connection", "source_schema_id", "source_table_id",
              "source_schema_name", "source_table_name"}, 0),
         indexes |-> made(
             {"index_id", "table_id", "name", "kind", "is_unique", "is_visible",
              "physical_name", "comment", "show_create_explicit_btree"}, 4),
         index_columns |-> made(
             {"index_column_id", "index_id", "table_id", "column_id", "ordinal_position",
              "prefix_length", "sort_direction"}, 0),
         foreign_keys |-> made(
             {"foreign_key_id", "child_table_id", "parent_table_id", "name",
              "parent_index_id", "child_index_id", "update_rule", "delete_rule",
              "match_option"}, 0),
         foreign_key_columns |-> made(
             {"foreign_key_column_id", "foreign_key_id", "child_table_id",
              "parent_table_id", "child_column_id", "parent_column_id",
              "ordinal_position", "position_in_unique_constraint"}, 0),
         check_constraints |-> made(
             {"check_constraint_id", "table_id", "name", "physical_name", "check_clause",
              "sqlite_expression", "is_enforced", "name_is_generated",
              "generated_ordinal", "ordinal_position"}, 0),
         foreign_keys_parent_table_id |-> [cols |-> {}, limit |-> 0],
         integrity_seal_triggers |-> [cols |-> {}, limit |-> 0]]

(* What a shape declares, whatever version its values come from.           *)
Declared(s) == [t \in DOMAIN s |-> [cols |-> ColumnsOf(s, t), limit |-> s[t].limit]]

(* validate_catalog_tables, validate_catalog_indexes and the triggers:     *)
(* every object the code lists is there, with these columns and no other.  *)
ShapeIsValid(s) ==
    \A t \in DOMAIN FreshShape : t \in DOMAIN s /\ Declared(s)[t] = FreshShape[t]

(* existing_catalog_table_count and the counts ensure_catalog_schema takes *)
(* for a catalog.                                                          *)
CatalogTables == DOMAIN FreshShape \ {"foreign_keys_parent_table_id", "integrity_seal_triggers"}
TableCount(s) == Cardinality(DOMAIN s \cap CatalogTables)
CatalogTableCounts == {4, 6, 7, 8, 9, 10}
=============================================================================
