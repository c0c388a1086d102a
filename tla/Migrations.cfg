SPECIFICATION MigrationsSpec
CONSTANTS Process = {p, q, r} Newer = {3}
INVARIANT MigrationInv
